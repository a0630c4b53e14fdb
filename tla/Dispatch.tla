------------------------------ MODULE Dispatch ------------------------------
(***************************************************************************)
(* One command from the console to an agent and back:                      *)
(* command/dispatcher.go (Dispatch, finish), the waiters of                *)
(* session/session.go, the Result case of grpcserver.handleAgentMessage,   *)
(* and the agent's receive loop and handleCommand goroutines.              *)
(*                                                                         *)
(* A call is one invocation of Dispatch, and stands for the trace_id it    *)
(* generates.  ExecCommand gives each call a Command object of its own;    *)
(* BatchCommand hands one object to a goroutine per node.  CmdOf says      *)
(* which call uses which object, so both callers are instances.            *)
(*                                                                         *)
(* Frames carry the call that sent them beside the trace_id that was       *)
(* marshalled.  The code never reads "call": it is there for properties.   *)
(* Frames in flight are sets, because the agent handles every command in   *)
(* a goroutine of its own and the order of frames is lost there.           *)
(***************************************************************************)
EXTENDS Sessions

CONSTANTS Calls,   \* invocations of Dispatch
          Cmds,    \* ecpv1.Command objects
          CmdOf,   \* the object a call sends
          Target,  \* the node a call is addressed to
          Window,  \* frames a stream buffers before Send blocks
          Beating, \* streams whose agent beats, besides sending telemetry
          DbErrors \* how many calls may have a statement fail: a bound

ASSUME DispatchAssumption ==
    /\ None \notin Calls
    /\ CmdOf \in [Calls -> Cmds]
    /\ Target \in [Calls -> Nodes]
    /\ Window \in Nat \ {0}
    /\ Beating \subseteq Streams
    /\ DbErrors \in Nat

VARIABLES call,      \* where the invocation is
          handle,    \* the stream Manager.Send looked up, while it sends
          cmdTrace,  \* the TraceId field of a Command object
          waiters,   \* Manager.waiters: trace ids somebody waits for
          chan,      \* the call whose result is in the waiter's channel
          closed,    \* the waiter's channels that were closed
          handing,   \* results taken out of the map, not yet in the channel
          answer,    \* what Dispatch returned
          source,    \* the call whose result Dispatch returned
          ledger,    \* the status column of the command's row
          unwritten, \* calls one of whose statements on the row failed
          commands,  \* command frames in flight to agents
          acks,      \* streams with the answer to a heartbeat in flight
          jobs,      \* handleCommand goroutines of the agents
          results,   \* result frames in flight to the control plane
          runs       \* how often the command of a call was run

dispatchVars == <<call, handle, cmdTrace, waiters, chan, closed, handing,
                  answer, source, ledger, unwritten, commands, acks, jobs,
                  results, runs>>
ledgerVars == <<ledger, unwritten>>
callVars == <<call, handle, cmdTrace, answer, source, ledgerVars>>
waiterVars == <<waiters, chan, closed, handing>>
agentVars == <<commands, acks, jobs, results, runs>>
vars == <<sessionVars, dispatchVars>>

Frames == [call : Calls, trace : Calls, stream : Streams]
Jobs == [call : Calls, trace : Calls, stream : Streams, ran : BOOLEAN]

Stages == {"idle", "traced", "registered", "sending", "sent", "waiting",
           "finishing", "leaving", "returned"}
Answers == {"none", "offline", "sendfail", "result", "timeout",
            "cancelled", "lost"}

\* The stages in which Dispatch owns a waiter it must release.
Registered == {"registered", "sending", "sent", "waiting", "finishing",
               "leaving"}

TypeOK ==
    /\ SessionsTypeOK
    /\ call \in [Calls -> Stages]
    /\ handle \in [Calls -> Streams \cup {None}]
    /\ cmdTrace \in [Cmds -> Calls \cup {None}]
    /\ waiters \subseteq Calls
    /\ chan \in [Calls -> Calls \cup {None}]
    /\ closed \subseteq Calls
    /\ handing \subseteq Frames
    /\ answer \in [Calls -> Answers]
    /\ source \in [Calls -> Calls \cup {None}]
    /\ ledger \in [Calls -> {"none", "pending", "result", "timeout"}]
    /\ unwritten \subseteq Calls
    /\ commands \subseteq Frames
    /\ acks \subseteq Streams
    /\ jobs \subseteq Jobs
    /\ results \subseteq Frames
    /\ runs \in [Calls -> Nat]

Init ==
    /\ SessionsInit
    /\ call = [c \in Calls |-> "idle"]
    /\ handle = [c \in Calls |-> None]
    /\ cmdTrace = [k \in Cmds |-> None]
    /\ waiters = {}
    /\ chan = [c \in Calls |-> None]
    /\ closed = {}
    /\ handing = {}
    /\ answer = [c \in Calls |-> "none"]
    /\ source = [c \in Calls |-> None]
    /\ ledger = [c \in Calls |-> "none"]
    /\ unwritten = {}
    /\ commands = {}
    /\ acks = {}
    /\ jobs = {}
    /\ results = {}
    /\ runs = [c \in Calls |-> 0]

-----------------------------------------------------------------------------
(* Dispatch, statement by statement.                                        *)

\* Offline nodes are refused before anything is registered.
Begin(c) ==
    /\ call[c] = "idle"
    /\ \/ /\ IsOnline(Target[c])
          /\ call' = [call EXCEPT ![c] = "traced"]
          /\ cmdTrace' = [cmdTrace EXCEPT ![CmdOf[c]] = c]
          /\ UNCHANGED answer
       \/ /\ ~ IsOnline(Target[c])
          /\ call' = [call EXCEPT ![c] = "returned"]
          /\ answer' = [answer EXCEPT ![c] = "offline"]
          /\ UNCHANGED cmdTrace
    /\ UNCHANGED <<sessionVars, handle, source, ledgerVars, waiterVars, agentVars>>

RegisterWaiter(c) ==
    /\ call[c] = "traced"
    /\ call' = [call EXCEPT ![c] = "registered"]
    /\ waiters' = waiters \cup {c}
    /\ UNCHANGED <<sessionVars, handle, cmdTrace, answer, source, ledgerVars,
                   chan, closed, handing, agentVars>>

\* Fault: a failed Send returns without the deferred CancelWaiter.
LookupNoDefer(c) ==
    /\ call[c] = "registered"
    /\ sessions[Target[c]] = None
    /\ answer' = [answer EXCEPT ![c] = "sendfail"]
    /\ call' = [call EXCEPT ![c] = "returned"]
    /\ UNCHANGED <<sessionVars, handle, cmdTrace, source, ledgerVars, waiterVars,
                   agentVars>>

\* Manager.Send reads the registry under the lock ...
Lookup(c) ==
    /\ call[c] = "registered"
    /\ LET s == sessions[Target[c]] IN
       \/ /\ s # None
          /\ handle' = [handle EXCEPT ![c] = s]
          /\ call' = [call EXCEPT ![c] = "sending"]
          /\ UNCHANGED answer
       \/ /\ s = None
          /\ answer' = [answer EXCEPT ![c] = "sendfail"]
          /\ call' = [call EXCEPT ![c] = "leaving"]
          /\ UNCHANGED handle
    /\ UNCHANGED <<sessionVars, cmdTrace, source, ledgerVars, waiterVars, agentVars>>

HasRoom(s) ==
    Cardinality({f \in commands : f.stream = s}) + Cardinality(acks \cap {s})
        < Window

\* The handlers on whose stream a Send still works.
Open == {"attached", "serving", "acking"}

\* Fault: the Send waits for room whatever happens to the stream.
PushWaits(c) ==
    /\ call[c] = "sending"
    /\ handler[handle[c]] \in Open
    /\ HasRoom(handle[c])
    /\ commands' = commands \cup
           {[call |-> c, trace |-> cmdTrace[CmdOf[c]], stream |-> handle[c]]}
    /\ call' = [call EXCEPT ![c] = "sent"]
    /\ handle' = [handle EXCEPT ![c] = None]
    /\ UNCHANGED <<sessionVars, cmdTrace, answer, source, ledgerVars,
                   waiterVars, acks, jobs, results, runs>>

\* ... and sends after releasing it.  Send marshals the Command object as it
\* is at that moment.  On a broken stream whose handler has not noticed,
\* Send may succeed into the buffer; it blocks while the buffer is full.
Push(c) ==
    /\ call[c] = "sending"
    /\ LET s == handle[c] IN
       \/ /\ handler[s] \in Open
          /\ HasRoom(s)
          /\ commands' = commands \cup
                 {[call |-> c, trace |-> cmdTrace[CmdOf[c]], stream |-> s]}
          /\ call' = [call EXCEPT ![c] = "sent"]
          /\ UNCHANGED answer
       \/ /\ s \in cut \/ handler[s] \notin Open
          /\ answer' = [answer EXCEPT ![c] = "sendfail"]
          /\ call' = [call EXCEPT ![c] = "leaving"]
          /\ UNCHANGED commands
    /\ handle' = [handle EXCEPT ![c] = None]
    /\ UNCHANGED <<sessionVars, cmdTrace, source, ledgerVars, waiterVars,
                   acks, jobs, results, runs>>

StatementFails(c) ==
    /\ Cardinality(unwritten \cup {c}) <= DbErrors
    /\ unwritten' = unwritten \cup {c}

\* The row is created after the command has left; an error is discarded.
Record(c) ==
    /\ call[c] = "sent"
    /\ call' = [call EXCEPT ![c] = "waiting"]
    /\ \/ /\ ledger' = [ledger EXCEPT ![c] = "pending"]
          /\ UNCHANGED unwritten
       \/ /\ StatementFails(c)
          /\ UNCHANGED ledger
    /\ UNCHANGED <<sessionVars, handle, cmdTrace, answer, source, waiterVars,
                   agentVars>>

\* The three branches of the select; any ready one may be taken.
TakeResult(c) ==
    /\ call[c] = "waiting"
    /\ chan[c] # None
    /\ chan' = [chan EXCEPT ![c] = None]
    /\ source' = [source EXCEPT ![c] = chan[c]]
    /\ answer' = [answer EXCEPT ![c] = "result"]
    /\ call' = [call EXCEPT ![c] = "finishing"]
    /\ UNCHANGED <<sessionVars, handle, cmdTrace, ledgerVars, waiters, closed,
                   handing, agentVars>>

Timeout(c) ==
    /\ call[c] = "waiting"
    /\ answer' = [answer EXCEPT ![c] = "timeout"]
    /\ call' = [call EXCEPT ![c] = "finishing"]
    /\ UNCHANGED <<sessionVars, handle, cmdTrace, source, ledgerVars,
                   waiterVars, agentVars>>

\* finish updates the row of the trace id, if there is one; an error is
\* discarded here too, and the caller gets its answer all the same.
Finish(c) ==
    /\ call[c] = "finishing"
    /\ call' = [call EXCEPT ![c] = "leaving"]
    /\ \/ /\ ledger' = IF ledger[c] = "none" THEN ledger
                        ELSE [ledger EXCEPT ![c] = answer[c]]
          /\ UNCHANGED unwritten
       \/ /\ StatementFails(c)
          /\ UNCHANGED ledger
    /\ UNCHANGED <<sessionVars, handle, cmdTrace, answer, source, waiterVars,
                   agentVars>>

\* Fault: an abandoned request is reported like a failed Send.
CtxDoneAsSendfail(c) ==
    /\ call[c] = "waiting"
    /\ answer' = [answer EXCEPT ![c] = "sendfail"]
    /\ call' = [call EXCEPT ![c] = "leaving"]
    /\ UNCHANGED <<sessionVars, handle, cmdTrace, source, ledgerVars, waiterVars,
                   agentVars>>

\* The HTTP request ends first: no finish, the row stays as it is.
CtxDone(c) ==
    /\ call[c] = "waiting"
    /\ answer' = [answer EXCEPT ![c] = "cancelled"]
    /\ call' = [call EXCEPT ![c] = "leaving"]
    /\ UNCHANGED <<sessionVars, handle, cmdTrace, source, ledgerVars, waiterVars,
                   agentVars>>

\* The deferred CancelWaiter closes the channel unless a result took it.
CancelWaiter(c) ==
    /\ call[c] = "leaving"
    /\ call' = [call EXCEPT ![c] = "returned"]
    /\ closed' = closed \cup ({c} \cap waiters)
    /\ waiters' = waiters \ {c}
    /\ UNCHANGED <<sessionVars, handle, cmdTrace, answer, source, ledgerVars, chan,
                   handing, agentVars>>

-----------------------------------------------------------------------------
(* The control plane's receive loop.                                        *)

Busy(s) == \E f \in handing : f.stream = s

\* Fault: DeliverResult leaves the waiter in the map.
RecvResultKeepsWaiter(f) ==
    /\ f \in results
    /\ handler[f.stream] = "serving"
    /\ ~ Busy(f.stream)
    /\ results' = results \ {f}
    /\ Touch(owner[f.stream])
    /\ handing' = IF f.trace \in waiters THEN handing \cup {f} ELSE handing
    /\ UNCHANGED <<agentStream, owner, handler, cut, callVars, waiters, chan,
                   closed, commands, acks, jobs, runs>>

\* Fault: the row is finished when the result arrives, not when it is taken.
RecvResultFinishes(f) ==
    /\ f \in results
    /\ handler[f.stream] = "serving"
    /\ ~ Busy(f.stream)
    /\ results' = results \ {f}
    /\ Touch(owner[f.stream])
    /\ waiters' = waiters \ {f.trace}
    /\ handing' = IF f.trace \in waiters THEN handing \cup {f} ELSE handing
    /\ ledger' = [ledger EXCEPT ![f.trace] = "result"]
    /\ UNCHANGED <<agentStream, owner, handler, cut, call, handle, cmdTrace,
                   answer, source, unwritten, chan, closed, commands, acks,
                   jobs, runs>>

\* DeliverResult takes the waiter out of the map under the lock; a result
\* nobody waits for is dropped.
RecvResult(f) ==
    /\ f \in results
    /\ handler[f.stream] = "serving"
    /\ ~ Busy(f.stream)
    /\ results' = results \ {f}
    /\ Touch(owner[f.stream])
    /\ waiters' = waiters \ {f.trace}
    /\ handing' = IF f.trace \in waiters THEN handing \cup {f} ELSE handing
    /\ UNCHANGED <<agentStream, owner, handler, cut, callVars, chan, closed,
                   commands, acks, jobs, runs>>

\* After the unlock it sends on the channel, without blocking.
HandOver(f) ==
    /\ f \in handing
    /\ handing' = handing \ {f}
    /\ chan' = IF chan[f.trace] = None
               THEN [chan EXCEPT ![f.trace] = f.call] ELSE chan
    /\ UNCHANGED <<sessionVars, callVars, waiters, closed, agentVars>>

-----------------------------------------------------------------------------
(* The agent.                                                               *)

Job(f, ran) == [call |-> f.call, trace |-> f.trace, stream |-> f.stream,
                ran |-> ran]

\* The receive loop starts a goroutine for the command.
AgentRecv(f) ==
    /\ f \in commands
    /\ agentStream[owner[f.stream]] = f.stream
    /\ f.stream \notin cut
    /\ commands' = commands \ {f}
    /\ jobs' = jobs \cup {Job(f, FALSE)}
    /\ UNCHANGED <<sessionVars, callVars, waiterVars, acks, results, runs>>

\* The receive loop has nothing to do with the answer to a heartbeat.
AgentRecvAck(s) ==
    /\ s \in acks
    /\ agentStream[owner[s]] = s
    /\ s \notin cut
    /\ acks' = acks \ {s}
    /\ UNCHANGED <<sessionVars, callVars, waiterVars, commands, jobs, results,
                   runs>>

\* executor.Handle has its effect on the node.
Execute(j) ==
    /\ j \in jobs
    /\ ~ j.ran
    /\ jobs' = (jobs \ {j}) \cup {Job(j, TRUE)}
    /\ runs' = [runs EXCEPT ![j.call] = @ + 1]
    /\ UNCHANGED <<sessionVars, callVars, waiterVars, commands, acks, results>>

\* Fault: the goroutine reads a loop variable that has moved to another command.
ReplyOtherTrace(j) ==
    /\ j \in jobs
    /\ j.ran
    /\ jobs' = jobs \ {j}
    /\ \E k \in jobs :
         results' = results \cup {[call |-> j.call, trace |-> k.trace,
                                  stream |-> j.stream]}
    /\ UNCHANGED <<sessionVars, callVars, waiterVars, commands, acks, runs>>

\* The result goes to the stream the command came from, never to a newer one.
Reply(j) ==
    /\ j \in jobs
    /\ j.ran
    /\ jobs' = jobs \ {j}
    /\ results' = IF j.stream \in cut THEN results
                  ELSE results \cup {[call |-> j.call, trace |-> j.trace,
                                      stream |-> j.stream]}
    /\ UNCHANGED <<sessionVars, callVars, waiterVars, commands, acks, runs>>

-----------------------------------------------------------------------------
(* Streams, processes and restarts, with what they do to the frames.        *)

\* The answer to a heartbeat waits, like a command, while the window is full,
\* and the handler reads nothing meanwhile.  A second answer in flight is as
\* good as one.
Heartbeat(s) ==
    /\ ~ Busy(s)
    /\ \/ RecvHeartbeat(s, "serving") /\ UNCHANGED acks
       \/ /\ s \in Beating /\ HasRoom(s)
          /\ RecvHeartbeat(s, "serving")
          /\ acks' = acks \cup {s}
       \/ /\ s \in Beating /\ ~ HasRoom(s)
          /\ RecvHeartbeat(s, "acking")
          /\ UNCHANGED acks
    /\ UNCHANGED <<callVars, waiterVars, commands, jobs, results, runs>>

Ack(s) ==
    /\ AckSent(s)
    /\ \/ HasRoom(s) /\ acks' = acks \cup {s}
       \/ s \in cut /\ UNCHANGED acks
    /\ UNCHANGED <<callVars, waiterVars, commands, jobs, results, runs>>

\* What the handler has not read is lost with the stream.
StreamEnds(s) ==
    /\ ~ Busy(s)
    /\ EndStream(s)
    /\ commands' = {f \in commands : f.stream # s}
    /\ results' = {f \in results : f.stream # s}
    /\ acks' = acks \ {s}
    /\ UNCHANGED <<callVars, waiterVars, jobs, runs>>

\* The agent's goroutines die with its process, whether or not they had run.
AgentCrash(n) ==
    /\ AgentStop(n)
    /\ jobs' = {j \in jobs : owner[j.stream] # n}
    /\ UNCHANGED <<callVars, waiterVars, commands, acks, results, runs>>

\* Calls in progress are lost, even one whose row is already final, and so
\* is every waiter; the ledger is on disk and the agents keep running what
\* they have received.
Restart ==
    /\ ServerRestart
    /\ call' = [c \in Calls |->
                  IF call[c] = "idle" THEN "idle" ELSE "returned"]
    /\ answer' = [c \in Calls |->
                    IF call[c] \in {"idle", "returned"}
                    THEN answer[c] ELSE "lost"]
    /\ waiters' = {}
    /\ chan' = [c \in Calls |-> None]
    /\ closed' = {}
    /\ handing' = {}
    /\ commands' = {}
    /\ acks' = {}
    /\ results' = {}
    /\ handle' = [c \in Calls |-> None]
    /\ UNCHANGED <<cmdTrace, source, ledgerVars, jobs, runs>>

DispatchStep(c) ==
    \/ Begin(c) \/ RegisterWaiter(c) \/ Lookup(c) \/ Push(c) \/ Record(c)
    \/ TakeResult(c) \/ Timeout(c) \/ CtxDone(c) \/ Finish(c)
    \/ CancelWaiter(c)

Next ==
    \/ SessionStep /\ UNCHANGED dispatchVars
    \/ \E c \in Calls : DispatchStep(c)
    \/ \E f \in results : RecvResult(f)
    \/ \E f \in handing : HandOver(f)
    \/ \E f \in commands : AgentRecv(f)
    \/ \E j \in jobs : Execute(j) \/ Reply(j)
    \/ \E s \in Streams :
         Heartbeat(s) \/ Ack(s) \/ AgentRecvAck(s) \/ StreamEnds(s)
    \/ \E n \in Nodes : AgentCrash(n)
    \/ Restart

Spec == Init /\ [][Next]_vars

\* The timer of the select always fires, goroutines that can run do run, and
\* an agent that is up reads its stream.  Fairness is strong where a rival
\* may come first, though not for ever: heartbeats are half a minute apart,
\* so their answers do not take every place in the window that gets free,
\* and a broken stream holds finitely many frames before the keepalive's
\* verdict ends it.  Nothing makes a call begin, a link break, or an executor
\* come back with an answer.
DispatchFairness(c) ==
    /\ WF_vars(\/ RegisterWaiter(c) \/ Lookup(c) \/ Record(c) \/ Timeout(c)
               \/ Finish(c) \/ CancelWaiter(c))
    /\ SF_vars(Push(c))

StreamFairness(s) ==
    /\ WF_vars(/\ \/ AcceptFirst(s) \/ RejectFirst(s) \/ StartServing(s)
                  \/ RunDeferredDetach(s)
               /\ UNCHANGED dispatchVars)
    /\ SF_vars(Ack(s))
    /\ SF_vars(StreamEnds(s))
    /\ WF_vars(AgentRecvAck(s))
    /\ WF_vars(\E f \in handing : f.stream = s /\ HandOver(f))
    /\ WF_vars(\E f \in commands : f.stream = s /\ AgentRecv(f))

FairSpec ==
    /\ Spec
    /\ \A c \in Calls : DispatchFairness(c)
    /\ \A s \in Streams : StreamFairness(s)

-----------------------------------------------------------------------------
(* Properties.                                                              *)

\* DeliverResult sends on a channel after it has released the lock, while
\* CancelWaiter closes channels: a send on a closed channel would panic and
\* take the whole control plane down.  No result in hand is for a channel
\* that has been closed.
NoSendOnClosed == \A f \in handing : f.trace \notin closed

\* The result a caller is given is the result of its own command, and the
\* command has been run by then (Dispatch, "trace_id is generated here and
\* passed along the whole chain").
OwnAnswer ==
    \A c \in Calls : answer[c] = "result" => source[c] = c /\ runs[c] > 0

\* The ledger never tells another story than the caller was told, whatever
\* arrives late and wherever the control plane stops.  A row is final only
\* with the outcome its caller was given, unless a restart took the caller
\* away before it heard.  A caller that was answered has a row with that
\* outcome, and no command that was run is without a row, unless a statement
\* on the row failed, an error the code discards.
LedgerAgrees ==
    \A c \in Calls :
        /\ ledger[c] \in {"result", "timeout"} =>
               answer[c] \in {ledger[c], "lost"}
        /\ (call[c] = "returned" /\ answer[c] # "lost" /\ c \notin unwritten) =>
               /\ answer[c] \in {"result", "timeout"} => ledger[c] = answer[c]
               /\ runs[c] > 0 => ledger[c] # "none"

\* Every way out of Dispatch releases its waiter: the waiters are those of
\* calls still in progress, so the map cannot grow with finished calls.
NoWaiterLeak == \A c \in waiters : call[c] \in Registered

\* A Dispatch that has begun returns, even if the agent never answers, the
\* stream breaks under it, or its Send waits because what was sent before it
\* fills the stream's window.
DispatchReturns ==
    \A c \in Calls : call[c] = "traced" ~> call[c] = "returned"

\* Once the agent of a node has gone for good, the deferred Detach of its
\* last handler takes the node out of the registry for good.
GoneAgentGoesOffline ==
    \A n \in Nodes :
        <>[](agentStream[n] = None) => <>[](sessions[n] = None)

\* How far a call has come, and what its caller has heard, in the
\* contract's terms.
StageOf(c) ==
    CASE call[c] = "idle" -> "new"
      [] call[c] = "returned" -> "closed"
      [] OTHER -> "open"

ReplyOf(c) == IF call[c] = "returned" THEN answer[c] ELSE "none"

\* Dispatch keeps the contract the console relies on: what ExecCommand
\* answers over HTTP is what the contract lets a caller conclude.
Contract == INSTANCE CommandContract WITH
    stage <- [c \in Calls |-> StageOf(c)],
    reply <- [c \in Calls |-> ReplyOf(c)]

KeepsContract == Contract!Spec
=============================================================================
