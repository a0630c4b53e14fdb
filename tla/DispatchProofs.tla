--------------------------- MODULE DispatchProofs ---------------------------
(***************************************************************************)
(* Proofs about Dispatch, for any nodes, streams, calls and window.        *)
(***************************************************************************)
EXTENDS Dispatch, TLAPS

-----------------------------------------------------------------------------
(* The inductive invariant, in parts.                                       *)

\* Streams and the registry.
SessionInv ==
    /\ \A s \in Streams : handler[s] # "unused" => owner[s] \in Nodes
    /\ SessionBacked

\* A Command about to be sent has a TraceId and a stream, and a row about to
\* be finished a status.
SendInv ==
    \A c \in Calls :
        /\ call[c] \in {"traced", "registered", "sending"}
               => cmdTrace[CmdOf[c]] \in Calls
        /\ call[c] = "sending" => handle[c] \in Streams
        /\ call[c] = "finishing" => answer[c] \in {"result", "timeout"}

\* A trace id is in the map, in a hand or closed, never two of them.
WaiterInv ==
    /\ NoWaiterLeak
    /\ \A c \in closed : call[c] = "returned"
    /\ \A f \in handing : /\ f.trace \notin waiters
                          /\ f.trace \notin closed
                          /\ call[f.trace] \notin {"idle", "traced"}

\* The answer is decided at the select and recorded before the caller has
\* it.  Until then the row is pending, or its Create failed.
AnswerInv ==
    \A c \in Calls :
        /\ answer[c] = "none"
               <=> call[c] \notin {"finishing", "leaving", "returned"}
        /\ call[c] \in {"idle", "traced", "registered", "sending", "sent"}
               => ledger[c] = "none"
        /\ call[c] \in {"waiting", "finishing"}
               => \/ ledger[c] = "pending"
                  \/ ledger[c] = "none" /\ c \in unwritten
        /\ ledger[c] \in {"result", "timeout"}
               => answer[c] \in {ledger[c], "lost"}
        /\ call[c] \in {"leaving", "returned"} /\ c \notin unwritten
               => /\ answer[c] \in {"result", "timeout"}
                         => ledger[c] = answer[c]
                  /\ answer[c] = "cancelled" => ledger[c] # "none"

\* Calls whose command has not left the control plane, and never will if
\* the answer is in.
Unsent(c) ==
    \/ call[c] \in {"idle", "traced", "registered", "sending"}
    \/ answer[c] \in {"offline", "sendfail"}

\* A command is in at most one place: not sent, in flight, in a goroutine
\* of the agent, or run.
OnceInv ==
    /\ \A c \in Calls : runs[c] \in {0, 1}
    /\ \A c \in Calls : Unsent(c) =>
         /\ runs[c] = 0
         /\ \A f \in commands : f.call # c
         /\ \A j \in jobs : j.call # c
    /\ \A f \in commands :
         /\ runs[f.call] = 0
         /\ \A g \in commands : g.call = f.call => g = f
         /\ \A j \in jobs : j.call # f.call
    /\ \A j \in jobs :
         /\ j.ran <=> runs[j.call] = 1
         /\ \A k \in jobs : k.call = j.call => k = j

\* A result stands for a command that was run.
ResultInv ==
    /\ \A f \in results \cup handing : runs[f.call] = 1
    /\ \A c \in Calls : chan[c] # None => runs[chan[c]] = 1

PrivateCmds == \A c, d \in Calls : CmdOf[c] = CmdOf[d] => c = d

\* With a Command object for every call, frames carry their own trace id.
TraceInv ==
    /\ \A c \in Calls : call[c] \in {"traced", "registered", "sending"}
                            => cmdTrace[CmdOf[c]] = c
    /\ \A f \in commands \cup results \cup handing : f.trace = f.call
    /\ \A j \in jobs : j.trace = j.call
    /\ \A c \in Calls : chan[c] \in {c, None}
    /\ \A c \in Calls : answer[c] = "result" => source[c] = c /\ runs[c] = 1

IInv == /\ TypeOK
        /\ SessionInv
        /\ SendInv
        /\ WaiterInv
        /\ AnswerInv
        /\ OnceInv
        /\ ResultInv

-----------------------------------------------------------------------------
(* Types.                                                                   *)

LEMMA InitType == Init => TypeOK /\ SendInv /\ SessionInv
BY DispatchAssumption
   DEF Init, SessionsInit, TypeOK, SessionsTypeOK, SendInv, Phases, Stages,
       Answers, SessionInv, SessionBacked

Received(s) == \E next \in {"serving", "acking"} : RecvHeartbeat(s, next)

\* What happens to the variables of Sessions in a step of Dispatch.
SessionMove ==
    \/ SessionStep
    \/ \E n \in Nodes : AgentStop(n)
    \/ \E s \in Streams : EndStream(s) \/ AckSent(s) \/ Received(s)
    \/ \E n \in Nodes : Touch(n) /\ UNCHANGED <<agentStream, owner, handler, cut>>
    \/ ServerRestart
    \/ UNCHANGED sessionVars

LEMMA SessionMoveType ==
    ASSUME SessionsTypeOK, SessionInv, SessionMove PROVE SessionsTypeOK'
<1> USE DEF SessionsTypeOK, Phases
<1>1. CASE SessionStep
  BY <1>1 DEF SessionStep, Connect, AgentLeave, Expire, Cut, AcceptFirst,
              RejectFirst, StartServing, RunDeferredDetach, Attach, Detach
<1>2. CASE \E n \in Nodes : AgentStop(n)
  BY <1>2 DEF AgentStop
<1>3. CASE \E s \in Streams : EndStream(s) \/ AckSent(s) \/ Received(s)
  BY <1>3 DEF EndStream, AckSent, Received, RecvHeartbeat, Touch
<1>4. CASE \E n \in Nodes :
             Touch(n) /\ UNCHANGED <<agentStream, owner, handler, cut>>
  BY <1>4 DEF Touch
<1>5. CASE ServerRestart
  BY <1>5 DEF ServerRestart
<1>6. CASE UNCHANGED sessionVars
  BY <1>6 DEF sessionVars
<1> QED BY <1>1, <1>2, <1>3, <1>4, <1>5, <1>6 DEF SessionMove

\* The registry's entries stay backed by a handler that will remove them.
LEMMA SessionMoveBacked ==
    ASSUME SessionsTypeOK, SessionInv, SessionMove PROVE SessionInv'
<1> USE SessionsAssumption DEF SessionsTypeOK, SessionInv, SessionBacked, Live
<1>1. CASE SessionStep
  <2>1. ASSUME NEW n \in Nodes, NEW s \in Streams, Connect(n, s)
        PROVE  SessionInv'
    BY <2>1 DEF Connect
  <2>2. ASSUME NEW n \in Nodes, AgentLeave(n) \/ Expire(n)
        PROVE  SessionInv'
    BY <2>2 DEF AgentLeave, Expire
  <2>3. ASSUME NEW s \in Streams,
               Cut(s) \/ RejectFirst(s) \/ StartServing(s)
        PROVE  SessionInv'
    BY <2>3 DEF Cut, RejectFirst, StartServing
  <2>4. ASSUME NEW s \in Streams, AcceptFirst(s)
        PROVE  SessionInv'
    BY <2>4 DEF AcceptFirst, Attach
  <2>5. ASSUME NEW s \in Streams, RunDeferredDetach(s)
        PROVE  SessionInv'
    BY <2>5 DEF RunDeferredDetach, Detach
  <2> QED BY <1>1, <2>1, <2>2, <2>3, <2>4, <2>5 DEF SessionStep
<1>2. CASE \E n \in Nodes : AgentStop(n)
  BY <1>2 DEF AgentStop
<1>3. CASE \E s \in Streams : EndStream(s) \/ AckSent(s) \/ Received(s)
  BY <1>3 DEF EndStream, AckSent, Received, RecvHeartbeat, Touch
<1>4. CASE \E n \in Nodes :
             Touch(n) /\ UNCHANGED <<agentStream, owner, handler, cut>>
  BY <1>4 DEF Touch
<1>5. CASE ServerRestart
  BY <1>5 DEF ServerRestart
<1>6. CASE UNCHANGED sessionVars
  BY <1>6 DEF sessionVars
<1> QED BY <1>1, <1>2, <1>3, <1>4, <1>5, <1>6 DEF SessionMove

\* The steps on a stream that are no call's.
StreamWork(s) == Heartbeat(s) \/ Ack(s) \/ AgentRecvAck(s) \/ StreamEnds(s)

\* Every step of Dispatch is such a move.
LEMMA NextMovesSessions ==
    ASSUME TypeOK, SessionInv, [Next]_vars PROVE SessionMove
<1> USE DEF SessionMove, sessionVars
<1>1. CASE SessionStep /\ UNCHANGED dispatchVars
  BY <1>1
<1>2. ASSUME NEW c \in Calls, DispatchStep(c) PROVE SessionMove
  BY <1>2 DEF DispatchStep, Begin, RegisterWaiter, Lookup, Push, Record,
              TakeResult, Timeout, CtxDone, Finish, CancelWaiter
<1>3. ASSUME NEW f \in results, RecvResult(f) PROVE SessionMove
  <2>1. owner[f.stream] \in Nodes
    BY <1>3 DEF RecvResult, TypeOK, Frames, SessionInv
  <2> QED BY <1>3, <2>1 DEF RecvResult
<1>4. ASSUME NEW f, HandOver(f) \/ AgentRecv(f) PROVE SessionMove
  BY <1>4 DEF HandOver, AgentRecv
<1>5. ASSUME NEW j \in jobs, Execute(j) \/ Reply(j) PROVE SessionMove
  BY <1>5 DEF Execute, Reply
<1>6. ASSUME NEW s \in Streams, StreamWork(s)
      PROVE  SessionMove
  BY <1>6 DEF StreamWork, Heartbeat, Ack, AgentRecvAck, StreamEnds, Received
<1>7. ASSUME NEW n \in Nodes, AgentCrash(n) PROVE SessionMove
  BY <1>7 DEF AgentCrash
<1>8. CASE Restart
  BY <1>8 DEF Restart
<1>9. CASE UNCHANGED vars
  BY <1>9 DEF vars
<1> QED BY <1>1, <1>2, <1>3, <1>4, <1>5, <1>6, <1>7, <1>8, <1>9 DEF Next, StreamWork

LEMMA DispatchStepType ==
    ASSUME TypeOK, SendInv, NEW c \in Calls, DispatchStep(c)
    PROVE  TypeOK' /\ SendInv'
<1> USE DispatchAssumption
    DEF TypeOK, SessionsTypeOK, SendInv, Stages, Answers, sessionVars,
        ledgerVars, waiterVars, agentVars, StatementFails
<1>1. CASE Begin(c)          BY <1>1 DEF Begin
<1>2. CASE RegisterWaiter(c) BY <1>2 DEF RegisterWaiter
<1>3. CASE Lookup(c)         BY <1>3 DEF Lookup
<1>4. CASE Push(c)           BY <1>4 DEF Push, Frames
<1>5. CASE Record(c)         BY <1>5 DEF Record
<1>6. CASE TakeResult(c)     BY <1>6 DEF TakeResult
<1>7. CASE Timeout(c)        BY <1>7 DEF Timeout
<1>8. CASE CtxDone(c)        BY <1>8 DEF CtxDone
<1>9. CASE CancelWaiter(c)   BY <1>9 DEF CancelWaiter
<1>10. CASE Finish(c)        BY <1>10 DEF Finish
<1> QED BY <1>1, <1>2, <1>3, <1>4, <1>5, <1>6, <1>7, <1>8, <1>9, <1>10
        DEF DispatchStep

\* Streams, frames and goroutines.
LEMMA FrameStepType ==
    ASSUME TypeOK, SendInv, SessionInv,
           \/ SessionStep /\ UNCHANGED dispatchVars
           \/ \E f \in results : RecvResult(f)
           \/ \E f \in handing : HandOver(f)
           \/ \E f \in commands : AgentRecv(f)
           \/ \E j \in jobs : Execute(j) \/ Reply(j)
           \/ \E s \in Streams : StreamWork(s)
           \/ \E n \in Nodes : AgentCrash(n)
           \/ Restart
           \/ UNCHANGED vars
    PROVE  TypeOK' /\ SendInv'
<1> [Next]_vars
  BY DEF Next, StreamWork
<1>0. SessionsTypeOK'
  BY NextMovesSessions, SessionMoveType DEF TypeOK
<1> USE DispatchAssumption, <1>0
    DEF TypeOK, SendInv, Frames, Jobs, Stages, Answers, dispatchVars,
        callVars, ledgerVars, waiterVars, agentVars
<1>1. CASE SessionStep /\ UNCHANGED dispatchVars
  BY <1>1
<1>2. ASSUME NEW f \in results, RecvResult(f) PROVE TypeOK' /\ SendInv'
  BY <1>2 DEF RecvResult
<1>3. ASSUME NEW f \in handing, HandOver(f) PROVE TypeOK' /\ SendInv'
  BY <1>3 DEF HandOver
<1>4. ASSUME NEW f \in commands, AgentRecv(f) PROVE TypeOK' /\ SendInv'
  <2>1. Job(f, FALSE) \in Jobs
    BY DEF Job
  <2>2. jobs' \subseteq Jobs /\ commands' \subseteq Frames
    BY <1>4, <2>1 DEF AgentRecv
  <2> QED BY <1>4, <2>2 DEF AgentRecv
<1>5. ASSUME NEW j \in jobs, Execute(j) PROVE TypeOK' /\ SendInv'
  <2>1. Job(j, TRUE) \in Jobs
    BY DEF Job
  <2>2. jobs' \subseteq Jobs
    BY <1>5, <2>1 DEF Execute
  <2>3. runs' \in [Calls -> Nat]
    BY <1>5 DEF Execute
  <2> QED BY <1>5, <2>2, <2>3 DEF Execute
<1>6. ASSUME NEW j \in jobs, Reply(j) PROVE TypeOK' /\ SendInv'
  BY <1>6 DEF Reply
<1>7. ASSUME NEW s \in Streams, StreamWork(s)
      PROVE  TypeOK' /\ SendInv'
  BY <1>7 DEF StreamWork, Heartbeat, Ack, AgentRecvAck, StreamEnds
<1>8. ASSUME NEW n \in Nodes, AgentCrash(n) PROVE TypeOK' /\ SendInv'
  BY <1>8 DEF AgentCrash
<1>9. CASE Restart
  BY <1>9 DEF Restart
<1>10. CASE UNCHANGED vars
  BY <1>10 DEF vars
<1> QED BY <1>1, <1>2, <1>3, <1>4, <1>5, <1>6, <1>7, <1>8, <1>9, <1>10

LEMMA TypeStep ==
    ASSUME TypeOK, SendInv, SessionInv, [Next]_vars
    PROVE  TypeOK' /\ SendInv' /\ SessionInv'
<1>1. SessionInv'
  BY NextMovesSessions, SessionMoveBacked DEF TypeOK
<1>2. TypeOK' /\ SendInv'
  BY FrameStepType, DispatchStepType DEF Next, StreamWork
<1> QED BY <1>1, <1>2

\* Every reachable state is well typed, however calls, streams, crashes and
\* restarts interleave.  A Command that Push puts on the wire always carries
\* the trace id of some call (SendInv), which is what typing the frames needs.
THEOREM TypeCorrect == Spec => []TypeOK
<1>1. Init => TypeOK /\ SendInv /\ SessionInv
  BY InitType
<1>2. TypeOK /\ SendInv /\ SessionInv /\ [Next]_vars
        => (TypeOK /\ SendInv /\ SessionInv)'
  BY TypeStep
<1> QED BY <1>1, <1>2, PTL DEF Spec

\* The registry never holds a stream whose handler has returned or that
\* belongs to another node: Attach, the deferred Detach and reconnects
\* included.
THEOREM RegistryIsBacked == Spec => []SessionBacked
<1>1. Init => TypeOK /\ SendInv /\ SessionInv
  BY InitType
<1>2. TypeOK /\ SendInv /\ SessionInv /\ [Next]_vars
        => (TypeOK /\ SendInv /\ SessionInv)'
  BY TypeStep
<1>3. SessionInv => SessionBacked
  BY DEF SessionInv
<1> QED BY <1>1, <1>2, <1>3, PTL DEF Spec

-----------------------------------------------------------------------------
(* Waiters.                                                                 *)

LEMMA WaiterStep ==
    ASSUME TypeOK, WaiterInv, [Next]_vars PROVE WaiterInv'
<1> USE DEF WaiterInv, NoWaiterLeak, TypeOK, Frames, Registered, sessionVars,
            dispatchVars, callVars, waiterVars, agentVars
<1>1. CASE SessionStep /\ UNCHANGED dispatchVars
  BY <1>1
<1>2. ASSUME NEW c \in Calls, DispatchStep(c) PROVE WaiterInv'
  <2>1. CASE Begin(c)          BY <2>1 DEF Begin
  <2>2. CASE RegisterWaiter(c) BY <2>2 DEF RegisterWaiter
  <2>3. CASE Lookup(c)         BY <2>3 DEF Lookup
  <2>4. CASE Push(c)           BY <2>4 DEF Push
  <2>5. CASE Record(c)         BY <2>5 DEF Record
  <2>6. CASE TakeResult(c)     BY <2>6 DEF TakeResult
  <2>7. CASE Timeout(c)        BY <2>7 DEF Timeout
  <2>8. CASE CtxDone(c)        BY <2>8 DEF CtxDone
  <2>9. CASE CancelWaiter(c)   BY <2>9 DEF CancelWaiter
  <2>10. CASE Finish(c)        BY <2>10 DEF Finish
  <2> QED BY <1>2, <2>1, <2>2, <2>3, <2>4, <2>5, <2>6, <2>7, <2>8, <2>9, <2>10
          DEF DispatchStep
<1>3. ASSUME NEW f \in results, RecvResult(f) PROVE WaiterInv'
  <2>1. f.trace \in waiters =>
          f.trace \notin closed /\ call[f.trace] \notin {"idle", "traced"}
    OBVIOUS
  <2> QED BY <1>3, <2>1 DEF RecvResult
<1>4. ASSUME NEW f \in handing, HandOver(f) PROVE WaiterInv'
  BY <1>4 DEF HandOver
<1>5. ASSUME NEW f, AgentRecv(f) \/ Execute(f) \/ Reply(f) PROVE WaiterInv'
  BY <1>5 DEF AgentRecv, Execute, Reply
<1>6. ASSUME NEW s \in Streams, StreamWork(s)
      PROVE  WaiterInv'
  BY <1>6 DEF StreamWork, Heartbeat, Ack, AgentRecvAck, StreamEnds, Received
<1>7. ASSUME NEW n \in Nodes, AgentCrash(n) PROVE WaiterInv'
  BY <1>7 DEF AgentCrash
<1>8. CASE Restart
  BY <1>8 DEF Restart
<1>9. CASE UNCHANGED vars
  BY <1>9 DEF vars
<1> QED BY <1>1, <1>2, <1>3, <1>4, <1>5, <1>6, <1>7, <1>8, <1>9 DEF Next, StreamWork

-----------------------------------------------------------------------------
(* Answers and the ledger.                                                  *)

LEMMA AnswerStep ==
    ASSUME TypeOK, SendInv, AnswerInv, [Next]_vars PROVE AnswerInv'
<1> USE DEF AnswerInv, StatementFails, TypeOK, Stages, Answers, sessionVars,
            dispatchVars, callVars, ledgerVars, waiterVars, agentVars
<1>1. CASE SessionStep /\ UNCHANGED dispatchVars
  BY <1>1
<1>2. ASSUME NEW c \in Calls, DispatchStep(c) PROVE AnswerInv'
  <2>1. CASE Begin(c)          BY <2>1 DEF Begin
  <2>2. CASE RegisterWaiter(c) BY <2>2 DEF RegisterWaiter
  <2>3. CASE Lookup(c)         BY <2>3 DEF Lookup
  <2>4. CASE Push(c)           BY <2>4 DEF Push
  <2>5. CASE Record(c)         BY <2>5 DEF Record
  <2>6. CASE TakeResult(c)     BY <2>6 DEF TakeResult
  <2>7. CASE Timeout(c)        BY <2>7 DEF Timeout
  <2>8. CASE CtxDone(c)        BY <2>8 DEF CtxDone
  <2>9. CASE CancelWaiter(c)   BY <2>9 DEF CancelWaiter
  <2>10. CASE Finish(c)        BY <2>10 DEF Finish, SendInv
  <2> QED BY <1>2, <2>1, <2>2, <2>3, <2>4, <2>5, <2>6, <2>7, <2>8, <2>9, <2>10
          DEF DispatchStep
<1>3. ASSUME NEW f, RecvResult(f) \/ HandOver(f) \/ AgentRecv(f) \/ Execute(f)
                    \/ Reply(f)
      PROVE  AnswerInv'
  BY <1>3 DEF RecvResult, HandOver, AgentRecv, Execute, Reply
<1>4. ASSUME NEW s \in Streams, StreamWork(s)
      PROVE  AnswerInv'
  BY <1>4 DEF StreamWork, Heartbeat, Ack, AgentRecvAck, StreamEnds
<1>5. ASSUME NEW n \in Nodes, AgentCrash(n) PROVE AnswerInv'
  BY <1>5 DEF AgentCrash
<1>6. CASE Restart
  BY <1>6 DEF Restart
<1>7. CASE UNCHANGED vars
  BY <1>7 DEF vars
<1> QED BY <1>1, <1>2, <1>3, <1>4, <1>5, <1>6, <1>7 DEF Next, StreamWork

-----------------------------------------------------------------------------
(* Runs.                                                                    *)

\* A command that has left the control plane is no longer unsent, and one
\* that is refused never was sent: the only step that ends Unsent is a Push.
LEMMA UnsentShrinks ==
    ASSUME TypeOK, AnswerInv, NEW c \in Calls, DispatchStep(c),
           NEW d \in Calls, Unsent(d)'
    PROVE  Unsent(d)
<1> USE DEF Unsent, AnswerInv, TypeOK, Stages, Answers, callVars
<1>1. CASE Begin(c)          BY <1>1 DEF Begin
<1>2. CASE RegisterWaiter(c) BY <1>2 DEF RegisterWaiter
<1>3. CASE Lookup(c)         BY <1>3 DEF Lookup
<1>4. CASE Push(c)           BY <1>4 DEF Push
<1>5. CASE Record(c)         BY <1>5 DEF Record
<1>6. CASE TakeResult(c)     BY <1>6 DEF TakeResult
<1>7. CASE Timeout(c)        BY <1>7 DEF Timeout
<1>8. CASE CtxDone(c)        BY <1>8 DEF CtxDone
<1>9. CASE CancelWaiter(c)   BY <1>9 DEF CancelWaiter
<1>10. CASE Finish(c)        BY <1>10 DEF Finish
<1> QED BY <1>1, <1>2, <1>3, <1>4, <1>5, <1>6, <1>7, <1>8, <1>9, <1>10
        DEF DispatchStep

LEMMA ExecuteOnce ==
    ASSUME TypeOK, OnceInv, NEW j \in jobs, Execute(j)
    PROVE  /\ j.call \in Calls
           /\ runs[j.call] = 0
           /\ ~ Unsent(j.call)
           /\ runs' = [runs EXCEPT ![j.call] = 1]
<1>1. j.call \in Calls /\ runs[j.call] = 0 /\ ~ Unsent(j.call)
  BY DEF Execute, TypeOK, Jobs, OnceInv
<1> QED BY <1>1 DEF Execute

LEMMA OnceStep ==
    ASSUME TypeOK, SendInv, AnswerInv, OnceInv, [Next]_vars PROVE OnceInv'
<1> USE DEF OnceInv, TypeOK, Frames, Jobs, sessionVars, dispatchVars,
            callVars, waiterVars, agentVars
<1>1. ASSUME UNCHANGED <<call, answer, agentVars>> PROVE OnceInv'
  BY <1>1 DEF Unsent
<1>2. ASSUME NEW c \in Calls, DispatchStep(c) PROVE OnceInv'
  <2>1. CASE Push(c) /\ commands' # commands
    <3> DEFINE g == [call |-> c, trace |-> cmdTrace[CmdOf[c]],
                     stream |-> handle[c]]
    <3>1. /\ commands' = commands \cup {g}
          /\ call[c] = "sending"
          /\ call' = [call EXCEPT ![c] = "sent"]
          /\ UNCHANGED <<answer, jobs, runs>>
      BY <2>1 DEF Push
    <3>2. Unsent(c) /\ answer[c] = "none"
      BY <3>1 DEF Unsent, AnswerInv
    <3>3. ~ Unsent(c)'
      BY <3>1, <3>2 DEF Unsent
    <3>4. \A d \in Calls : Unsent(d)' => Unsent(d)
      BY <1>2, UnsentShrinks
    <3>5. g.call = c
      OBVIOUS
    <3> HIDE DEF g
    <3> QED BY <3>1, <3>2, <3>3, <3>4, <3>5
  <2>2. CASE UNCHANGED agentVars
    <3>1. \A d \in Calls : Unsent(d)' => Unsent(d)
      BY <1>2, UnsentShrinks
    <3> QED BY <2>2, <3>1
  <2>3. UNCHANGED agentVars \/ (Push(c) /\ commands' # commands)
    BY <1>2 DEF DispatchStep, Begin, RegisterWaiter, Lookup, Push, Record,
                TakeResult, Timeout, CtxDone, Finish, CancelWaiter
  <2> QED BY <2>1, <2>2, <2>3
<1>3. ASSUME NEW f \in commands, AgentRecv(f) PROVE OnceInv'
  <2> DEFINE k == Job(f, FALSE)
  <2>1. k \in Jobs /\ k.call = f.call /\ ~ k.ran
    BY DEF Job
  <2>2. /\ commands' = commands \ {f} /\ jobs' = jobs \cup {k}
        /\ UNCHANGED <<call, answer, runs>>
    BY <1>3 DEF AgentRecv
  <2>3. \A d \in Calls : Unsent(d)' => Unsent(d)
    BY <2>2 DEF Unsent
  <2>4. /\ runs[f.call] = 0
        /\ \A g \in commands \ {f} : g.call # f.call
        /\ \A j \in jobs : j.call # f.call
        /\ ~ Unsent(f.call)
    OBVIOUS
  <2> HIDE DEF k
  <2> QED BY <2>1, <2>2, <2>3, <2>4
<1>4. ASSUME NEW j \in jobs, Execute(j) PROVE OnceInv'
  <2> DEFINE k == Job(j, TRUE)
  <2>1. k \in Jobs /\ k.call = j.call /\ k.ran
    BY DEF Job
  <2>2. runs[j.call] = 0 /\ ~ Unsent(j.call)
    BY <1>4, ExecuteOnce
  <2>3. /\ jobs' = (jobs \ {j}) \cup {k}
        /\ runs' = [runs EXCEPT ![j.call] = 1]
        /\ UNCHANGED <<call, answer, commands>>
    BY <1>4, ExecuteOnce DEF Execute
  <2>4. \A d \in Calls : Unsent(d)' => Unsent(d) /\ d # j.call
    BY <2>2, <2>3 DEF Unsent
  <2>5. \A i \in jobs \ {j} : i.call # j.call
    OBVIOUS
  <2> HIDE DEF k
  <2> QED BY <2>1, <2>2, <2>3, <2>4, <2>5
<1>5. ASSUME NEW j \in jobs, Reply(j) PROVE OnceInv'
  BY <1>5 DEF Reply, Unsent
<1>6. ASSUME NEW f, RecvResult(f) \/ HandOver(f) PROVE OnceInv'
  BY <1>6 DEF RecvResult, HandOver, Unsent
<1>7. ASSUME NEW s \in Streams, StreamWork(s) PROVE OnceInv'
  BY <1>7 DEF StreamWork, Heartbeat, Ack, AgentRecvAck, StreamEnds, Unsent
<1>8. ASSUME NEW n \in Nodes, AgentCrash(n) PROVE OnceInv'
  BY <1>8 DEF AgentCrash, Unsent
<1>9. CASE Restart
  <2>1. \A d \in Calls : Unsent(d)' => Unsent(d)
    BY <1>9 DEF Restart, Unsent, AnswerInv
  <2> QED BY <1>9, <2>1 DEF Restart
<1> QED BY <1>1, <1>2, <1>3, <1>4, <1>5, <1>6, <1>7, <1>8, <1>9
        DEF Next, StreamWork, vars

-----------------------------------------------------------------------------
(* Results.                                                                 *)

LEMMA ResultStep ==
    ASSUME TypeOK, OnceInv, ResultInv, [Next]_vars PROVE ResultInv'
<1> USE DEF ResultInv, TypeOK, Frames, Jobs, sessionVars, dispatchVars,
            callVars, waiterVars, agentVars
<1>1. ASSUME UNCHANGED <<waiterVars, agentVars>> PROVE ResultInv'
  BY <1>1
<1>2. ASSUME NEW c \in Calls, DispatchStep(c) PROVE ResultInv'
  <2>1. /\ UNCHANGED <<handing, results, runs>>
        /\ \A d \in Calls : chan'[d] \in {chan[d], None}
    BY <1>2 DEF DispatchStep, Begin, RegisterWaiter, Lookup, Push, Record,
                TakeResult, Timeout, CtxDone, Finish, CancelWaiter
  <2> QED BY <2>1
<1>3. ASSUME NEW f \in results, RecvResult(f) PROVE ResultInv'
  BY <1>3 DEF RecvResult
<1>4. ASSUME NEW f \in handing, HandOver(f) PROVE ResultInv'
  BY <1>4, DispatchAssumption DEF HandOver
<1>5. ASSUME NEW f \in commands, AgentRecv(f) PROVE ResultInv'
  BY <1>5 DEF AgentRecv
<1>6. ASSUME NEW j \in jobs, Execute(j) PROVE ResultInv'
  <2>1. runs[j.call] = 0
    BY <1>6, ExecuteOnce
  <2> QED BY <1>6, <2>1 DEF Execute
<1>7. ASSUME NEW j \in jobs, Reply(j) PROVE ResultInv'
  BY <1>7 DEF Reply, OnceInv
<1>8. ASSUME NEW s \in Streams, StreamWork(s)
      PROVE  ResultInv'
  BY <1>8 DEF StreamWork, Heartbeat, Ack, AgentRecvAck, StreamEnds
<1>9. ASSUME NEW n \in Nodes, AgentCrash(n) PROVE ResultInv'
  BY <1>9 DEF AgentCrash
<1>10. CASE Restart
  BY <1>10 DEF Restart
<1> QED BY <1>1, <1>2, <1>3, <1>4, <1>5, <1>6, <1>7, <1>8, <1>9, <1>10
        DEF Next, StreamWork, vars

-----------------------------------------------------------------------------
(* The whole invariant.                                                     *)

LEMMA InitInv == Init => IInv
<1> SUFFICES ASSUME Init PROVE IInv
  OBVIOUS
<1>1. TypeOK /\ SendInv /\ SessionInv
  BY InitType
<1>2. WaiterInv /\ AnswerInv /\ OnceInv /\ ResultInv
  BY DEF Init, WaiterInv, NoWaiterLeak, AnswerInv, OnceInv, Unsent,
         ResultInv
<1> QED BY <1>1, <1>2 DEF IInv

LEMMA StepInv == ASSUME IInv, [Next]_vars PROVE IInv'
BY TypeStep, WaiterStep, AnswerStep, OnceStep, ResultStep DEF IInv

THEOREM Invariant == Spec => []IInv
BY InitInv, StepInv, PTL DEF Spec

\* A result is never sent on a channel CancelWaiter has closed, whatever
\* timeouts and cancelled requests race the receive loop: once a trace id is
\* out of the map, whoever took it out is the only one to touch its channel.
THEOREM ChannelsAreSafe == Spec => []NoSendOnClosed
<1>1. IInv => NoSendOnClosed
  BY DEF IInv, WaiterInv, NoSendOnClosed
<1> QED BY <1>1, Invariant, PTL

\* Every entry of the waiters map belongs to a call still in progress.
THEOREM WaitersAreReleased == Spec => []NoWaiterLeak
<1>1. IInv => NoWaiterLeak
  BY DEF IInv, WaiterInv
<1> QED BY <1>1, Invariant, PTL

\* A row of the ledger is final only with what its caller was told, or would
\* have been told had the control plane not stopped in between; an answered
\* call has its outcome in the ledger, and a command that was run has a row,
\* save where a statement failed.
THEOREM LedgerIsTrue == Spec => []LedgerAgrees
<1>1. IInv => LedgerAgrees
  <2> SUFFICES ASSUME IInv, NEW c \in Calls
               PROVE  LedgerAgrees!(c)
    BY DEF LedgerAgrees
  <2>1. answer[c] \in {"offline", "sendfail"} => runs[c] = 0
    BY DEF IInv, OnceInv, Unsent
  <2>2. answer[c] \in Answers /\ runs[c] \in Nat
    BY DEF IInv, TypeOK
  <2> QED BY <2>1, <2>2 DEF IInv, AnswerInv, Answers
<1> QED BY <1>1, Invariant, PTL

AtMostOnce == \A c \in Calls : runs[c] \in {0, 1}

\* Dispatch never runs a command twice, for any number of calls and streams.
THEOREM CommandsRunAtMostOnce == Spec => []AtMostOnce
<1>1. IInv => AtMostOnce
  BY DEF IInv, OnceInv, AtMostOnce
<1> QED BY <1>1, Invariant, PTL

-----------------------------------------------------------------------------
(* Callers that give every call a Command object of its own (ExecCommand).  *)

LEMMA TraceStep ==
    ASSUME PrivateCmds, IInv, TraceInv, [Next]_vars PROVE TraceInv'
<1> USE DispatchAssumption
    DEF IInv, TraceInv, TypeOK, Frames, Jobs, sessionVars, dispatchVars,
        callVars, waiterVars, agentVars
<1>1. ASSUME UNCHANGED dispatchVars PROVE TraceInv'
  BY <1>1
<1>2. ASSUME NEW c \in Calls, DispatchStep(c) PROVE TraceInv'
  <2> USE DEF AnswerInv, ResultInv
  <2>1. CASE Begin(c)          BY <2>1 DEF Begin, PrivateCmds
  <2>2. CASE RegisterWaiter(c) BY <2>2 DEF RegisterWaiter
  <2>3. CASE Lookup(c)         BY <2>3 DEF Lookup
  <2>4. CASE Push(c)           BY <2>4 DEF Push
  <2>5. CASE Record(c)         BY <2>5 DEF Record
  <2>6. CASE TakeResult(c)     BY <2>6 DEF TakeResult
  <2>7. CASE Timeout(c)        BY <2>7 DEF Timeout
  <2>8. CASE CtxDone(c)        BY <2>8 DEF CtxDone
  <2>9. CASE CancelWaiter(c)   BY <2>9 DEF CancelWaiter
  <2>10. CASE Finish(c)        BY <2>10 DEF Finish
  <2> QED BY <1>2, <2>1, <2>2, <2>3, <2>4, <2>5, <2>6, <2>7, <2>8, <2>9, <2>10
          DEF DispatchStep
<1>3. ASSUME NEW f \in results, RecvResult(f) PROVE TraceInv'
  BY <1>3 DEF RecvResult
<1>4. ASSUME NEW f \in handing, HandOver(f) PROVE TraceInv'
  BY <1>4 DEF HandOver
<1>5. ASSUME NEW f \in commands, AgentRecv(f) PROVE TraceInv'
  BY <1>5 DEF AgentRecv, Job
<1>6. ASSUME NEW j \in jobs, Execute(j) PROVE TraceInv'
  <2>1. runs[j.call] = 0 /\ runs' = [runs EXCEPT ![j.call] = 1]
    BY <1>6, ExecuteOnce
  <2> QED BY <1>6, <2>1 DEF Execute, Job
<1>7. ASSUME NEW j \in jobs, Reply(j) PROVE TraceInv'
  BY <1>7 DEF Reply
<1>8. ASSUME NEW s \in Streams, StreamWork(s)
      PROVE  TraceInv'
  BY <1>8 DEF StreamWork, Heartbeat, Ack, AgentRecvAck, StreamEnds
<1>9. ASSUME NEW n \in Nodes, AgentCrash(n) PROVE TraceInv'
  BY <1>9 DEF AgentCrash
<1>10. CASE Restart
  BY <1>10 DEF Restart
<1> QED BY <1>1, <1>2, <1>3, <1>4, <1>5, <1>6, <1>7, <1>8, <1>9, <1>10
        DEF Next, StreamWork, vars

THEOREM TraceInvariant == ASSUME PrivateCmds PROVE Spec => [](IInv /\ TraceInv)
<1>1. Init => TraceInv
  BY DEF Init, TraceInv
<1>2. IInv /\ TraceInv /\ [Next]_vars => TraceInv'
  BY PrivateCmds, TraceStep
<1> QED BY <1>1, <1>2, InitInv, StepInv, PTL DEF Spec

\* A caller that gets a result gets the result of its own command, and the
\* command was run - provided no two calls share a Command object.  The
\* hypothesis is needed: BatchCommand breaks it, and the property with it.
THEOREM CallersGetTheirOwn == ASSUME PrivateCmds PROVE Spec => []OwnAnswer
<1>1. IInv /\ TraceInv => OwnAnswer
  BY DEF TraceInv, OwnAnswer
<1> QED BY <1>1, TraceInvariant, PrivateCmds, PTL

-----------------------------------------------------------------------------
(* Dispatch implements CommandContract.                                     *)

LEMMA StageValues ==
    ASSUME TypeOK, NEW c \in Calls
    PROVE  /\ StageOf(c) = "new" <=> call[c] = "idle"
           /\ StageOf(c) = "closed" <=> call[c] = "returned"
           /\ StageOf(c) \in {"new", "open", "closed"}
BY DEF StageOf, TypeOK, Stages

LEMMA ContractInit == Init => Contract!Init
BY DEF Init, Contract!Init, StageOf, ReplyOf

\* A step of one call moves its own stage only.
LEMMA StageMoves ==
    ASSUME TypeOK, NEW c \in Calls, NEW v \in Stages,
           call' = [call EXCEPT ![c] = v]
    PROVE  /\ \A d \in Calls : d # c => StageOf(d)' = StageOf(d)
           /\ v = "idle" => StageOf(c)' = "new"
           /\ v = "returned" => StageOf(c)' = "closed"
           /\ v \notin {"idle", "returned"} => StageOf(c)' = "open"
BY DEF StageOf, TypeOK, Stages

\* While a call is on its way, its caller has heard nothing.
Underway(c) ==
    /\ call[c] \notin {"idle", "returned"}
    /\ \E v \in Stages \ {"idle", "returned"} : call' = [call EXCEPT ![c] = v]
    /\ \E r \in Answers : answer' = [answer EXCEPT ![c] = r]

LEMMA OnTheWay ==
    ASSUME TypeOK, NEW c \in Calls,
           \/ RegisterWaiter(c) \/ Lookup(c) \/ Push(c) \/ Record(c)
           \/ TakeResult(c) \/ Timeout(c) \/ CtxDone(c) \/ Finish(c)
    PROVE  Underway(c) /\ UNCHANGED runs
<1> USE DEF Underway, TypeOK, Stages, Answers, agentVars
<1>1. ASSUME UNCHANGED answer
      PROVE  answer' = [answer EXCEPT ![c] = answer[c]] /\ answer[c] \in Answers
  BY <1>1
<1> HIDE DEF Answers
<1>2. {"sendfail", "result", "timeout", "cancelled"} \subseteq Answers
  BY DEF Answers
<1>3. CASE RegisterWaiter(c) \/ Record(c) \/ Finish(c)
  BY <1>1, <1>3 DEF RegisterWaiter, Record, Finish
<1>4. CASE Lookup(c)
  BY <1>1, <1>2, <1>4 DEF Lookup
<1>5. CASE Push(c)
  BY <1>1, <1>2, <1>5 DEF Push
<1>6. CASE TakeResult(c) \/ Timeout(c) \/ CtxDone(c)
  BY <1>2, <1>6 DEF TakeResult, Timeout, CtxDone
<1> QED BY <1>3, <1>4, <1>5, <1>6

LEMMA ContractStep ==
    ASSUME IInv, TraceInv, [Next]_vars
    PROVE  [Contract!Next]_(Contract!contractVars)
<1> DEFINE stage == [c \in Calls |-> StageOf(c)]
           reply == [c \in Calls |-> ReplyOf(c)]
           Same  == UNCHANGED <<stage, runs, reply>>
<1> USE DEF Contract!contractVars
<1>1. ASSUME UNCHANGED <<call, runs, answer>>
      PROVE  Same
  BY <1>1 DEF StageOf, ReplyOf
<1>2. ASSUME NEW c \in Calls, Underway(c), UNCHANGED runs
      PROVE  Same
  <2>1. \A d \in Calls : StageOf(d)' = StageOf(d)
    BY <1>2, StageMoves, StageValues DEF Underway, IInv
  <2>2. \A d \in Calls : ReplyOf(d)' = ReplyOf(d)
    BY <1>2 DEF Underway, ReplyOf, IInv, TypeOK
  <2> QED BY <1>2, <2>1, <2>2
<1>3. ASSUME NEW c \in Calls, NEW r \in Answers \ {"none"},
             call[c] # "returned",
             call' = [call EXCEPT ![c] = "returned"],
             answer' = [answer EXCEPT ![c] = r],
             UNCHANGED runs,
             r = "result" => runs[c] = 1,
             r \in {"offline", "sendfail"} => runs[c] = 0
      PROVE  Contract!Next
  <2>1. StageOf(c) # "closed"
    BY <1>3, StageValues DEF IInv
  <2>2. stage' = [stage EXCEPT ![c] = "closed"]
    BY <1>3, StageMoves DEF IInv, Stages
  <2>3. reply' = [reply EXCEPT ![c] = r]
    BY <1>3 DEF ReplyOf, IInv, TypeOK
  <2>4. Contract!Close(c, r)
    BY <1>3, <2>1, <2>2, <2>3 DEF Contract!Close, Contract!Refusals
  <2> QED BY <1>3, <2>4
          DEF Contract!Next, Contract!Refusals, Contract!Silences, Answers
<1>4. ASSUME NEW c \in Calls, Begin(c) PROVE Contract!Next
  <2> USE DEF IInv, TypeOK, Stages
  <2>1. CASE IsOnline(Target[c])
    <3>1. /\ call[c] = "idle"
          /\ call' = [call EXCEPT ![c] = "traced"]
          /\ UNCHANGED <<answer, runs>>
      BY <1>4, <2>1 DEF Begin, agentVars
    <3>2. stage[c] = "new" /\ stage' = [stage EXCEPT ![c] = "open"]
      BY <3>1, StageValues, StageMoves
    <3>3. UNCHANGED reply
      BY <3>1 DEF ReplyOf
    <3>4. Contract!Open(c)
      BY <3>1, <3>2, <3>3 DEF Contract!Open
    <3> QED BY <3>4 DEF Contract!Next
  <2>2. CASE ~ IsOnline(Target[c])
    <3>1. call[c] = "idle" /\ runs[c] = 0
      BY <1>4 DEF Begin, OnceInv, Unsent
    <3> QED BY <1>3, <1>4, <2>2, <3>1 DEF Begin, agentVars, Answers
  <2> QED BY <2>1, <2>2
<1>5. ASSUME NEW c \in Calls, CancelWaiter(c) PROVE Contract!Next
  <2>1. /\ call[c] = "leaving"
        /\ call' = [call EXCEPT ![c] = "returned"]
        /\ UNCHANGED <<answer, runs>>
    BY <1>5 DEF CancelWaiter, agentVars
  <2>2. answer[c] \in Answers \ {"none"}
    BY <2>1 DEF IInv, AnswerInv, TypeOK
  <2>3. answer' = [answer EXCEPT ![c] = answer[c]]
    BY <2>1 DEF IInv, TypeOK
  <2>4. answer[c] = "result" => runs[c] = 1
    BY DEF TraceInv
  <2>5. answer[c] \in {"offline", "sendfail"} => runs[c] = 0
    BY DEF IInv, OnceInv, Unsent
  <2> QED BY <1>3, <2>1, <2>2, <2>3, <2>4, <2>5
<1>6. ASSUME NEW c \in Calls, DispatchStep(c) PROVE Same \/ Contract!Next
  <2>1. \/ RegisterWaiter(c) \/ Lookup(c) \/ Push(c) \/ Record(c)
        \/ TakeResult(c) \/ Timeout(c) \/ CtxDone(c) \/ Finish(c)
        => Same
    BY <1>2, OnTheWay DEF IInv
  <2> QED BY <1>4, <1>5, <1>6, <2>1 DEF DispatchStep
<1>7. ASSUME NEW j \in jobs, Execute(j) PROVE Contract!Next
  <2>1. /\ j.call \in Calls
        /\ runs[j.call] = 0
        /\ ~ Unsent(j.call)
    BY <1>7, ExecuteOnce DEF IInv
  <2>2. /\ runs' = [runs EXCEPT ![j.call] = 1]
        /\ UNCHANGED <<call, answer>>
    BY <1>7, ExecuteOnce DEF Execute, IInv, callVars
  <2>3. UNCHANGED <<stage, reply>>
    BY <2>2 DEF StageOf, ReplyOf
  <2>4. stage[j.call] # "new" /\ reply[j.call] \notin {"offline", "sendfail"}
    BY <2>1, StageValues DEF Unsent, ReplyOf, IInv
  <2>5. Contract!Run(j.call)
    BY <2>1, <2>2, <2>3, <2>4 DEF Contract!Run, Contract!Refusals
  <2> QED BY <2>1, <2>5 DEF Contract!Next
<1>8. CASE Restart
  <2>1. \A c \in Calls :
          /\ stage'[c] = IF stage[c] = "open" THEN "closed" ELSE stage[c]
          /\ reply'[c] = IF stage[c] = "open" THEN "lost" ELSE reply[c]
    BY <1>8 DEF Restart, StageOf, ReplyOf, IInv, AnswerInv, TypeOK, Stages
  <2>2. Contract!LoseAll
    BY <1>8, <2>1 DEF Restart, Contract!LoseAll
  <2> QED BY <2>2 DEF Contract!Next
<1>9. ASSUME NEW f, RecvResult(f) \/ HandOver(f) \/ AgentRecv(f) \/ Reply(f)
      PROVE  Same
  BY <1>1, <1>9
     DEF RecvResult, HandOver, AgentRecv, Reply, callVars, agentVars
<1>10. ASSUME NEW s, StreamWork(s) \/ AgentCrash(s) PROVE Same
  BY <1>1, <1>10
     DEF StreamWork, Heartbeat, Ack, AgentRecvAck, StreamEnds, AgentCrash,
         dispatchVars, callVars
<1>11. CASE UNCHANGED dispatchVars
  BY <1>1, <1>11 DEF dispatchVars, callVars, agentVars
<1> QED BY <1>6, <1>7, <1>8, <1>9, <1>10, <1>11 DEF Next, StreamWork, vars

\* With a Command object for every call, Dispatch keeps the contract: at most
\* one run, a result only for a command that was run, and no run of a command
\* that was refused.
THEOREM Refinement == ASSUME PrivateCmds PROVE Spec => KeepsContract
<1>1. IInv /\ TraceInv /\ [Next]_vars => [Contract!Next]_(Contract!contractVars)
  BY ContractStep
<1> QED BY <1>1, ContractInit, TraceInvariant, PrivateCmds, PTL
        DEF Spec, KeepsContract, Contract!Spec

=============================================================================
