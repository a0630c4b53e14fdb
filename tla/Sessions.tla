------------------------------ MODULE Sessions ------------------------------
(***************************************************************************)
(* The control plane's registry of node connections                        *)
(* (server/internal/session/session.go), the life of the CommandStream     *)
(* handler that fills and empties it (grpcserver/server.go), and the       *)
(* agent's connect loop (agent/internal/transport/transport.go).           *)
(*                                                                         *)
(* A stream is one CommandStream call, used once and never reopened.  Its  *)
(* handler is a goroutine of the control plane:                            *)
(*    "opened"    started, waiting for the first frame                     *)
(*    "attached"  entered in the registry, still doing its start-up work   *)
(*    "serving"   in the receive loop                                      *)
(*    "acking"    waiting in the Send of a heartbeat's answer              *)
(*    "ending"    Recv failed; the deferred Detach has not run yet         *)
(*    "done"      returned                                                 *)
(* A stream in "cut" is broken; each side finds out in its own time, so    *)
(* the agent can be back on a new stream before the old handler returns.   *)
(***************************************************************************)
EXTENDS Naturals, FiniteSets

CONSTANTS Nodes,    \* the nodes; a node's id is the CN of its certificate
          Streams,  \* the CommandStream calls that may ever be made
          None      \* no stream, no node

ASSUME SessionsAssumption == None \notin Nodes \cup Streams

VARIABLES agentStream,  \* the stream the agent of a node is in streamLoop with
          owner,        \* the node at the other end of a stream
          handler,      \* where the stream's handler is
          cut,          \* the broken streams
          sessions,     \* Manager.sessions: the stream a node is reached on
          stale         \* nodes whose LastSeen is more than ttl ago

sessionVars == <<agentStream, owner, handler, cut, sessions, stale>>

Phases == {"unused", "opened", "attached", "serving", "acking", "ending", "done"}

\* Handlers that have attached and whose deferred Detach is still to come.
Live == {"attached", "serving", "acking", "ending"}

SessionsTypeOK ==
    /\ agentStream \in [Nodes -> Streams \cup {None}]
    /\ owner \in [Streams -> Nodes \cup {None}]
    /\ handler \in [Streams -> Phases]
    /\ cut \subseteq Streams
    /\ sessions \in [Nodes -> Streams \cup {None}]
    /\ stale \subseteq Nodes

SessionsInit ==
    /\ agentStream = [n \in Nodes |-> None]
    /\ owner = [s \in Streams |-> None]
    /\ handler = [s \in Streams |-> "unused"]
    /\ cut = {}
    /\ sessions = [n \in Nodes |-> None]
    /\ stale = {}

-----------------------------------------------------------------------------
(* The registry's operations.  Each runs under Manager.mu.                  *)

IsOnline(n) == sessions[n] # None /\ n \notin stale

Attach(n, s) ==
    /\ sessions' = [sessions EXCEPT ![n] = s]
    /\ stale' = stale \ {n}

\* Removes whatever is registered for the node: the caller's stream is not
\* compared with the registered one.
Detach(n) ==
    /\ sessions' = [sessions EXCEPT ![n] = None]
    /\ UNCHANGED stale

\* Refreshes the node's session if there is one; it does not create one.
Touch(n) ==
    /\ stale' = IF sessions[n] = None THEN stale ELSE stale \ {n}
    /\ UNCHANGED sessions

-----------------------------------------------------------------------------
(* The agent.                                                               *)

\* Dial the control plane, open the CommandStream and send the first frame.
Connect(n, s) ==
    /\ agentStream[n] = None
    /\ handler[s] = "unused"
    /\ agentStream' = [agentStream EXCEPT ![n] = s]
    /\ owner' = [owner EXCEPT ![s] = n]
    /\ handler' = [handler EXCEPT ![s] = "opened"]
    /\ UNCHANGED <<cut, sessions, stale>>

\* streamLoop returns because Recv or a heartbeat Send failed; conn.Close()
\* and straight back to the top of Run, which dials again without waiting.
AgentLeave(n) ==
    /\ agentStream[n] \in cut
    /\ agentStream' = [agentStream EXCEPT ![n] = None]
    /\ UNCHANGED <<owner, handler, cut, sessions, stale>>

\* The agent process stops: the kernel closes its connection.
AgentStop(n) ==
    /\ agentStream[n] # None
    /\ cut' = cut \cup {agentStream[n]}
    /\ agentStream' = [agentStream EXCEPT ![n] = None]
    /\ UNCHANGED <<owner, handler, sessions, stale>>

\* The network drops the connection under a stream.
Cut(s) ==
    /\ handler[s] \notin {"unused", "done"}
    /\ s \notin cut
    /\ cut' = cut \cup {s}
    /\ UNCHANGED <<agentStream, owner, handler, sessions, stale>>

-----------------------------------------------------------------------------
(* The CommandStream handler.                                               *)

\* The first frame arrives (it may have been sent before the link broke).
AcceptFirst(s) ==
    /\ handler[s] = "opened"
    /\ handler' = [handler EXCEPT ![s] = "attached"]
    /\ Attach(owner[s], s)
    /\ UNCHANGED <<agentStream, owner, cut>>

\* The first Recv fails: the handler returns before it has attached.
RejectFirst(s) ==
    /\ handler[s] = "opened"
    /\ s \in cut
    /\ handler' = [handler EXCEPT ![s] = "done"]
    /\ UNCHANGED <<agentStream, owner, cut, sessions, stale>>

\* The start-up database work is done and the receive loop begins.
StartServing(s) ==
    /\ handler[s] = "attached"
    /\ handler' = [handler EXCEPT ![s] = "serving"]
    /\ UNCHANGED <<agentStream, owner, cut, sessions, stale>>

\* A frame is received.  A heartbeat is answered before the handler is back
\* in its loop: next is "acking" if that Send has to wait.
RecvHeartbeat(s, next) ==
    /\ handler[s] = "serving"
    /\ Touch(owner[s])
    /\ handler' = [handler EXCEPT ![s] = next]
    /\ UNCHANGED <<agentStream, owner, cut>>

\* The answer is sent after all, or fails, which is ignored.
AckSent(s) ==
    /\ handler[s] = "acking"
    /\ handler' = [handler EXCEPT ![s] = "serving"]
    /\ UNCHANGED <<agentStream, owner, cut, sessions, stale>>

\* Recv fails on a broken stream, possibly long after the break.
EndStream(s) ==
    /\ handler[s] = "serving"
    /\ s \in cut
    /\ handler' = [handler EXCEPT ![s] = "ending"]
    /\ UNCHANGED <<agentStream, owner, cut, sessions, stale>>

\* Fault: the handler returns with its session still registered.
ReturnWithoutDetach(s) ==
    /\ handler[s] = "ending"
    /\ handler' = [handler EXCEPT ![s] = "done"]
    /\ UNCHANGED <<agentStream, owner, cut, sessions, stale>>

\* The deferred Detach runs and the handler returns.
RunDeferredDetach(s) ==
    /\ handler[s] = "ending"
    /\ handler' = [handler EXCEPT ![s] = "done"]
    /\ Detach(owner[s])
    /\ UNCHANGED <<agentStream, owner, cut>>

-----------------------------------------------------------------------------
(* Time and restarts.                                                       *)

\* More than ttl passes without a frame from the node.
Expire(n) ==
    /\ IsOnline(n)
    /\ stale' = stale \cup {n}
    /\ UNCHANGED <<agentStream, owner, handler, cut, sessions>>

\* The control plane restarts: the registry and every handler are gone.
ServerRestart ==
    /\ handler' = [s \in Streams |->
                     IF handler[s] = "unused" THEN "unused" ELSE "done"]
    /\ cut' = {s \in Streams : handler[s] # "unused"}
    /\ sessions' = [n \in Nodes |-> None]
    /\ stale' = {}
    /\ UNCHANGED <<agentStream, owner>>

\* The steps that touch nothing but the variables of this module.
SessionStep ==
    \/ \E n \in Nodes, s \in Streams : Connect(n, s)
    \/ \E n \in Nodes : AgentLeave(n) \/ Expire(n)
    \/ \E s \in Streams :
         \/ Cut(s) \/ AcceptFirst(s) \/ RejectFirst(s) \/ StartServing(s)
         \/ RunDeferredDetach(s)

-----------------------------------------------------------------------------

\* Nothing is routed through a dead handler: a registered stream belongs to
\* the node it is registered for, and its handler still has its deferred
\* Detach to run, so no entry outlives the goroutine that made it.
SessionBacked ==
    \A n \in Nodes : sessions[n] # None =>
        /\ owner[sessions[n]] = n
        /\ handler[sessions[n]] \in Live

\* "IsOnline" is documented to say whether the node is active within the
\* ttl window: a node whose agent is in streamLoop on an unbroken stream that
\* the control plane is serving has a session.
ServedNodeHasSession ==
    \A n \in Nodes :
        LET s == agentStream[n] IN
        (s # None /\ s \notin cut /\ handler[s] \in {"serving", "acking"})
            => sessions[n] # None
=============================================================================
