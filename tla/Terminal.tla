------------------------------ MODULE Terminal ------------------------------
(***************************************************************************)
(* Remote terminals: the websocket handler of the control plane            *)
(* (server/api/terminal.go) with its two goroutines, the sinks of the      *)
(* session registry (session.go:111), the command stream in both           *)
(* directions, and the terminal manager of the agent                       *)
(* (agent/transport/terminal.go), where every frame is handled in a        *)
(* goroutine of its own (transport.go:214) and a goroutine per shell sends *)
(* the output.  One node; its streams are numbered as the agent opens      *)
(* them.  Key strokes and pieces of output are numbered per session.       *)
(* Left out: window sizes, which change nothing else, and the contents.    *)
(***************************************************************************)
EXTENDS Integers, Sequences, FiniteSets, SequencesExt

CONSTANTS
  Sess,       \* sessions; every websocket gets a fresh id
  LastStream, \* bound: streams the agent opens
  MaxKeys,    \* bound: messages the browser sends in a session
  MaxOut,     \* bound: pieces of output of a shell
  SinkCap     \* room in the channel between sink and handler (512)

ASSUME TerminalAssumption ==
  /\ LastStream \in Nat \ {0} /\ SinkCap \in Nat \ {0}
  /\ MaxKeys \in Nat /\ MaxOut \in Nat

None == 0
Streams == 1..LastStream

VARIABLES
  ws,         \* ws[s]: the websocket: "none", "open", "closed" (by either end)
  main,       \* main[s]: the handler, up to its return
  reader,     \* reader[s]: its goroutine that reads the browser
  sink,       \* sessions with a registered sink
  out,        \* out[s]: channel from the sink to the handler
  typed,      \* typed[s]: messages the browser has sent
  shown,      \* shown[s]: output the browser got
  served,     \* stream of the node in the session registry, or None
  recv,       \* streams a handler of the control plane still reads
  cur,        \* stream the agent reads
  bound,      \* stream terminalManager.send writes to
  broken,     \* streams that have broken
  down, up,   \* frames under way on each stream
  handling,   \* frames the agent's goroutines have still to handle
  shell,      \* shell[s]: "none", "spawned", "running", "exited", "killed"
  sessions,   \* terminalManager.sessions
  pump,       \* pump[s]: the goroutine that sends the output
  printed,    \* printed[s]: pieces of output read from the shell
  got,        \* got[s]: messages written to the shell, in order
  lost,       \* history: lost[s]: the control frames of s that were lost
  overtaken,  \* history: sessions whose close was handled before their open
  passed      \* history: passed[s]: messages that were with a goroutine of the
              \* agent when another wrote a later one

wsVars == <<ws, main, reader, sink, out, typed, shown>>
linkVars == <<served, recv, cur, bound, broken>>
agentVars == <<handling, shell, sessions, pump, printed, got, passed>>
vars == <<wsVars, linkVars, down, up, agentVars, lost, overtaken>>

\* via: history: the stream an upward frame was sent on.
Frame(s, kind, n) == [sess |-> s, kind |-> kind, n |-> n, via |-> None]

Alive(s) == shell[s] \in {"spawned", "running"}

TypeOK ==
  /\ ws \in [Sess -> {"none", "open", "closed"}]
  /\ main \in [Sess -> {"none", "opening", "ranging", "returned"}]
  /\ reader \in [Sess -> {"none", "reading", "returned"}]
  /\ sink \subseteq Sess
  /\ \A s \in Sess : Len(out[s]) <= SinkCap /\ typed[s] \in 0..MaxKeys
  /\ \A s \in Sess : s \in sink <=> main[s] \in {"opening", "ranging"}
  /\ served \in Streams \cup {None} /\ recv \subseteq Streams
  /\ cur \in Streams /\ bound \in Streams /\ bound <= cur /\ broken \subseteq 1..cur
  /\ shell \in [Sess -> {"none", "spawned", "running", "exited", "killed"}]
  /\ sessions \subseteq Sess
  /\ pump \in [Sess -> {"none", "reading", "sending", "closing", "returned"}]
  /\ lost \in [Sess -> SUBSET {"open", "close", "end"}]
  /\ overtaken \subseteq Sess
  /\ \A s \in Sess : passed[s] \subseteq Nat

Init ==
  /\ ws = [s \in Sess |-> "none"] /\ main = [s \in Sess |-> "none"]
  /\ reader = [s \in Sess |-> "none"] /\ sink = {}
  /\ out = [s \in Sess |-> << >>]
  /\ typed = [s \in Sess |-> 0] /\ shown = [s \in Sess |-> << >>]
  /\ served = 1 /\ recv = {1} /\ cur = 1 /\ bound = 1 /\ broken = {}
  /\ down = [t \in Streams |-> << >>] /\ up = [t \in Streams |-> << >>]
  /\ handling = {}
  /\ shell = [s \in Sess |-> "none"] /\ sessions = {}
  /\ pump = [s \in Sess |-> "none"] /\ printed = [s \in Sess |-> 0]
  /\ got = [s \in Sess |-> << >>] /\ passed = [s \in Sess |-> {}]
  /\ lost = [s \in Sess |-> {}] /\ overtaken = {}

-----------------------------------------------------------------------------
(* Losses, as the properties name them.                                    *)

Lose(frames) ==
  lost' = [s \in Sess |-> lost[s] \cup
             {f.kind : f \in {g \in frames : g.sess = s /\ g.kind \in {"open", "close", "end"}}}]

\* session.Manager.Send: to the stream registered now, if any.  A stream that
\* has broken may take the frame and lose it; the agent may have left it.
Sent(f) ==
  \/ /\ served = cur
     /\ down' = [down EXCEPT ![cur] = Append(@, f)]
     /\ UNCHANGED lost
  \/ /\ served = None \/ served \in broken
     /\ Lose({f}) /\ UNCHANGED down

-----------------------------------------------------------------------------
(* TerminalWS                                                              *)

\* The node is online: a sink is registered before anything is sent.
Connect(s) ==
  /\ main[s] = "none" /\ served # None
  /\ ws' = [ws EXCEPT ![s] = "open"]
  /\ main' = [main EXCEPT ![s] = "opening"]
  /\ sink' = sink \cup {s}
  /\ UNCHANGED <<reader, out, typed, shown, linkVars, down, up, agentVars, lost, overtaken>>

\* The handler returns: the deferred calls close the socket and take the sink out.
HandlerReturns(s) ==
  /\ main' = [main EXCEPT ![s] = "returned"]
  /\ ws' = [ws EXCEPT ![s] = "closed"]
  /\ sink' = sink \ {s}

SendOpen(s) ==
  /\ main[s] = "opening"
  /\ \/ /\ served # None
        /\ Sent(Frame(s, "open", 0))
        /\ main' = [main EXCEPT ![s] = "ranging"]
        /\ reader' = [reader EXCEPT ![s] = "reading"]
        /\ UNCHANGED <<ws, sink>>
     \/ /\ served = None \/ served \in broken
        /\ HandlerReturns(s)
        /\ UNCHANGED <<down, lost, reader>>
  /\ UNCHANGED <<out, typed, shown, linkVars, up, agentVars, overtaken>>

\* A message of the browser; whether it could be sent is not looked at.
Type(s) ==
  /\ reader[s] = "reading" /\ ws[s] = "open" /\ typed[s] < MaxKeys
  /\ typed' = [typed EXCEPT ![s] = @ + 1]
  /\ Sent(Frame(s, "data", typed[s] + 1))
  /\ UNCHANGED <<ws, main, reader, sink, out, shown, linkVars, up, agentVars, overtaken>>

BrowserLeaves(s) ==
  /\ ws[s] = "open" /\ main[s] = "ranging"
  /\ ws' = [ws EXCEPT ![s] = "closed"]
  /\ UNCHANGED <<main, reader, sink, out, typed, shown, linkVars, down, up, agentVars,
                 lost, overtaken>>

\* Fault: the reader returns without a word to the agent.
LeaveSilently(s) ==
  /\ reader[s] = "reading" /\ ws[s] = "closed"
  /\ reader' = [reader EXCEPT ![s] = "returned"]
  /\ UNCHANGED <<ws, main, sink, out, typed, shown, linkVars, down, up, agentVars, lost,
                 overtaken>>

\* ReadMessage fails, also when the handler has closed the socket.
SendClose(s) ==
  /\ reader[s] = "reading" /\ ws[s] = "closed"
  /\ reader' = [reader EXCEPT ![s] = "returned"]
  /\ Sent(Frame(s, "close", 0))
  /\ UNCHANGED <<ws, main, sink, out, typed, shown, linkVars, up, agentVars, overtaken>>

\* The handler waits on its channel only.  Writing to a closed socket fails, or
\* is not noticed yet.
Show(s) ==
  /\ main[s] = "ranging" /\ out[s] # << >>
  /\ out' = [out EXCEPT ![s] = Tail(@)]
  /\ LET f == Head(out[s])
     IN  \/ /\ f.kind = "end" \/ ws[s] = "closed"
            /\ HandlerReturns(s)
            /\ UNCHANGED shown
         \/ /\ f.kind = "out"
            /\ shown' = IF ws[s] = "open" THEN [shown EXCEPT ![s] = Append(@, f)] ELSE shown
            /\ UNCHANGED <<ws, main, sink>>
  /\ UNCHANGED <<reader, typed, linkVars, down, up, agentVars, lost, overtaken>>

-----------------------------------------------------------------------------
(* The command stream                                                      *)

\* Fault: frames are delivered from goroutines of their own.
DeliverAny(t) ==
  /\ t \in recv
  /\ \E i \in DOMAIN up[t] :
       LET f == up[t][i] IN
         /\ up' = [up EXCEPT ![t] = RemoveAt(@, i)]
         /\ IF f.sess \in sink /\ Len(out[f.sess]) < SinkCap
            THEN out' = [out EXCEPT ![f.sess] = Append(@, f)] /\ UNCHANGED lost
            ELSE Lose({f}) /\ UNCHANGED out
  /\ UNCHANGED <<ws, main, reader, sink, typed, shown, linkVars, down, agentVars, overtaken>>

\* DeliverTerminal: a frame without a sink, and one that finds the channel full,
\* is dropped.
Deliver(t) ==
  /\ t \in recv /\ up[t] # << >>
  /\ up' = [up EXCEPT ![t] = Tail(@)]
  /\ LET f == Head(up[t]) IN
       IF f.sess \in sink /\ Len(out[f.sess]) < SinkCap
       THEN out' = [out EXCEPT ![f.sess] = Append(@, f)] /\ UNCHANGED lost
       ELSE Lose({f}) /\ UNCHANGED out
  /\ UNCHANGED <<ws, main, reader, sink, typed, shown, linkVars, down, agentVars, overtaken>>

\* A stream that never was attached loses what was sent on it.
Break ==
  /\ cur \notin broken
  /\ broken' = broken \cup {cur}
  /\ IF cur \in recv THEN UNCHANGED <<up, lost>>
     ELSE Lose(Range(up[cur])) /\ up' = [up EXCEPT ![cur] = << >>]
  /\ UNCHANGED <<wsVars, served, recv, cur, bound, down, agentVars, overtaken>>

\* The handler of a broken stream ends, and its Detach takes the node out of the
\* registry, whichever stream is registered.
Notice(t) ==
  /\ t \in broken \cap recv
  /\ recv' = recv \ {t}
  /\ served' = None
  /\ Lose(Range(up[t]))
  /\ up' = [up EXCEPT ![t] = << >>]
  /\ UNCHANGED <<wsVars, cur, bound, broken, down, agentVars, overtaken>>

\* The agent's loop ends and opens the next stream; frames it had not received
\* are gone.
Reconnect ==
  /\ cur \in broken /\ cur < LastStream
  /\ cur' = cur + 1
  /\ Lose(Range(down[cur]))
  /\ down' = [down EXCEPT ![cur] = << >>]
  /\ UNCHANGED <<wsVars, served, recv, bound, broken, up, agentVars, overtaken>>

\* The first frame of the new stream arrives: the node is attached.
Attach ==
  /\ cur \notin recv /\ cur \notin broken /\ served # cur
  /\ served' = cur /\ recv' = recv \cup {cur}
  /\ UNCHANGED <<wsVars, cur, bound, broken, down, up, agentVars, lost, overtaken>>

\* After its first two frames the agent gives terminals the new stream.
Rebind ==
  /\ bound # cur
  /\ bound' = cur
  /\ UNCHANGED <<wsVars, served, recv, cur, broken, down, up, agentVars, lost, overtaken>>

-----------------------------------------------------------------------------
(* The agent                                                               *)

\* The receive loop, which runs once terminals have the new stream, starts a
\* goroutine per frame.
RecvFrame ==
  /\ bound = cur /\ down[cur] # << >>
  /\ down' = [down EXCEPT ![cur] = Tail(@)]
  /\ handling' = handling \cup {Head(down[cur])}
  /\ UNCHANGED <<wsVars, linkVars, up, shell, sessions, pump, printed, got, passed, lost, overtaken>>

\* m.send: the stream bound now.  The error of a broken one may come late.
SendUp(f, onError) ==
  \/ /\ up' = [up EXCEPT ![bound] = IF bound \in broken \ recv THEN @
                                   ELSE Append(@, [f EXCEPT !.via = bound])]
     /\ IF bound \in broken \ recv THEN Lose({f}) ELSE UNCHANGED lost
     /\ ~onError
  \/ /\ bound \in broken
     /\ Lose({f}) /\ UNCHANGED up
     /\ onError

\* open: the shell is started ...
Spawn(f) ==
  /\ f \in handling /\ f.kind = "open" /\ shell[f.sess] = "none"
  /\ shell' = [shell EXCEPT ![f.sess] = "spawned"]
  /\ UNCHANGED <<wsVars, linkVars, down, up, handling, sessions, pump, printed, got, passed, lost,
                 overtaken>>

\* ... or cannot be, which the browser is told;
SpawnFails(f) ==
  /\ f \in handling /\ f.kind = "open" /\ shell[f.sess] = "none"
  /\ handling' = handling \ {f}
  /\ \E e \in BOOLEAN : SendUp(Frame(f.sess, "end", 0), e)
  /\ UNCHANGED <<wsVars, linkVars, down, shell, sessions, pump, printed, got, passed, overtaken>>

\* ... then it is entered into the map, and its output is read from now on.
Register(f) ==
  /\ f \in handling /\ f.kind = "open" /\ shell[f.sess] = "spawned"
  /\ handling' = handling \ {f}
  /\ shell' = [shell EXCEPT ![f.sess] = "running"]
  /\ sessions' = sessions \cup {f.sess}
  /\ pump' = [pump EXCEPT ![f.sess] = "reading"]
  /\ UNCHANGED <<wsVars, linkVars, down, up, printed, got, passed, lost, overtaken>>

\* s.pty.Write; other goroutines may hold earlier messages of the session.
Input(f) ==
  IF f.sess \in sessions /\ Alive(f.sess)
  THEN /\ got' = [got EXCEPT ![f.sess] = Append(@, f.n)]
       /\ passed' = [passed EXCEPT ![f.sess] = @ \cup
                       {g.n : g \in {h \in handling : h.kind = "data" /\ h.sess = f.sess /\ h.n < f.n}}]
  ELSE UNCHANGED <<got, passed>>

\* Fault: the frame is handled again.
WriteAgain(f) ==
  /\ f \in handling /\ f.kind = "data" /\ Len(got[f.sess]) <= MaxKeys
  /\ Input(f)
  /\ UNCHANGED <<wsVars, linkVars, down, up, handling, shell, sessions, pump, printed, lost, overtaken>>

\* write: input for a session that is not in the map is dropped.
Write(f) ==
  /\ f \in handling /\ f.kind = "data"
  /\ handling' = handling \ {f}
  /\ Input(f)
  /\ UNCHANGED <<wsVars, linkVars, down, up, shell, sessions, pump, printed, lost, overtaken>>

\* close: out of the map, killed, reaped; once.
Kill(s) ==
  /\ sessions' = sessions \ {s}
  /\ shell' = IF s \in sessions /\ Alive(s) THEN [shell EXCEPT ![s] = "killed"] ELSE shell

Close(f) ==
  /\ f \in handling /\ f.kind = "close"
  /\ handling' = handling \ {f}
  /\ Kill(f.sess)
  /\ overtaken' = IF shell[f.sess] \in {"none", "spawned"} THEN overtaken \cup {f.sess} ELSE overtaken
  /\ UNCHANGED <<wsVars, linkVars, down, up, pump, printed, got, passed, lost>>

ShellExits(s) ==
  /\ shell[s] = "running"
  /\ shell' = [shell EXCEPT ![s] = "exited"]
  /\ UNCHANGED <<wsVars, linkVars, down, up, handling, sessions, pump, printed, got, passed, lost,
                 overtaken>>

ReadPty(s) ==
  /\ pump[s] = "reading" /\ shell[s] = "running" /\ printed[s] < MaxOut
  /\ printed' = [printed EXCEPT ![s] = @ + 1]
  /\ pump' = [pump EXCEPT ![s] = "sending"]
  /\ UNCHANGED <<wsVars, linkVars, down, up, handling, shell, sessions, got, passed, lost, overtaken>>

\* An error of the stream ends the loop: a shell that prints while the link is
\* down does not outlive it.
SendOutput(s) ==
  /\ pump[s] = "sending"
  /\ \E e \in BOOLEAN :
       /\ SendUp(Frame(s, "out", printed[s]), e)
       /\ pump' = [pump EXCEPT ![s] = IF e THEN "closing" ELSE "reading"]
  /\ UNCHANGED <<wsVars, linkVars, down, handling, shell, sessions, printed, got, passed, overtaken>>

ReadEof(s) ==
  /\ pump[s] = "reading" /\ ~Alive(s)
  /\ pump' = [pump EXCEPT ![s] = "closing"]
  /\ UNCHANGED <<wsVars, linkVars, down, up, handling, shell, sessions, printed, got, passed, lost,
                 overtaken>>

\* Fault: a loop that ends says nothing.
EndQuietly(s) ==
  /\ pump[s] = "closing"
  /\ Kill(s)
  /\ pump' = [pump EXCEPT ![s] = "returned"]
  /\ UNCHANGED <<wsVars, linkVars, down, up, handling, printed, got, passed, lost, overtaken>>

\* Closed is sent, if it can be, and the session closed.
EndSession(s) ==
  /\ pump[s] = "closing"
  /\ \E e \in BOOLEAN : SendUp(Frame(s, "end", 0), e)
  /\ Kill(s)
  /\ pump' = [pump EXCEPT ![s] = "returned"]
  /\ UNCHANGED <<wsVars, linkVars, down, handling, printed, got, passed, overtaken>>

-----------------------------------------------------------------------------
HandlerStep(s) == SendOpen(s) \/ Show(s)

ReaderStep(s) == SendClose(s)

Browser(s) == Connect(s) \/ Type(s) \/ BrowserLeaves(s)

Handle(f) == Spawn(f) \/ Register(f) \/ Write(f) \/ Close(f)

PumpStep(s) == SendOutput(s) \/ ReadEof(s) \/ EndSession(s)

Next ==
  \/ \E s \in Sess : Browser(s) \/ HandlerStep(s) \/ ReaderStep(s)
  \/ \E t \in Streams : Deliver(t) \/ Notice(t)
  \/ Break \/ Reconnect \/ Attach \/ Rebind \/ RecvFrame
  \/ \E f \in handling : Handle(f) \/ SpawnFails(f)
  \/ \E s \in Sess : ShellExits(s) \/ ReadPty(s) \/ PumpStep(s)

Spec == Init /\ [][Next]_vars

(***************************************************************************)
(* Goroutines run, frames of a stream that lives arrive, a broken stream   *)
(* is noticed and replaced.  Nobody promises that a user types or leaves,  *)
(* or that a shell prints or exits.                                        *)
(***************************************************************************)
FairSpec ==
  /\ Spec
  /\ \A s \in Sess : WF_vars(HandlerStep(s)) /\ WF_vars(ReaderStep(s)) /\ WF_vars(PumpStep(s))
  /\ \A t \in Streams : WF_vars(Deliver(t)) /\ WF_vars(Notice(t))
  /\ WF_vars(Reconnect) /\ WF_vars(Attach) /\ WF_vars(Rebind) /\ WF_vars(RecvFrame)
  /\ WF_vars(\E f \in handling : Handle(f))

-----------------------------------------------------------------------------
(***************************************************************************)
(* Every frame has its own goroutine (transport.go:214), so the order in   *)
(* which messages of the browser reach the shell is not promised.  Still   *)
(* none reaches it twice, none that was not typed does, and one comes late *)
(* only if a goroutine held it while another wrote a later one: neither    *)
(* the stream nor its replacement puts input out of order.                 *)
(***************************************************************************)
KeysAtMostOnce ==
  \A s \in Sess :
    /\ \A i, j \in DOMAIN got[s] :
         i < j => got[s][i] < got[s][j] \/ (got[s][j] < got[s][i] /\ got[s][j] \in passed[s])
    /\ \A i \in DOMAIN got[s] : got[s][i] \in 1..typed[s]

(***************************************************************************)
(* The browser shows no piece of output twice, and what came over one      *)
(* stream in the order in which the shell printed it, however streams      *)
(* break and the agent's goroutine moves to the next.  Two handlers that   *)
(* still read an old and a new stream deliver side by side: only what came *)
(* over an older stream can be late.                                       *)
(***************************************************************************)
OutputInOrder ==
  \A s \in Sess : \A i, j \in DOMAIN shown[s] :
    i < j => LET a == shown[s][i]
                 b == shown[s][j]
             IN  a.n < b.n \/ (b.n < a.n /\ b.via < a.via)

(***************************************************************************)
(* A shell does not outlive its websocket, unless the close was lost with  *)
(* a stream or handled before the open (transport.go:214).                 *)
(***************************************************************************)
ShellsEnd ==
  \A s \in Sess :
    (reader[s] = "returned") ~> (~Alive(s) \/ "close" \in lost[s] \/ s \in overtaken)

(***************************************************************************)
(* When the shell is gone the browser is told and the handler returns,     *)
(* unless the last frame was lost: with a stream, or in a full channel.    *)
(***************************************************************************)
BrowserIsTold ==
  \A s \in Sess :
    (pump[s] = "returned") ~> (main[s] = "returned" \/ "end" \in lost[s])

=============================================================================
