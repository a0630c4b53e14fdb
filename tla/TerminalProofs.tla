--------------------------- MODULE TerminalProofs ---------------------------
(***************************************************************************)
(* Proofs about Terminal, for any sessions, streams and lengths.           *)
(***************************************************************************)
EXTENDS Terminal, TLAPS

-----------------------------------------------------------------------------
(* Types.                                                                  *)

Frames == [sess : Sess, kind : {"open", "data", "close", "out", "end"}, n : Nat, via : Nat]

WsInv ==
    /\ ws \in [Sess -> {"none", "open", "closed"}]
    /\ main \in [Sess -> {"none", "opening", "ranging", "returned"}]
    /\ reader \in [Sess -> {"none", "reading", "returned"}]
    /\ sink \subseteq Sess
    /\ \A s \in Sess : s \in sink <=> main[s] \in {"opening", "ranging"}
    /\ out \in [Sess -> Seq(Frames)] /\ \A s \in Sess : Len(out[s]) <= SinkCap
    /\ typed \in [Sess -> 0..MaxKeys]
    /\ shown \in [Sess -> Seq(Frames)]

LinkInv ==
    /\ served \in Streams \cup {None} /\ recv \subseteq Streams
    /\ cur \in Streams /\ bound \in Streams /\ bound <= cur /\ broken \subseteq 1..cur

FrameInv ==
    /\ down \in [Streams -> Seq(Frames)] /\ up \in [Streams -> Seq(Frames)]
    /\ lost \in [Sess -> SUBSET {"open", "close", "end"}]

AgentInv ==
    /\ handling \subseteq Frames
    /\ shell \in [Sess -> {"none", "spawned", "running", "exited", "killed"}]
    /\ sessions \subseteq Sess
    /\ pump \in [Sess -> {"none", "reading", "sending", "closing", "returned"}]
    /\ printed \in [Sess -> Nat]
    /\ got \in [Sess -> Seq(Nat)]
    /\ overtaken \subseteq Sess
    /\ passed \in [Sess -> SUBSET Nat]

TypeInv == WsInv /\ LinkInv /\ FrameInv /\ AgentInv

LEMMA TypeInit == Init => TypeInv
<1> SUFFICES ASSUME Init PROVE TypeInv
  OBVIOUS
<1>1. 1 \in Streams /\ None \notin Streams
  BY TerminalAssumption DEF Streams, None
<1>2. << >> \in Seq(Frames) /\ << >> \in Seq(Nat) /\ Len(<< >>) = 0
  OBVIOUS
<1>3. WsInv
  BY <1>2, TerminalAssumption DEF Init, WsInv
<1>4. LinkInv
  BY <1>1 DEF Init, LinkInv, Streams
<1>5. FrameInv
  BY <1>2 DEF Init, FrameInv
<1>6. AgentInv
  BY <1>2 DEF Init, AgentInv
<1> QED BY <1>3, <1>4, <1>5, <1>6 DEF TypeInv

LEMMA AppendTypes ==
    ASSUME NEW S, NEW q \in Seq(S), NEW x \in S
    PROVE  /\ Append(q, x) \in Seq(S) /\ Len(Append(q, x)) = Len(q) + 1
           /\ DOMAIN Append(q, x) = 1..(Len(q) + 1) /\ DOMAIN q = 1..Len(q)
           /\ \A i \in 1..Len(q) : Append(q, x)[i] = q[i]
           /\ Append(q, x)[Len(q) + 1] = x
  OBVIOUS

LEMMA AppendAt ==
    ASSUME NEW D, NEW S, NEW f \in [D -> Seq(S)], NEW x \in D, NEW v \in S
    PROVE  [f EXCEPT ![x] = Append(@, v)] \in [D -> Seq(S)]
<1>1. Append(f[x], v) \in Seq(S)
  BY AppendTypes
<1> QED BY <1>1

LEMMA TailTypes ==
    ASSUME NEW S, NEW q \in Seq(S), q # << >>
    PROVE  /\ Tail(q) \in Seq(S) /\ Len(Tail(q)) = Len(q) - 1
           /\ Head(q) \in S /\ Head(q) = q[1] /\ 1 \in DOMAIN q
           /\ DOMAIN Tail(q) = 1..(Len(q) - 1) /\ DOMAIN q = 1..Len(q)
           /\ \A i \in 1..(Len(q) - 1) : Tail(q)[i] = q[i + 1] /\ i + 1 \in DOMAIN q
  OBVIOUS

LEMMA LoseTypes ==
    ASSUME FrameInv, NEW F, Lose(F)
    PROVE  lost' \in [Sess -> SUBSET {"open", "close", "end"}]
<1>1. \A s \in Sess : {f.kind : f \in {g \in F : g.sess = s /\ g.kind \in {"open", "close", "end"}}}
                        \subseteq {"open", "close", "end"}
  OBVIOUS
<1> QED BY <1>1 DEF Lose, FrameInv

LEMMA SentTypes ==
    ASSUME TypeInv, NEW f \in Frames, Sent(f)
    PROVE  /\ down' \in [Streams -> Seq(Frames)]
           /\ lost' \in [Sess -> SUBSET {"open", "close", "end"}]
<1>1. CASE down' = [down EXCEPT ![cur] = Append(@, f)] /\ UNCHANGED lost
  BY <1>1, AppendTypes DEF TypeInv, LinkInv, FrameInv
<1>2. CASE Lose({f}) /\ UNCHANGED down
  BY <1>2, LoseTypes DEF TypeInv, FrameInv
<1> QED BY <1>1, <1>2 DEF Sent

\* A frame as it goes up the stream terminals have now.
Tagged(f) == [f EXCEPT !.via = bound]

LEMMA SendUpTypes ==
    ASSUME TypeInv, NEW f \in Frames, NEW e, SendUp(f, e)
    PROVE  /\ up' \in [Streams -> Seq(Frames)]
           /\ lost' \in [Sess -> SUBSET {"open", "close", "end"}]
           /\ Tagged(f) \in Frames
<1>0. bound \in Nat
  BY DEF TypeInv, LinkInv, Streams
<1>6. f.sess \in Sess /\ f.kind \in {"open", "data", "close", "out", "end"} /\ f.n \in Nat
  BY DEF Frames
<1>5. Tagged(f) \in Frames
  BY <1>0, <1>6 DEF Tagged, Frames
<1>1. lost' \in [Sess -> SUBSET {"open", "close", "end"}]
  BY LoseTypes DEF SendUp, TypeInv, FrameInv
<1>2. up' = up \/ up' = [up EXCEPT ![bound] = up[bound]] \/ up' = [up EXCEPT ![bound] = Append(up[bound], Tagged(f))]
  BY DEF SendUp, Tagged
<1>3. bound \in Streams /\ up \in [Streams -> Seq(Frames)]
  BY DEF TypeInv, LinkInv, FrameInv
<1>4. up' \in [Streams -> Seq(Frames)]
  <2>1. [up EXCEPT ![bound] = Append(up[bound], Tagged(f))] \in [Streams -> Seq(Frames)]
    BY <1>3, <1>5, AppendAt
  <2> QED BY <1>2, <1>3, <2>1
<1> QED BY <1>1, <1>4, <1>5

LEMMA WsStep == TypeInv /\ [Next]_vars => WsInv'
<1> SUFFICES ASSUME TypeInv, [Next]_vars PROVE WsInv'
  OBVIOUS
<1> USE DEF TypeInv
<1>1. ASSUME NEW s \in Sess, Connect(s) PROVE WsInv'
  BY <1>1 DEF Connect, WsInv
<1>2. ASSUME NEW s \in Sess, SendOpen(s) PROVE WsInv'
  BY <1>2 DEF SendOpen, HandlerReturns, WsInv
<1>3. ASSUME NEW s \in Sess, Type(s) PROVE WsInv'
  <2>1. typed[s] + 1 \in 0..MaxKeys
    BY <1>3, TerminalAssumption DEF Type, WsInv
  <2> QED BY <1>3, <2>1 DEF Type, WsInv
<1>4. ASSUME NEW s \in Sess, BrowserLeaves(s) PROVE WsInv'
  BY <1>4 DEF BrowserLeaves, WsInv
<1>5. ASSUME NEW s \in Sess, SendClose(s) PROVE WsInv'
  BY <1>5 DEF SendClose, WsInv
<1>6. ASSUME NEW s \in Sess, Show(s) PROVE WsInv'
  <2>1. /\ Tail(out[s]) \in Seq(Frames) /\ Len(Tail(out[s])) <= SinkCap
        /\ Head(out[s]) \in Frames
    BY <1>6, TailTypes, TerminalAssumption DEF Show, WsInv
  <2>2. out' \in [Sess -> Seq(Frames)] /\ \A x \in Sess : Len(out'[x]) <= SinkCap
    BY <1>6, <2>1 DEF Show, WsInv
  <2>3. shown' \in [Sess -> Seq(Frames)]
    <3>1. shown' = shown \/ shown' = [shown EXCEPT ![s] = Append(@, Head(out[s]))]
      BY <1>6 DEF Show
    <3>2. [shown EXCEPT ![s] = Append(@, Head(out[s]))] \in [Sess -> Seq(Frames)]
      BY <2>1, AppendAt DEF WsInv
    <3> QED BY <3>1, <3>2 DEF WsInv
  <2>4. /\ UNCHANGED <<reader, typed>>
        /\ HandlerReturns(s) \/ UNCHANGED <<ws, main, sink>>
    BY <1>6 DEF Show
  <2>5. /\ ws' \in [Sess -> {"none", "open", "closed"}] /\ sink' \subseteq Sess
        /\ main' \in [Sess -> {"none", "opening", "ranging", "returned"}]
        /\ \A x \in Sess : x \in sink' <=> main'[x] \in {"opening", "ranging"}
    BY <2>4 DEF HandlerReturns, WsInv
  <2> QED BY <2>2, <2>3, <2>4, <2>5 DEF WsInv
<1>7. ASSUME NEW t \in Streams, Deliver(t) PROVE WsInv'
  <2>1. Head(up[t]) \in Frames
    BY <1>7, TailTypes DEF Deliver, FrameInv
  <2> DEFINE s == Head(up[t]).sess
  <2>2. s \in Sess /\ out[s] \in Seq(Frames)
    BY <2>1 DEF Frames, WsInv
  <2>3. /\ Append(out[s], Head(up[t])) \in Seq(Frames)
        /\ Len(out[s]) < SinkCap => Len(Append(out[s], Head(up[t]))) <= SinkCap
    BY <2>1, <2>2, AppendTypes, TerminalAssumption
  <2>4. out' \in [Sess -> Seq(Frames)] /\ \A x \in Sess : Len(out'[x]) <= SinkCap
    <3>1. \/ out' = out
          \/ Len(out[s]) < SinkCap /\ out' = [out EXCEPT ![s] = Append(@, Head(up[t]))]
      BY <1>7 DEF Deliver
    <3> HIDE DEF s
    <3> QED BY <2>2, <2>3, <3>1 DEF WsInv
  <2>5. UNCHANGED <<ws, main, reader, sink, typed, shown>>
    BY <1>7 DEF Deliver
  <2> QED BY <2>4, <2>5 DEF WsInv
<1>8. CASE UNCHANGED wsVars
  BY <1>8 DEF wsVars, WsInv
<1>9. \/ \E s \in Sess : Browser(s) \/ HandlerStep(s) \/ ReaderStep(s)
      \/ \E t \in Streams : Deliver(t)
      \/ UNCHANGED wsVars
  BY DEF Next, vars, Notice, Break, Reconnect, Attach, Rebind, RecvFrame, Handle, Spawn, Register, Write,
         Close, SpawnFails, ShellExits, ReadPty, PumpStep, SendOutput, ReadEof, EndSession
<1> QED BY <1>1, <1>2, <1>3, <1>4, <1>5, <1>6, <1>7, <1>8, <1>9 DEF Browser, HandlerStep, ReaderStep

LEMMA LinkStep == TypeInv /\ [Next]_vars => LinkInv'
<1> SUFFICES ASSUME TypeInv, [Next]_vars PROVE LinkInv'
  OBVIOUS
<1> USE TerminalAssumption DEF TypeInv, LinkInv, Streams, None
<1>1. CASE Break
  BY <1>1 DEF Break
<1>2. ASSUME NEW t \in Streams, Notice(t) PROVE LinkInv'
  BY <1>2 DEF Notice
<1>3. CASE Reconnect
  BY <1>3 DEF Reconnect
<1>4. CASE Attach
  BY <1>4 DEF Attach
<1>5. CASE Rebind
  BY <1>5 DEF Rebind
<1>6. CASE UNCHANGED linkVars
  BY <1>6 DEF linkVars
<1>7. \/ Break \/ Reconnect \/ Attach \/ Rebind \/ UNCHANGED linkVars
      \/ \E t \in Streams : Notice(t)
  BY DEF Next, vars, Browser, HandlerStep, ReaderStep, Connect, Type, BrowserLeaves, SendOpen, Show,
         SendClose, Deliver, RecvFrame, Handle, Spawn, Register, Write, Close, SpawnFails, ShellExits,
         ReadPty, PumpStep, SendOutput, ReadEof, EndSession
<1> QED BY <1>1, <1>2, <1>3, <1>4, <1>5, <1>6, <1>7

LEMMA FrameTypes ==
    ASSUME TypeInv
    PROVE  /\ \A s \in Sess : /\ Frame(s, "open", 0) \in Frames /\ Frame(s, "close", 0) \in Frames
                              /\ Frame(s, "end", 0) \in Frames
                              /\ Frame(s, "data", typed[s] + 1) \in Frames
                              /\ Frame(s, "out", printed[s]) \in Frames
           /\ \A f \in handling : f.sess \in Sess
  BY TerminalAssumption DEF TypeInv, WsInv, AgentInv, Frame, Frames, None

LEMMA FrameStep == TypeInv /\ [Next]_vars => FrameInv'
<1> SUFFICES ASSUME TypeInv, [Next]_vars PROVE FrameInv'
  OBVIOUS
<1> USE DEF TypeInv
<1>1. ASSUME NEW s \in Sess, SendOpen(s) \/ Type(s) \/ SendClose(s) PROVE FrameInv'
  <2>1. \/ UNCHANGED <<down, lost>>
        \/ \E f \in Frames : Sent(f)
    BY <1>1, FrameTypes DEF SendOpen, Type, SendClose
  <2>2. UNCHANGED up
    BY <1>1 DEF SendOpen, Type, SendClose
  <2> QED BY <2>1, <2>2, SentTypes DEF FrameInv
<1>2. ASSUME NEW f \in handling, SpawnFails(f) PROVE FrameInv'
  BY <1>2, FrameTypes, SendUpTypes DEF SpawnFails, FrameInv
<1>3. ASSUME NEW s \in Sess, SendOutput(s) \/ EndSession(s) PROVE FrameInv'
  BY <1>3, FrameTypes, SendUpTypes DEF SendOutput, EndSession, FrameInv
<1>4. ASSUME NEW t \in Streams, Deliver(t) PROVE FrameInv'
  <2>1. Tail(up[t]) \in Seq(Frames)
    BY <1>4, TailTypes DEF Deliver, FrameInv
  <2>2. lost' \in [Sess -> SUBSET {"open", "close", "end"}]
    BY <1>4, LoseTypes DEF Deliver, FrameInv
  <2> QED BY <1>4, <2>1, <2>2 DEF Deliver, FrameInv
<1>5. CASE Break
  <2>1. lost' \in [Sess -> SUBSET {"open", "close", "end"}]
    BY <1>5, LoseTypes DEF Break, FrameInv
  <2>2. up' = up \/ up' = [up EXCEPT ![cur] = << >>]
    BY <1>5 DEF Break
  <2>3. << >> \in Seq(Frames)
    OBVIOUS
  <2> QED BY <1>5, <2>1, <2>2, <2>3 DEF Break, FrameInv
<1>6. ASSUME NEW t \in Streams, Notice(t) PROVE FrameInv'
  <2>1. lost' \in [Sess -> SUBSET {"open", "close", "end"}]
    BY <1>6, LoseTypes DEF Notice, FrameInv
  <2> QED BY <1>6, <2>1 DEF Notice, FrameInv
<1>7. CASE Reconnect
  <2>1. lost' \in [Sess -> SUBSET {"open", "close", "end"}]
    BY <1>7, LoseTypes DEF Reconnect, FrameInv
  <2>2. << >> \in Seq(Frames)
    OBVIOUS
  <2> QED BY <1>7, <2>1, <2>2 DEF Reconnect, FrameInv
<1>8. CASE RecvFrame
  <2>1. Tail(down[cur]) \in Seq(Frames)
    BY <1>8, TailTypes DEF RecvFrame, FrameInv, LinkInv
  <2> QED BY <1>8, <2>1 DEF RecvFrame, FrameInv
<1>9. CASE UNCHANGED <<down, up, lost>>
  BY <1>9 DEF FrameInv
<1>10. \/ \E s \in Sess : SendOpen(s) \/ Type(s) \/ SendClose(s) \/ SendOutput(s) \/ EndSession(s)
       \/ \E t \in Streams : Deliver(t) \/ Notice(t)
       \/ \E f \in handling : SpawnFails(f)
       \/ Break \/ Reconnect \/ RecvFrame
       \/ UNCHANGED <<down, up, lost>>
  BY DEF Next, vars, Browser, HandlerStep, ReaderStep, Connect, BrowserLeaves, Show, Attach, Rebind, Handle,
         Spawn, Register, Write, Close, ShellExits, ReadPty, PumpStep, ReadEof
<1> QED BY <1>1, <1>2, <1>3, <1>4, <1>5, <1>6, <1>7, <1>8, <1>9, <1>10

LEMMA AgentStep == TypeInv /\ [Next]_vars => AgentInv'
<1> SUFFICES ASSUME TypeInv, [Next]_vars PROVE AgentInv'
  OBVIOUS
<1> USE DEF TypeInv
<1>1. CASE RecvFrame
  <2>1. Head(down[cur]) \in Frames
    BY <1>1, TailTypes DEF RecvFrame, FrameInv, LinkInv
  <2> QED BY <1>1, <2>1 DEF RecvFrame, AgentInv
<1>2. ASSUME NEW f \in handling, Handle(f) \/ SpawnFails(f) PROVE AgentInv'
  <2>1. f.sess \in Sess /\ f.n \in Nat
    BY DEF AgentInv, Frames
  <2>2. CASE Write(f)
    <3>1. got' = got \/ got' = [got EXCEPT ![f.sess] = Append(@, f.n)]
      BY <2>2 DEF Write, Input
    <3>2. got' \in [Sess -> Seq(Nat)]
      <4>1. [got EXCEPT ![f.sess] = Append(@, f.n)] \in [Sess -> Seq(Nat)]
        BY <2>1, AppendAt DEF AgentInv
      <4> QED BY <3>1, <4>1 DEF AgentInv
    <3>3. passed' \in [Sess -> SUBSET Nat]
      <4> DEFINE P == {g.n : g \in {h \in handling : h.kind = "data" /\ h.sess = f.sess /\ h.n < f.n}}
      <4>1. P \subseteq Nat
        BY DEF AgentInv, Frames
      <4>2. passed' = passed \/ passed' = [passed EXCEPT ![f.sess] = @ \cup P]
        BY <2>2 DEF Write, Input
      <4> HIDE DEF P
      <4>3. PICK x \in Sess : x = f.sess
        BY <2>1
      <4>4. passed \in [Sess -> SUBSET Nat] /\ passed[x] \cup P \in SUBSET Nat
        BY <4>1 DEF AgentInv
      <4>5. [passed EXCEPT ![x] = passed[x] \cup P] \in [Sess -> SUBSET Nat]
        BY <4>4
      <4> QED BY <4>2, <4>3, <4>4, <4>5
    <3> QED BY <2>2, <3>2, <3>3 DEF Write, AgentInv
  <2>3. CASE Close(f)
    BY <2>1, <2>3 DEF Close, Kill, AgentInv
  <2>4. CASE Spawn(f) \/ Register(f) \/ SpawnFails(f)
    BY <2>1, <2>4 DEF Spawn, Register, SpawnFails, AgentInv
  <2> QED BY <1>2, <2>2, <2>3, <2>4 DEF Handle
<1>3. ASSUME NEW s \in Sess, ShellExits(s) \/ ReadPty(s) \/ SendOutput(s) \/ ReadEof(s) PROVE AgentInv'
  <2>1. CASE ShellExits(s)
    BY <2>1 DEF ShellExits, AgentInv
  <2>2. CASE ReadPty(s)
    BY <2>2 DEF ReadPty, AgentInv
  <2>3. CASE SendOutput(s)
    BY <2>3 DEF SendOutput, AgentInv
  <2>4. CASE ReadEof(s)
    BY <2>4 DEF ReadEof, AgentInv
  <2> QED BY <1>3, <2>1, <2>2, <2>3, <2>4
<1>4. ASSUME NEW s \in Sess, EndSession(s) PROVE AgentInv'
  BY <1>4 DEF EndSession, Kill, AgentInv
<1>5. CASE UNCHANGED <<agentVars, overtaken>>
  BY <1>5 DEF agentVars, AgentInv
<1>6. \/ RecvFrame \/ UNCHANGED <<agentVars, overtaken>>
      \/ \E f \in handling : Handle(f) \/ SpawnFails(f)
      \/ \E s \in Sess : ShellExits(s) \/ ReadPty(s) \/ PumpStep(s)
  BY DEF Next, vars, Browser, HandlerStep, ReaderStep, Connect, Type, BrowserLeaves, SendOpen, Show,
         SendClose, Deliver, Notice, Break, Reconnect, Attach, Rebind
<1> QED BY <1>1, <1>2, <1>3, <1>4, <1>5, <1>6 DEF PumpStep

LEMMA TypesHold == Spec => []TypeInv
<1>1. TypeInv /\ [Next]_vars => TypeInv'
  BY WsStep, LinkStep, FrameStep, AgentStep DEF TypeInv
<1> QED BY <1>1, TypeInit, PTL DEF Spec

\* Type correctness of the terminals: a sink is registered exactly as long as
\* its handler runs, its channel is never over-full, and the stream terminals
\* write to is never newer than the one the agent reads.
THEOREM TypeCorrect == Spec => []TypeOK
<1>1. TypeInv => TypeOK
  BY DEF TypeInv, WsInv, LinkInv, FrameInv, AgentInv, TypeOK
<1> QED BY <1>1, TypesHold, PTL

-----------------------------------------------------------------------------
(* Keys: a message of the browser is in one place, on a stream, with a     *)
(* goroutine of the agent, or with the shell; or it is lost.               *)

Data(f) == f.kind = "data"
Typed(f, n) == f.n \in 1..n[f.sess] /\ f.via = None
Got(f, keys) == \E i \in DOMAIN keys[f.sess] : keys[f.sess][i] = f.n

UnderWay ==
    \A t \in Streams : \A i \in DOMAIN down[t] :
      Data(down[t][i]) => /\ Typed(down[t][i], typed) /\ ~Got(down[t][i], got)
                          /\ down[t][i] \notin handling

Once ==
    \A t, u \in Streams : \A i \in DOMAIN down[t], j \in DOMAIN down[u] :
      Data(down[t][i]) /\ down[t][i] = down[u][j] => t = u /\ i = j

Handled == \A f \in handling : Data(f) => Typed(f, typed) /\ ~Got(f, got)

\* Only the stream the agent reads holds frames for it, and a session's keys
\* on it rise.
Queued ==
    \A t \in Streams :
      /\ t # cur => down[t] = << >>
      /\ \A i, j \in DOMAIN down[t] :
           i < j /\ Data(down[t][i]) /\ Data(down[t][j]) /\ down[t][i].sess = down[t][j].sess
             => down[t][i].n < down[t][j].n

\* What is on the stream is later than what a goroutine or the shell has.
Ahead ==
    \A t \in Streams : \A i \in DOMAIN down[t] :
      Data(down[t][i]) =>
        /\ \A g \in handling : Data(g) /\ g.sess = down[t][i].sess => g.n < down[t][i].n
        /\ \A k \in DOMAIN got[down[t][i].sess] : got[down[t][i].sess][k] < down[t][i].n

\* A key a goroutine still holds was passed by every later one the shell has.
Overdue ==
    \A f \in handling :
      Data(f) => \A k \in DOMAIN got[f.sess] : f.n < got[f.sess][k] => f.n \in passed[f.sess]

KeyInv == UnderWay /\ Once /\ Handled /\ Queued /\ Ahead /\ Overdue /\ KeysAtMostOnce

LEMMA KeyInit == Init => KeyInv
  BY DEF Init, KeyInv, UnderWay, Once, Handled, Queued, Ahead, Overdue, KeysAtMostOnce

LEMMA GotNat ==
    ASSUME TypeInv
    PROVE  /\ \A f \in Frames : f.n \in Nat
           /\ \A s \in Sess : \A k \in DOMAIN got[s] : got[s][k] \in Nat
<1>1. \A q \in Seq(Nat) : \A k \in DOMAIN q : q[k] \in Nat
  OBVIOUS
<1>2. \A s \in Sess : got[s] \in Seq(Nat)
  BY DEF TypeInv, AgentInv
<1> QED BY <1>1, <1>2 DEF Frames

\* Each key the shell has is another.
LEMMA GotDistinct ==
    ASSUME TypeInv, KeysAtMostOnce, NEW s \in Sess
    PROVE  \A i, j \in DOMAIN got[s] : got[s][i] = got[s][j] => i = j
<1> SUFFICES ASSUME NEW i \in DOMAIN got[s], NEW j \in DOMAIN got[s], got[s][i] = got[s][j], i # j
             PROVE  FALSE
  OBVIOUS
<1>1. got[s] \in Seq(Nat) /\ got[s][i] \in Nat /\ got[s][j] \in Nat
  BY GotNat DEF TypeInv, AgentInv
<1>2. i \in Int /\ j \in Int
  BY <1>1
<1>3. CASE i < j
  BY <1>1, <1>3 DEF KeysAtMostOnce
<1>4. CASE j < i
  BY <1>1, <1>4 DEF KeysAtMostOnce
<1> QED BY <1>2, <1>3, <1>4

LEMMA SameFrame ==
    \A f, g \in Frames : f.sess = g.sess /\ f.kind = g.kind /\ f.n = g.n /\ f.via = g.via => f = g
  BY DEF Frames

LEMMA Elements ==
    ASSUME TypeInv
    PROVE  /\ \A t \in Streams : \A i \in DOMAIN down[t] : down[t][i] \in Frames
           /\ \A f \in handling : f \in Frames
           /\ \A f \in Frames : f.sess \in Sess
<1>1. \A q \in Seq(Frames) : \A i \in DOMAIN q : q[i] \in Frames
  OBVIOUS
<1>2. \A t \in Streams : down[t] \in Seq(Frames)
  BY DEF TypeInv, FrameInv
<1>3. \A f \in Frames : f.sess \in Sess
  BY DEF Frames
<1> QED BY <1>1, <1>2, <1>3 DEF TypeInv, AgentInv

\* What Sent does to the streams: at most one frame, at the end of one.
LEMMA SentDown ==
    ASSUME TypeInv, NEW f \in Frames, Sent(f)
    PROVE  \A t \in Streams : \A i \in DOMAIN down'[t] :
             \/ i \in DOMAIN down[t] /\ down'[t][i] = down[t][i]
             \/ t = cur /\ i = Len(down[cur]) + 1 /\ down'[t][i] = f
<1>0. down \in [Streams -> Seq(Frames)] /\ cur \in Streams
  BY DEF TypeInv, FrameInv, LinkInv
<1>1. CASE UNCHANGED down
  BY <1>1
<1>2. CASE down' = [down EXCEPT ![cur] = Append(@, f)]
  <2>1. down'[cur] = Append(down[cur], f) /\ \A t \in Streams \ {cur} : down'[t] = down[t]
    BY <1>0, <1>2
  <2>2. \A i \in DOMAIN Append(down[cur], f) :
          \/ i \in DOMAIN down[cur] /\ Append(down[cur], f)[i] = down[cur][i]
          \/ i = Len(down[cur]) + 1 /\ Append(down[cur], f)[i] = f
    BY <1>0, AppendTypes
  <2> QED BY <2>1, <2>2
<1> QED BY <1>1, <1>2 DEF Sent

LEMMA SentElsewhere ==
    ASSUME TypeInv, NEW f \in Frames, Sent(f)
    PROVE  \A t \in Streams : t # cur => down'[t] = down[t]
  BY DEF Sent, TypeInv, FrameInv

\* No key moves, or a goroutine drops one.
LEMMA KeysStay ==
    ASSUME TypeInv, KeyInv, UNCHANGED <<typed, down, got, passed, cur>>, handling' \subseteq handling
    PROVE  KeyInv'
<1>1. UnderWay' /\ Once' /\ Handled'
  BY DEF KeyInv, UnderWay, Once, Handled, Typed, Got
<1>2. Queued' /\ Ahead'
  BY DEF KeyInv, Queued, Ahead
<1>3. Overdue' /\ KeysAtMostOnce'
  BY DEF KeyInv, Overdue, KeysAtMostOnce
<1> QED BY <1>1, <1>2, <1>3 DEF KeyInv

\* A frame that is not data disturbs no key.
LEMMA ControlKeys ==
    ASSUME TypeInv, KeyInv, NEW f \in Frames, Sent(f), ~Data(f),
           UNCHANGED <<typed, got, handling, passed, cur>>
    PROVE  KeyInv'
<1>1. \A t \in Streams : \A i \in DOMAIN down'[t] :
        Data(down'[t][i]) => i \in DOMAIN down[t] /\ down'[t][i] = down[t][i]
  BY SentDown
<1>2. UnderWay'
  BY <1>1 DEF KeyInv, UnderWay, Typed, Got
<1>3. Once'
  BY <1>1 DEF KeyInv, Once
<1>4. Handled' /\ Overdue' /\ KeysAtMostOnce'
  BY DEF KeyInv, Handled, Overdue, KeysAtMostOnce, Typed, Got
<1>5. Queued'
  <2>1. \A t \in Streams : t # cur => down'[t] = << >>
    BY SentElsewhere DEF KeyInv, Queued
  <2> QED BY <1>1, <2>1 DEF KeyInv, Queued
<1>6. Ahead'
  BY <1>1 DEF KeyInv, Ahead
<1> QED BY <1>2, <1>3, <1>4, <1>5, <1>6 DEF KeyInv

\* The next key of a session is new.
LEMMA TypeKeys ==
    ASSUME TypeInv, KeyInv, NEW s \in Sess, Type(s)
    PROVE  KeyInv'
<1> DEFINE f == Frame(s, "data", typed[s] + 1)
<1>1. /\ f \in Frames /\ f.sess = s /\ f.n = typed[s] + 1 /\ f.via = None /\ Data(f)
  BY FrameTypes DEF Frame, Data
<1>2. Sent(f) /\ UNCHANGED <<got, handling, passed, cur>>
  BY DEF Type, agentVars, linkVars
<1>3. typed \in [Sess -> Nat] /\ typed' = [typed EXCEPT ![s] = typed[s] + 1]
  BY TerminalAssumption DEF Type, TypeInv, WsInv
<1>4. \A x \in Sess : 1..typed[x] \subseteq 1..typed'[x] /\ typed[x] \in Nat
  BY <1>3
<1>5. f.n \notin 1..typed[s] /\ f.n \in 1..typed'[s]
  BY <1>1, <1>3
<1> HIDE DEF f
<1>6. /\ \A t \in Streams : \A i \in DOMAIN down[t] : down[t][i] \in Frames
      /\ \A g \in handling : g \in Frames
      /\ \A g \in Frames : g.sess \in Sess
  BY Elements
<1>7. /\ \A t \in Streams : \A i \in DOMAIN down[t] : down[t][i] # f
      /\ f \notin handling /\ ~Got(f, got)
  BY <1>1, <1>5 DEF KeyInv, UnderWay, Handled, KeysAtMostOnce, Typed, Got
<1>8. \A t \in Streams : \A i \in DOMAIN down'[t] :
        \/ i \in DOMAIN down[t] /\ down'[t][i] = down[t][i]
        \/ t = cur /\ i = Len(down[cur]) + 1 /\ down'[t][i] = f
  BY <1>1, <1>2, SentDown
<1>9. UnderWay'
  <2> SUFFICES ASSUME NEW t \in Streams, NEW i \in DOMAIN down'[t], Data(down'[t][i])
               PROVE  /\ Typed(down'[t][i], typed') /\ ~Got(down'[t][i], got')
                      /\ down'[t][i] \notin handling'
    BY DEF UnderWay
  <2>1. CASE i \in DOMAIN down[t] /\ down'[t][i] = down[t][i]
    <3>1. Typed(down[t][i], typed) /\ ~Got(down[t][i], got) /\ down[t][i] \notin handling /\ down[t][i].sess \in Sess
      BY <1>6, <2>1 DEF KeyInv, UnderWay
    <3> QED BY <1>2, <1>4, <2>1, <3>1 DEF Typed, Got
  <2>2. CASE down'[t][i] = f
    BY <1>1, <1>2, <1>5, <1>7, <2>2 DEF Typed, Got
  <2> QED BY <1>8, <2>1, <2>2
<1>10. Once'
  BY <1>7, <1>8 DEF KeyInv, Once
<1>11. Handled' /\ Overdue'
  BY <1>2, <1>4, <1>6 DEF KeyInv, Handled, Overdue, Typed, Got
<1>12. KeysAtMostOnce'
  BY <1>2, <1>4 DEF KeyInv, KeysAtMostOnce
<1>13. \A n \in 1..typed[s] : n < f.n
  BY <1>1, <1>4
<1>14. Queued'
  <2>1. \A t \in Streams : t # cur => down'[t] = << >>
    BY <1>1, <1>2, SentElsewhere DEF KeyInv, Queued
  <2> SUFFICES ASSUME NEW t \in Streams, NEW i \in DOMAIN down'[t], NEW j \in DOMAIN down'[t], i < j,
                      Data(down'[t][i]), Data(down'[t][j]), down'[t][i].sess = down'[t][j].sess
               PROVE  down'[t][i].n < down'[t][j].n
    BY <1>2, <2>1 DEF Queued
  <2>2. CASE j \in DOMAIN down[t] /\ down'[t][j] = down[t][j]
    <3>1. down[t] \in Seq(Frames)
      BY DEF TypeInv, FrameInv
    <3>2. DOMAIN down[t] = 1..Len(down[t]) /\ Len(down[t]) \in Nat
      BY <3>1
    <3>3. i \in DOMAIN down[t] /\ down'[t][i] = down[t][i]
      BY <1>8, <2>2, <3>2
    <3> QED BY <2>2, <3>3 DEF KeyInv, Queued
  <2>3. CASE t = cur /\ j = Len(down[cur]) + 1 /\ down'[t][j] = f
    <3>1. i \in DOMAIN down[t] /\ down'[t][i] = down[t][i]
      BY <1>8, <2>3
    <3>2. down[t][i].n \in 1..typed[s]
      BY <1>1, <2>3, <3>1 DEF KeyInv, UnderWay, Typed
    <3> QED BY <1>13, <2>3, <3>1, <3>2
  <2> QED BY <1>8, <2>2, <2>3
<1>15. Ahead'
  <2> SUFFICES ASSUME NEW t \in Streams, NEW i \in DOMAIN down'[t], Data(down'[t][i])
               PROVE  LET h == down'[t][i] IN
                        /\ \A g \in handling : Data(g) /\ g.sess = h.sess => g.n < h.n
                        /\ \A k \in DOMAIN got[h.sess] : got[h.sess][k] < h.n
    BY <1>2 DEF Ahead
  <2>1. CASE i \in DOMAIN down[t] /\ down'[t][i] = down[t][i]
    BY <2>1 DEF KeyInv, Ahead
  <2>2. CASE down'[t][i] = f
    <3>1. \A g \in handling : Data(g) /\ g.sess = s => g.n < f.n
      BY <1>13 DEF KeyInv, Handled, Typed
    <3>2. \A k \in DOMAIN got[s] : got[s][k] < f.n
      BY <1>13 DEF KeyInv, KeysAtMostOnce
    <3> QED BY <1>1, <2>2, <3>1, <3>2
  <2> QED BY <1>8, <2>1, <2>2
<1> QED BY <1>9, <1>10, <1>11, <1>12, <1>14, <1>15 DEF KeyInv

\* A goroutine of the agent gets the first frame.
LEMMA RecvKeys ==
    ASSUME TypeInv, KeyInv, RecvFrame
    PROVE  KeyInv'
<1>0. down \in [Streams -> Seq(Frames)] /\ cur \in Streams /\ down[cur] # << >>
  BY DEF TypeInv, FrameInv, LinkInv, RecvFrame
<1> DEFINE q == down[cur]
           f == Head(q)
<1>1. /\ f = q[1] /\ 1 \in DOMAIN q
      /\ \A i \in DOMAIN Tail(q) : Tail(q)[i] = q[i + 1] /\ i + 1 \in DOMAIN q /\ i + 1 # 1 /\ i \in Nat
  BY <1>0, TailTypes
<1>2. /\ down'[cur] = Tail(q) /\ \A t \in Streams \ {cur} : down'[t] = down[t]
      /\ handling' = handling \cup {f} /\ UNCHANGED <<typed, got, passed, cur>>
  BY <1>0 DEF RecvFrame, wsVars, linkVars
<1> HIDE DEF q, f
<1>3. \A t \in Streams : \A i \in DOMAIN down'[t] :
        \E k \in DOMAIN down[t] : /\ down'[t][i] = down[t][k] /\ (t = cur => k = i + 1 /\ k # 1 /\ i \in Nat)
                                  /\ (t # cur => k = i)
  <2> SUFFICES ASSUME NEW t \in Streams, NEW i \in DOMAIN down'[t]
               PROVE  \E k \in DOMAIN down[t] : /\ down'[t][i] = down[t][k]
                                                /\ (t = cur => k = i + 1 /\ k # 1 /\ i \in Nat)
                                                /\ (t # cur => k = i)
    OBVIOUS
  <2>1. CASE t = cur
    <3>1. i \in DOMAIN Tail(q) /\ down'[t][i] = Tail(q)[i] /\ q = down[t]
      BY <1>2, <2>1 DEF q
    <3> QED BY <1>1, <2>1, <3>1
  <2>2. CASE t # cur
    BY <1>2, <2>2
  <2> QED BY <2>1, <2>2
<1>4. Data(f) => Typed(f, typed) /\ ~Got(f, got)
  BY <1>0, <1>1 DEF KeyInv, UnderWay, q
<1>5. \A t \in Streams : \A i \in DOMAIN down'[t] : Data(down'[t][i]) => down'[t][i] # f
  BY <1>0, <1>1, <1>3 DEF KeyInv, Once, q
<1>6. UnderWay'
  <2> SUFFICES ASSUME NEW t \in Streams, NEW i \in DOMAIN down'[t], Data(down'[t][i])
               PROVE  /\ Typed(down'[t][i], typed') /\ ~Got(down'[t][i], got')
                      /\ down'[t][i] \notin handling'
    BY DEF UnderWay
  <2>1. PICK k \in DOMAIN down[t] : down'[t][i] = down[t][k]
    BY <1>3
  <2>2. Typed(down[t][k], typed) /\ ~Got(down[t][k], got) /\ down[t][k] \notin handling
    BY <2>1 DEF KeyInv, UnderWay
  <2> QED BY <1>2, <1>5, <2>1, <2>2 DEF Typed, Got
<1>7. Once'
  <2> SUFFICES ASSUME NEW t \in Streams, NEW u \in Streams, NEW i \in DOMAIN down'[t],
                      NEW j \in DOMAIN down'[u], Data(down'[t][i]), down'[t][i] = down'[u][j]
               PROVE  t = u /\ i = j
    BY DEF Once
  <2>1. PICK k \in DOMAIN down[t] : /\ down'[t][i] = down[t][k] /\ (t # cur => k = i)
                                    /\ (t = cur => k = i + 1 /\ i \in Nat)
    BY <1>3
  <2>2. PICK l \in DOMAIN down[u] : /\ down'[u][j] = down[u][l] /\ (u # cur => l = j)
                                    /\ (u = cur => l = j + 1 /\ j \in Nat)
    BY <1>3
  <2>3. t = u /\ k = l
    <3>1. Data(down[t][k]) /\ down[t][k] = down[u][l]
      BY <2>1, <2>2
    <3> QED BY <3>1 DEF KeyInv, Once
  <2> QED BY <2>1, <2>2, <2>3
<1>8. Handled' /\ KeysAtMostOnce'
  BY <1>2, <1>4 DEF KeyInv, Handled, KeysAtMostOnce, Typed, Got
<1>9. \A t \in Streams : DOMAIN down[t] \subseteq Int
  <2>1. \A x \in Seq(Frames) : DOMAIN x \subseteq Int
    OBVIOUS
  <2> QED BY <1>0, <2>1
<1>10. Queued'
  <2>1. \A t \in Streams : t # cur => down'[t] = << >>
    BY <1>2 DEF KeyInv, Queued
  <2> SUFFICES ASSUME NEW t \in Streams, NEW i \in DOMAIN down'[t], NEW j \in DOMAIN down'[t], i < j,
                      Data(down'[t][i]), Data(down'[t][j]), down'[t][i].sess = down'[t][j].sess
               PROVE  down'[t][i].n < down'[t][j].n
    BY <1>2, <2>1 DEF Queued
  <2>2. PICK k \in DOMAIN down[t] : /\ down'[t][i] = down[t][k] /\ (t # cur => k = i)
                                    /\ (t = cur => k = i + 1 /\ i \in Nat)
    BY <1>3
  <2>3. PICK l \in DOMAIN down[t] : /\ down'[t][j] = down[t][l] /\ (t # cur => l = j)
                                    /\ (t = cur => l = j + 1 /\ j \in Nat)
    BY <1>3
  <2>4. k < l
    BY <1>9, <2>2, <2>3
  <2> QED BY <2>2, <2>3, <2>4 DEF KeyInv, Queued
<1>11. Ahead'
  <2> SUFFICES ASSUME NEW t \in Streams, NEW i \in DOMAIN down'[t], Data(down'[t][i])
               PROVE  LET h == down'[t][i] IN
                        /\ \A g \in handling' : Data(g) /\ g.sess = h.sess => g.n < h.n
                        /\ \A k \in DOMAIN got[h.sess] : got[h.sess][k] < h.n
    BY <1>2 DEF Ahead
  <2>1. t = cur
    BY <1>2 DEF KeyInv, Queued
  <2>2. PICK k \in DOMAIN down[t] : down'[t][i] = down[t][k] /\ k = i + 1 /\ k # 1 /\ i \in Nat
    BY <1>3, <2>1
  <2>3. /\ \A g \in handling : Data(g) /\ g.sess = down[t][k].sess => g.n < down[t][k].n
        /\ \A j \in DOMAIN got[down[t][k].sess] : got[down[t][k].sess][j] < down[t][k].n
    BY <2>2 DEF KeyInv, Ahead
  <2>4. Data(f) /\ f.sess = down[t][k].sess => f.n < down[t][k].n
    <3>1. 1 < k /\ down[t][1] = f /\ 1 \in DOMAIN down[t]
      BY <1>0, <1>1, <1>9, <2>1, <2>2 DEF q
    <3> QED BY <2>2, <3>1 DEF KeyInv, Queued
  <2> QED BY <1>2, <2>2, <2>3, <2>4
<1>12. Overdue'
  <2>1. Data(f) => \A k \in DOMAIN got[f.sess] : got[f.sess][k] < f.n
    BY <1>0, <1>1 DEF KeyInv, Ahead, q
  <2>2. f \in Frames
    BY <1>0, TailTypes DEF q, f
  <2>3. f.n \in Nat /\ \A k \in DOMAIN got[f.sess] : got[f.sess][k] \in Nat
    BY <2>2, GotNat DEF Frames
  <2>4. Data(f) => \A k \in DOMAIN got[f.sess] : ~(f.n < got[f.sess][k])
    BY <2>1, <2>3
  <2> QED BY <1>2, <2>4 DEF KeyInv, Overdue
<1> QED BY <1>6, <1>7, <1>8, <1>10, <1>11, <1>12 DEF KeyInv

\* The shell gets what no other goroutine has, and what is on no stream.
LEMMA WriteKeys ==
    ASSUME TypeInv, KeyInv, NEW f \in handling, Write(f)
    PROVE  KeyInv'
<1>0. f \in Frames /\ f.sess \in Sess /\ f.n \in Nat /\ Data(f) /\ got \in [Sess -> Seq(Nat)]
  BY DEF TypeInv, AgentInv, Frames, Write, Data
<1>1. UNCHANGED <<down, typed, cur>> /\ handling' = handling \ {f}
  BY DEF Write, wsVars, linkVars
<1>2. CASE UNCHANGED <<got, passed>>
  BY <1>1, <1>2, KeysStay
<1> DEFINE P == {g.n : g \in {h \in handling : h.kind = "data" /\ h.sess = f.sess /\ h.n < f.n}}
<1>3. CASE /\ got' = [got EXCEPT ![f.sess] = Append(@, f.n)]
           /\ passed' = [passed EXCEPT ![f.sess] = @ \cup P]
  <2> DEFINE s == f.sess
             q == got[s]
  <2>1. got'[s] = Append(q, f.n) /\ \A x \in Sess \ {s} : got'[x] = got[x]
    BY <1>0, <1>3
  <2>2. \A i \in DOMAIN got'[s] :
          \/ i \in DOMAIN q /\ got'[s][i] = q[i]
          \/ i = Len(q) + 1 /\ got'[s][i] = f.n
    BY <1>0, <2>1, AppendTypes
  <2>3. f.n \in 1..typed[s] /\ f.via = None /\ \A i \in DOMAIN q : q[i] # f.n
    BY <1>0 DEF KeyInv, Handled, Typed, Got
  <2>10. /\ \A x \in Sess : passed[x] \subseteq passed'[x]
         /\ \A g \in handling : Data(g) /\ g.sess = s /\ g.n < f.n => g.n \in passed'[s]
    BY <1>0, <1>3 DEF TypeInv, AgentInv, Data
  <2>11. q \in Seq(Nat) /\ DOMAIN q = 1..Len(q) /\ Len(q) \in Nat /\ \A i \in DOMAIN q : q[i] \in Nat
    BY <1>0, GotNat
  <2> HIDE DEF P
  <2>4. KeysAtMostOnce'
    <3> SUFFICES ASSUME NEW x \in Sess
                 PROVE  /\ \A i, j \in DOMAIN got'[x] :
                             i < j => got'[x][i] < got'[x][j]
                                      \/ (got'[x][j] < got'[x][i] /\ got'[x][j] \in passed'[x])
                        /\ \A i \in DOMAIN got'[x] : got'[x][i] \in 1..typed'[x]
      BY DEF KeysAtMostOnce
    <3>1. CASE x = s
      <4>0. s \in Sess /\ passed[s] \subseteq passed'[s]
        BY <1>0, <2>10
      <4>1. /\ \A i, j \in DOMAIN q : i < j => q[i] < q[j]
                                         \/ (q[j] < q[i] /\ q[j] \in passed'[s])
            /\ \A i \in DOMAIN q : q[i] \in 1..typed[s]
        <5>1. /\ \A i, j \in DOMAIN q : i < j => q[i] < q[j]
                                         \/ (q[j] < q[i] /\ q[j] \in passed[s])
              /\ \A i \in DOMAIN q : q[i] \in 1..typed[s]
          BY <4>0 DEF KeyInv, KeysAtMostOnce
        <5> HIDE DEF s, q
        <5> QED BY <4>0, <5>1
      <4>2. \A i \in DOMAIN q : q[i] < f.n \/ (f.n < q[i] /\ f.n \in passed'[s])
        <5>1. \A i \in DOMAIN q : f.n < q[i] => f.n \in passed[s]
          BY <1>0 DEF KeyInv, Overdue
        <5>2. \A i \in DOMAIN q : f.n < q[i] => f.n \in passed'[s]
          BY <4>0, <5>1
        <5>3. \A i \in DOMAIN q : q[i] \in Nat /\ f.n \in Nat /\ q[i] # f.n
          BY <1>0, <2>3, <2>11
        <5> HIDE DEF s, q
        <5> QED BY <5>2, <5>3
      <4> HIDE DEF s, q
      <4>3. \A i \in DOMAIN got'[s] : got'[s][i] \in 1..typed'[s]
        BY <1>1, <2>2, <2>3, <4>1
      <4> SUFFICES ASSUME NEW i \in DOMAIN got'[s], NEW j \in DOMAIN got'[s], i < j
                   PROVE  \/ got'[s][i] < got'[s][j]
                          \/ got'[s][j] < got'[s][i] /\ got'[s][j] \in passed'[s]
        BY <3>1, <4>3
      <4>4. CASE j \in DOMAIN q /\ got'[s][j] = q[j]
        <5>1. i \in DOMAIN q /\ got'[s][i] = q[i]
          BY <2>2, <2>11, <4>4
        <5> QED BY <4>1, <4>4, <5>1
      <4>5. CASE j = Len(q) + 1 /\ got'[s][j] = f.n
        <5>1. i \in DOMAIN q /\ got'[s][i] = q[i]
          BY <2>2, <2>11, <4>5
        <5> QED BY <4>2, <4>5, <5>1
      <4> QED BY <2>2, <4>4, <4>5
    <3>2. CASE x # s
      BY <1>1, <2>1, <2>10, <3>2 DEF KeyInv, KeysAtMostOnce
    <3> QED BY <3>1, <3>2
  <2>5. \A g \in Frames : Data(g) /\ g.via = None /\ ~Got(g, got) /\ g # f => ~Got(g, got')
    <3> SUFFICES ASSUME NEW g \in Frames, Data(g), g.via = None, ~Got(g, got), g # f PROVE ~Got(g, got')
      OBVIOUS
    <3>1. CASE g.sess = s
      <4>1. g.n # f.n
        BY <1>0, <2>3, <3>1, SameFrame DEF Data
      <4> QED BY <2>2, <3>1, <4>1 DEF Got
    <3>2. CASE g.sess # s
      BY <2>1, <3>2 DEF Got, Frames
    <3> QED BY <3>1, <3>2
  <2> HIDE DEF s, q
  <2>6. /\ \A t \in Streams : \A i \in DOMAIN down[t] : down[t][i] \in Frames
        /\ \A g \in handling : g \in Frames
    BY Elements
  <2>7. UnderWay'
    BY <1>1, <2>5, <2>6 DEF KeyInv, UnderWay, Typed
  <2>8. Handled'
    BY <1>1, <2>5, <2>6 DEF KeyInv, Handled, Typed
  <2>9. Once' /\ Queued'
    BY <1>1 DEF KeyInv, Once, Queued
  <2>12. Ahead'
    <3> SUFFICES ASSUME NEW t \in Streams, NEW i \in DOMAIN down[t], Data(down[t][i])
                 PROVE  LET h == down[t][i] IN
                          /\ \A g \in handling' : Data(g) /\ g.sess = h.sess => g.n < h.n
                          /\ \A k \in DOMAIN got'[h.sess] : got'[h.sess][k] < h.n
      BY <1>1 DEF Ahead
    <3>1. /\ \A g \in handling : Data(g) /\ g.sess = down[t][i].sess => g.n < down[t][i].n
          /\ \A k \in DOMAIN got[down[t][i].sess] : got[down[t][i].sess][k] < down[t][i].n
          /\ down[t][i].sess \in Sess
      BY <2>6, Elements DEF KeyInv, Ahead
    <3>2. CASE down[t][i].sess = s
      BY <1>0, <1>1, <2>2, <3>1, <3>2 DEF s, q
    <3>3. CASE down[t][i].sess # s
      BY <1>1, <2>1, <3>1, <3>3
    <3> QED BY <3>2, <3>3
  <2>13. Overdue'
    <3> SUFFICES ASSUME NEW g \in handling, g # f, Data(g), NEW k \in DOMAIN got'[g.sess],
                        g.n < got'[g.sess][k]
                 PROVE  g.n \in passed'[g.sess]
      BY <1>1 DEF Overdue
    <3>1. g.sess \in Sess
      BY Elements
    <3>2. CASE g.sess = s
      <4>1. CASE k \in DOMAIN q /\ got'[s][k] = q[k]
        BY <2>10, <3>1, <3>2, <4>1 DEF KeyInv, Overdue, q
      <4>2. CASE got'[s][k] = f.n
        BY <2>10, <3>2, <4>2
      <4> QED BY <2>2, <3>2, <4>1, <4>2
    <3>3. CASE g.sess # s
      BY <2>1, <2>10, <3>1, <3>3 DEF KeyInv, Overdue
    <3> QED BY <3>2, <3>3
  <2> QED BY <2>4, <2>7, <2>8, <2>9, <2>12, <2>13 DEF KeyInv
<1> QED BY <1>2, <1>3 DEF Write, Input

LEMMA KeyStep == TypeInv /\ KeyInv /\ [Next]_vars => KeyInv'
<1> SUFFICES ASSUME TypeInv, KeyInv, [Next]_vars PROVE KeyInv'
  OBVIOUS
<1>1. ASSUME NEW s \in Sess, SendOpen(s) \/ SendClose(s) PROVE KeyInv'
  <2>1. UNCHANGED <<typed, got, handling, passed, cur>>
    BY <1>1 DEF SendOpen, SendClose, agentVars, linkVars
  <2>2. CASE UNCHANGED down
    BY <2>1, <2>2 DEF KeyInv, UnderWay, Once, Handled, Queued, Ahead, Overdue, KeysAtMostOnce, Typed, Got
  <2>3. ASSUME NEW kind \in {"open", "close"}, Sent(Frame(s, kind, 0)) PROVE KeyInv'
    <3>1. Frame(s, kind, 0) \in Frames /\ ~Data(Frame(s, kind, 0))
      BY FrameTypes DEF Frame, Data
    <3> QED BY <2>1, <2>3, <3>1, ControlKeys
  <2> QED BY <1>1, <2>2, <2>3 DEF SendOpen, SendClose
<1>2. ASSUME NEW s \in Sess, Type(s) PROVE KeyInv'
  BY <1>2, TypeKeys
<1>3. CASE RecvFrame
  BY <1>3, RecvKeys
<1>4. CASE Reconnect
  <2>1. UNCHANGED <<typed, got, handling, passed>>
    BY <1>4 DEF Reconnect, wsVars, agentVars
  <2>2. \A t \in Streams : down'[t] = << >>
    BY <1>4 DEF Reconnect, TypeInv, FrameInv, LinkInv, KeyInv, Queued
  <2>3. UnderWay' /\ Once' /\ Queued' /\ Ahead'
    BY <2>2 DEF UnderWay, Once, Queued, Ahead
  <2>4. Handled' /\ Overdue' /\ KeysAtMostOnce'
    BY <2>1 DEF KeyInv, Handled, Overdue, KeysAtMostOnce, Typed, Got
  <2> QED BY <2>3, <2>4 DEF KeyInv
<1>5. ASSUME NEW f \in handling, Write(f) PROVE KeyInv'
  BY <1>5, WriteKeys
<1>6. CASE UNCHANGED <<typed, down, got, passed, cur>> /\ handling' \subseteq handling
  BY <1>6, KeysStay
<1>7. \/ \E s \in Sess : SendOpen(s) \/ SendClose(s) \/ Type(s)
      \/ RecvFrame \/ Reconnect
      \/ \E f \in handling : Write(f)
      \/ UNCHANGED <<typed, down, got, passed, cur>> /\ handling' \subseteq handling
  BY DEF Next, vars, wsVars, linkVars, agentVars, Browser, HandlerStep, ReaderStep, Connect, BrowserLeaves, Show,
         Deliver, Notice, Break, Attach, Rebind, Handle, Spawn, Register, Close, SpawnFails, ShellExits,
         ReadPty, PumpStep, SendOutput, ReadEof, EndSession
<1> QED BY <1>1, <1>2, <1>3, <1>4, <1>5, <1>6, <1>7

\* No message of the browser reaches the shell twice and none that was not
\* typed does, in whatever order the agent's goroutines run and however often
\* the stream is replaced; and a message comes late only if a goroutine held
\* it while another wrote a later one.
THEOREM NoKeyTwice == Spec => []KeysAtMostOnce
<1>1. KeyInv => KeysAtMostOnce
  BY DEF KeyInv
<1> QED BY <1>1, KeyInit, KeyStep, TypesHold, PTL DEF Spec

-----------------------------------------------------------------------------
(* Output: what came over one stream to the browser, what the channel     *)
(* holds of it, what is still on it and what the shell will print are      *)
(* numbered upwards; and a piece on a later stream is a later piece.       *)

\* f is output of session k[1] that went up on stream k[2].
IsOut(f, k) == f.kind = "out" /\ f.sess = k[1] /\ f.via = k[2]

\* The output of k in q rises; that in p comes before that in q; that in q is
\* older than n.
Rising(q, k) ==
    \A i, j \in DOMAIN q : i < j /\ IsOut(q[i], k) /\ IsOut(q[j], k) => q[i].n < q[j].n
Before(p, q, k) ==
    \A i \in DOMAIN p, j \in DOMAIN q : IsOut(p[i], k) /\ IsOut(q[j], k) => p[i].n < q[j].n
Below(q, n, k) == \A i \in DOMAIN q : IsOut(q[i], k) => q[i].n < n

\* The number that the next piece on the stream will have, at least.
Bound(s) == IF pump[s] = "sending" THEN printed[s] ELSE printed[s] + 1

Line(a, b, c, n, k) ==
    /\ Rising(a, k) /\ Rising(b, k) /\ Rising(c, k)
    /\ Before(a, b, k) /\ Before(a, c, k) /\ Before(b, c, k)
    /\ Below(a, n, k) /\ Below(b, n, k) /\ Below(c, n, k)

Lines == \A s \in Sess, t \in Streams : Line(shown[s], out[s], up[t], Bound(s), <<s, t>>)

Sorted ==
    /\ \A s \in Sess : \A i \in DOMAIN shown[s] : shown[s][i].kind = "out" /\ shown[s][i].sess = s
    /\ \A s \in Sess : \A i \in DOMAIN out[s] : out[s][i].sess = s
    /\ \A t \in Streams : \A i \in DOMAIN up[t] : up[t][i].via = t

In(f, q) == \E i \in DOMAIN q : q[i] = f

\* The output of s on its way or shown.
Held(s) ==
    {f \in Frames : /\ f.kind = "out" /\ f.sess = s
                    /\ In(f, shown[s]) \/ In(f, out[s]) \/ \E t \in Streams : In(f, up[t])}

Epochs ==
    \A s \in Sess :
      /\ \A f, g \in Held(s) : f.via < g.via => f.n < g.n
      /\ \A f \in Held(s) : f.via \in 1..bound /\ f.n < Bound(s)

OrderInv == Sorted /\ Lines /\ Epochs

LEMMA OrderInit == Init => OrderInv
<1> SUFFICES ASSUME Init PROVE OrderInv
  OBVIOUS
<1>1. Sorted
  BY DEF Init, Sorted
<1>2. Lines
  BY DEF Init, Lines, Line, Rising, Before, Below
<1>3. \A s \in Sess : Held(s) = {}
  BY DEF Init, Held, In
<1> QED BY <1>1, <1>2, <1>3 DEF OrderInv, Epochs

LEMMA HeldFrames ==
    ASSUME NEW s
    PROVE  \A f \in Held(s) : f \in Frames /\ f.n \in Nat /\ f.via \in Nat
  BY DEF Held, Frames

\* A step that brings at most the next piece, on the newest stream.
LEMMA EpochStep ==
    ASSUME TypeInv, TypeInv', Epochs, bound <= bound',
           \A s \in Sess :
             /\ Bound(s) \in Nat /\ Bound(s)' \in Nat /\ Bound(s) <= Bound(s)'
             /\ \A f \in Held(s)' : \/ f \in Held(s)
                                    \/ f.via = bound /\ f.n = Bound(s) /\ Bound(s) < Bound(s)'
    PROVE  Epochs'
<1>0. bound \in Nat /\ bound' \in Nat /\ 1 <= bound
  BY DEF TypeInv, LinkInv, Streams
<1> SUFFICES ASSUME NEW s \in Sess
             PROVE  /\ \A f, g \in Held(s)' : f.via < g.via => f.n < g.n
                    /\ \A f \in Held(s)' : f.via \in 1..bound' /\ f.n < Bound(s)'
  BY DEF Epochs
<1> DEFINE H == Held(s)
           K == Held(s)'
           b == Bound(s)
           c == Bound(s)'
<1>1. /\ \A f, g \in H : f.via < g.via => f.n < g.n
      /\ \A f \in H : f.via \in 1..bound /\ f.n < b
  BY DEF Epochs
<1>2. /\ \A f \in H : f.n \in Nat /\ f.via \in Nat
      /\ \A f \in K : f.n \in Nat /\ f.via \in Nat
  BY DEF Held, Frames
<1>3. b \in Nat /\ c \in Nat /\ b <= c
  OBVIOUS
<1>4. \A f \in K : f \in H \/ (f.via = bound /\ f.n = b /\ b < c)
  OBVIOUS
<1> HIDE DEF H, K, b, c
<1>5. \A f \in K : f.via \in 1..bound' /\ f.n < c
  BY <1>0, <1>1, <1>2, <1>3, <1>4
<1>6. \A f, g \in K : f.via < g.via => f.n < g.n
  <2> SUFFICES ASSUME NEW f \in K, NEW g \in K, f.via < g.via PROVE f.n < g.n
    OBVIOUS
  <2>1. f \in H
    BY <1>0, <1>1, <1>2, <1>4
  <2>2. CASE g \in H
    BY <1>1, <2>1, <2>2
  <2>3. CASE g.n = b
    BY <1>1, <2>1, <2>3
  <2> QED BY <1>4, <2>2, <2>3
<1> QED BY <1>5, <1>6 DEF K, c

\* A later piece at the end of the line.
LEMMA LineAppend ==
    ASSUME NEW a \in Seq(Frames), NEW b \in Seq(Frames), NEW c \in Seq(Frames),
           NEW n \in Nat, NEW m \in Nat, NEW s, NEW x \in Frames, Line(a, b, c, n, s), n <= m,
           IsOut(x, s) => x.n = n /\ n < m
    PROVE  Line(a, b, Append(c, x), m, s)
<1>1. /\ \A i \in DOMAIN Append(c, x) : \/ i \in DOMAIN c /\ Append(c, x)[i] = c[i]
                                        \/ i = Len(c) + 1 /\ Append(c, x)[i] = x
      /\ DOMAIN c = 1..Len(c) /\ Len(c) \in Nat
  BY AppendTypes
<1>2. /\ \A i \in DOMAIN a : a[i].n \in Nat
      /\ \A i \in DOMAIN b : b[i].n \in Nat
      /\ \A i \in DOMAIN c : c[i].n \in Nat
  <2>1. \A q \in Seq(Frames) : \A i \in DOMAIN q : q[i] \in Frames
    OBVIOUS
  <2>2. \A f \in Frames : f.n \in Nat
    BY DEF Frames
  <2> QED BY <2>1, <2>2
<1>3. Rising(Append(c, x), s)
  <2> SUFFICES ASSUME NEW i \in DOMAIN Append(c, x), NEW j \in DOMAIN Append(c, x), i < j,
                      IsOut(Append(c, x)[i], s), IsOut(Append(c, x)[j], s)
               PROVE  Append(c, x)[i].n < Append(c, x)[j].n
    BY DEF Rising
  <2>1. i \in DOMAIN c /\ Append(c, x)[i] = c[i]
    BY <1>1, AppendTypes
  <2>2. CASE j \in DOMAIN c /\ Append(c, x)[j] = c[j]
    BY <2>1, <2>2 DEF Line, Rising
  <2>3. CASE Append(c, x)[j] = x
    BY <2>1, <2>3 DEF Line, Below
  <2> QED BY <1>1, <2>2, <2>3
<1>4. Before(a, Append(c, x), s) /\ Before(b, Append(c, x), s)
  BY <1>1 DEF Line, Before, Below
<1>5. Below(a, m, s) /\ Below(b, m, s)
  BY <1>2 DEF Line, Below
<1>6. Below(Append(c, x), m, s)
  <2> SUFFICES ASSUME NEW i \in DOMAIN Append(c, x), IsOut(Append(c, x)[i], s)
               PROVE  Append(c, x)[i].n < m
    BY DEF Below
  <2>1. CASE i \in DOMAIN c /\ Append(c, x)[i] = c[i]
    BY <1>2, <2>1 DEF Line, Below
  <2>2. CASE Append(c, x)[i] = x
    BY <2>2
  <2> QED BY <1>1, <2>1, <2>2
<1> QED BY <1>3, <1>4, <1>5, <1>6 DEF Line

\* The first of c moves to the end of b, or is gone.
LEMMA LineMove ==
    ASSUME NEW a \in Seq(Frames), NEW b \in Seq(Frames), NEW c \in Seq(Frames), c # << >>,
           NEW n \in Nat, NEW s, Line(a, b, c, n, s)
    PROVE  Line(a, Append(b, Head(c)), Tail(c), n, s) /\ Line(a, b, Tail(c), n, s)
<1>1. /\ \A i \in DOMAIN Append(b, Head(c)) :
           \/ i \in DOMAIN b /\ Append(b, Head(c))[i] = b[i]
           \/ i = Len(b) + 1 /\ Append(b, Head(c))[i] = c[1]
      /\ DOMAIN b = 1..Len(b) /\ Len(b) \in Nat /\ 1 \in DOMAIN c
  BY AppendTypes, TailTypes
<1>2. \A i \in DOMAIN Tail(c) : /\ Tail(c)[i] = c[i + 1] /\ i + 1 \in DOMAIN c
                                /\ 1 < i + 1 /\ i \in Int
  BY TailTypes
<1>3. Rising(Tail(c), s)
  <2> SUFFICES ASSUME NEW i \in DOMAIN Tail(c), NEW j \in DOMAIN Tail(c), i < j,
                      IsOut(Tail(c)[i], s), IsOut(Tail(c)[j], s)
               PROVE  Tail(c)[i].n < Tail(c)[j].n
    BY DEF Rising
  <2>1. i + 1 < j + 1
    BY <1>2
  <2> QED BY <1>2, <2>1 DEF Line, Rising
<1>4. Before(a, Tail(c), s) /\ Before(b, Tail(c), s) /\ Below(Tail(c), n, s)
  BY <1>2 DEF Line, Before, Below
<1>5. Rising(Append(b, Head(c)), s)
  <2> SUFFICES ASSUME NEW i \in DOMAIN Append(b, Head(c)), NEW j \in DOMAIN Append(b, Head(c)), i < j,
                      IsOut(Append(b, Head(c))[i], s), IsOut(Append(b, Head(c))[j], s)
               PROVE  Append(b, Head(c))[i].n < Append(b, Head(c))[j].n
    BY DEF Rising
  <2>1. i \in DOMAIN b /\ Append(b, Head(c))[i] = b[i]
    BY <1>1, AppendTypes, TailTypes
  <2>2. CASE j \in DOMAIN b /\ Append(b, Head(c))[j] = b[j]
    BY <2>1, <2>2 DEF Line, Rising
  <2>3. CASE Append(b, Head(c))[j] = c[1]
    BY <1>1, <2>1, <2>3 DEF Line, Before
  <2> QED BY <1>1, <2>2, <2>3
<1>6. Before(a, Append(b, Head(c)), s) /\ Below(Append(b, Head(c)), n, s)
  BY <1>1 DEF Line, Before, Below
<1>7. Before(Append(b, Head(c)), Tail(c), s)
  <2> SUFFICES ASSUME NEW i \in DOMAIN Append(b, Head(c)), NEW j \in DOMAIN Tail(c),
                      IsOut(Append(b, Head(c))[i], s), IsOut(Tail(c)[j], s)
               PROVE  Append(b, Head(c))[i].n < Tail(c)[j].n
    BY DEF Before
  <2>1. CASE i \in DOMAIN b /\ Append(b, Head(c))[i] = b[i]
    BY <1>2, <2>1 DEF Line, Before
  <2>2. CASE Append(b, Head(c))[i] = c[1]
    BY <1>1, <1>2, <2>2 DEF Line, Rising
  <2> QED BY <1>1, <2>1, <2>2
<1> QED BY <1>3, <1>4, <1>5, <1>6, <1>7 DEF Line

\* The first of b moves to the end of a, or is gone.
LEMMA LineShow ==
    ASSUME NEW a \in Seq(Frames), NEW b \in Seq(Frames), NEW c \in Seq(Frames), b # << >>,
           NEW n \in Nat, NEW s, Line(a, b, c, n, s)
    PROVE  Line(Append(a, Head(b)), Tail(b), c, n, s) /\ Line(a, Tail(b), c, n, s)
<1>1. \A x \in Seq(Frames) : Rising(x, s) /\ Before(a, x, s) /\ Before(b, x, s) /\ Below(x, n, s)
        => Before(Append(a, Head(b)), x, s) /\ Before(Tail(b), x, s)
  <2> SUFFICES ASSUME NEW x \in Seq(Frames), Before(a, x, s), Before(b, x, s)
               PROVE  Before(Append(a, Head(b)), x, s) /\ Before(Tail(b), x, s)
    OBVIOUS
  <2>1. \A i \in DOMAIN Append(a, Head(b)) :
           \/ i \in DOMAIN a /\ Append(a, Head(b))[i] = a[i]
           \/ 1 \in DOMAIN b /\ Append(a, Head(b))[i] = b[1]
    BY AppendTypes, TailTypes
  <2>2. \A i \in DOMAIN Tail(b) : Tail(b)[i] = b[i + 1] /\ i + 1 \in DOMAIN b
    BY TailTypes
  <2> QED BY <2>1, <2>2 DEF Before
<1>2. Line(a, b, << >>, n, s) /\ << >> \in Seq(Frames)
  BY DEF Line, Rising, Before, Below
<1>3. Line(<< >>, a, b, n, s)
  BY DEF Line, Rising, Before, Below
<1>4. Line(<< >>, Append(a, Head(b)), Tail(b), n, s) /\ Line(<< >>, a, Tail(b), n, s)
  BY <1>2, <1>3, LineMove
<1>5. Before(Append(a, Head(b)), c, s) /\ Before(Tail(b), c, s)
  BY <1>1 DEF Line
<1> QED BY <1>4, <1>5 DEF Line

LEMMA BoundNat == TypeInv => \A s \in Sess : Bound(s) \in Nat
  BY DEF TypeInv, AgentInv, Bound

LEMMA LineGrows ==
    ASSUME NEW a \in Seq(Frames), NEW b \in Seq(Frames), NEW c \in Seq(Frames),
           NEW n \in Nat, NEW m \in Nat, NEW s, Line(a, b, c, n, s), n <= m
    PROVE  Line(a, b, c, m, s)
<1>1. \A q \in Seq(Frames) : Below(q, n, s) => Below(q, m, s)
  <2>1. \A q \in Seq(Frames) : \A i \in DOMAIN q : q[i].n \in Nat
    <3>1. \A q \in Seq(Frames) : \A i \in DOMAIN q : q[i] \in Frames
      OBVIOUS
    <3> QED BY <3>1 DEF Frames
  <2> QED BY <2>1 DEF Below
<1> QED BY <1>1 DEF Line

\* Something that is not output of k comes into the channel.
LEMMA LineSkip ==
    ASSUME NEW a \in Seq(Frames), NEW b \in Seq(Frames), NEW c \in Seq(Frames),
           NEW n \in Nat, NEW k, NEW x \in Frames, Line(a, b, c, n, k), ~IsOut(x, k)
    PROVE  Line(a, Append(b, x), c, n, k)
<1>1. Line(a, << >>, b, n, k) /\ << >> \in Seq(Frames)
  BY DEF Line, Rising, Before, Below
<1>2. Line(a, << >>, Append(b, x), n, k)
  <2>1. n <= n
    OBVIOUS
  <2> QED BY <1>1, <2>1, LineAppend
<1>3. Before(Append(b, x), c, k)
  <2>1. \A i \in DOMAIN Append(b, x) : \/ i \in DOMAIN b /\ Append(b, x)[i] = b[i]
                                       \/ Append(b, x)[i] = x
    BY AppendTypes
  <2> QED BY <2>1 DEF Line, Before
<1> QED BY <1>2, <1>3 DEF Line

LEMMA LineClear ==
    ASSUME NEW a, NEW b, NEW c, NEW n, NEW k, Line(a, b, c, n, k)
    PROVE  Line(a, b, << >>, n, k)
  BY DEF Line, Rising, Before, Below

LEMMA OutputTypes ==
    ASSUME TypeInv
    PROVE  /\ \A s \in Sess : shown[s] \in Seq(Frames) /\ out[s] \in Seq(Frames)
           /\ \A t \in Streams : up[t] \in Seq(Frames)
           /\ bound \in Streams /\ bound \in Nat
<1>1. bound \in Streams /\ bound \in Nat
  BY DEF TypeInv, LinkInv, Streams
<1> QED BY <1>1 DEF TypeInv, WsInv, FrameInv

\* No output moves, except that streams lose theirs, and the shells' counters
\* do not go back.
LEMMA OrderStays ==
    ASSUME TypeInv, TypeInv', OrderInv, UNCHANGED <<shown, out>>, bound <= bound',
           \A t \in Streams : up'[t] = up[t] \/ up'[t] = << >>,
           \A s \in Sess : Bound(s)' \in Nat /\ Bound(s) <= Bound(s)'
    PROVE  OrderInv'
<1>1. Lines'
  <2> SUFFICES ASSUME NEW s \in Sess, NEW t \in Streams
               PROVE  Line(shown[s], out[s], up'[t], Bound(s)', <<s, t>>)
    BY DEF Lines
  <2>1. Line(shown[s], out[s], up[t], Bound(s), <<s, t>>)
    BY DEF OrderInv, Lines
  <2>2. Line(shown[s], out[s], up[t], Bound(s)', <<s, t>>)
    BY <2>1, OutputTypes, BoundNat, LineGrows
  <2> QED BY <2>2, LineClear
<1>2. Sorted'
  BY DEF OrderInv, Sorted
<1>3. \A s \in Sess : Held(s)' \subseteq Held(s)
  BY DEF Held, In
<1>4. Epochs'
  BY <1>3, BoundNat, EpochStep DEF OrderInv
<1> QED BY <1>1, <1>2, <1>4 DEF OrderInv

\* A frame goes up: no output, or the next piece of it.
LEMMA SendUpOrder ==
    ASSUME TypeInv, TypeInv', OrderInv, NEW f \in Frames, NEW e, SendUp(f, e),
           UNCHANGED <<shown, out, bound>>,
           \A s \in Sess : /\ Bound(s)' \in Nat /\ Bound(s) <= Bound(s)'
                           /\ f.kind = "out" /\ f.sess = s => f.n = Bound(s) /\ Bound(s) < Bound(s)'
    PROVE  OrderInv'
<1> DEFINE x == Tagged(f)
<1>0. bound \in Streams /\ bound \in Nat /\ up \in [Streams -> Seq(Frames)]
  BY OutputTypes DEF TypeInv, FrameInv
<1>1. x \in Frames /\ x.kind = f.kind /\ x.sess = f.sess /\ x.n = f.n /\ x.via = bound
  <2>1. x \in Frames
    BY SendUpTypes
  <2> QED BY <2>1 DEF Tagged, Frames
<1>2. up' = up \/ up' = [up EXCEPT ![bound] = Append(up[bound], x)]
  BY <1>0 DEF SendUp, Tagged
<1> HIDE DEF x
<1>3. CASE up' = up
  <2>1. \A t \in Streams : up'[t] = up[t]
    BY <1>3
  <2> QED BY <1>0, <2>1, OrderStays
<1>4. CASE up' = [up EXCEPT ![bound] = Append(up[bound], x)]
  <2>1. up'[bound] = Append(up[bound], x) /\ \A t \in Streams : t # bound => up'[t] = up[t]
    BY <1>0, <1>4
  <2>2. \A i \in DOMAIN up'[bound] : \/ i \in DOMAIN up[bound] /\ up'[bound][i] = up[bound][i]
                                     \/ up'[bound][i] = x
    BY <1>0, <1>1, <2>1, OutputTypes, AppendTypes
  <2>3. Sorted'
    BY <1>0, <1>1, <2>1, <2>2 DEF OrderInv, Sorted
  <2>4. Lines'
    <3> SUFFICES ASSUME NEW s \in Sess, NEW t \in Streams
                 PROVE  Line(shown[s], out[s], up'[t], Bound(s)', <<s, t>>)
      BY DEF Lines
    <3>1. Line(shown[s], out[s], up[t], Bound(s), <<s, t>>)
      BY DEF OrderInv, Lines
    <3>2. IsOut(x, <<s, t>>) => x.n = Bound(s) /\ Bound(s) < Bound(s)'
      BY <1>1 DEF IsOut
    <3>5. /\ shown[s] \in Seq(Frames) /\ out[s] \in Seq(Frames) /\ up[t] \in Seq(Frames)
          /\ Bound(s) \in Nat /\ Bound(s)' \in Nat /\ Bound(s) <= Bound(s)'
      BY OutputTypes, BoundNat
    <3>6. Line(shown[s], out[s], Append(up[t], x), Bound(s)', <<s, t>>)
      BY <1>1, <3>1, <3>2, <3>5, LineAppend
    <3>3. CASE t = bound
      BY <2>1, <3>3, <3>6
    <3>4. CASE t # bound
      BY <2>1, <3>1, <3>4, OutputTypes, BoundNat, LineGrows
    <3> QED BY <3>3, <3>4
  <2>5. \A s \in Sess : \A g \in Held(s)' :
          g \in Held(s) \/ (g.via = bound /\ g.n = Bound(s) /\ Bound(s) < Bound(s)')
    <3> SUFFICES ASSUME NEW s \in Sess, NEW g \in Held(s)', g \notin Held(s)
                 PROVE  g.via = bound /\ g.n = Bound(s) /\ Bound(s) < Bound(s)'
      OBVIOUS
    <3>1. /\ g \in Frames /\ g.kind = "out" /\ g.sess = s
          /\ ~In(g, shown[s]) /\ ~In(g, out[s]) /\ \A t \in Streams : ~In(g, up[t])
          /\ In(g, shown[s]) \/ In(g, out[s]) \/ \E t \in Streams : In(g, up'[t])
      BY DEF Held
    <3>2. g = x
      BY <1>0, <2>1, <2>2, <3>1 DEF In
    <3> QED BY <1>1, <3>1, <3>2
  <2>6. Epochs'
    BY <1>0, <2>5, BoundNat, EpochStep DEF OrderInv
  <2> QED BY <2>3, <2>4, <2>6 DEF OrderInv
<1> QED BY <1>2, <1>3, <1>4

LEMMA DeliverOrder ==
    ASSUME TypeInv, TypeInv', OrderInv, NEW t \in Streams, Deliver(t)
    PROVE  OrderInv'
<1>0. up[t] \in Seq(Frames) /\ up[t] # << >> /\ \A s \in Sess : shown[s] \in Seq(Frames) /\ out[s] \in Seq(Frames)
  BY OutputTypes DEF Deliver
<1> DEFINE f == Head(up[t])
<1>1. f \in Frames /\ f.sess \in Sess /\ f.via = t /\ In(f, up[t])
  <2>1. f \in Frames /\ f = up[t][1] /\ 1 \in DOMAIN up[t]
    BY <1>0, TailTypes
  <2> QED BY <2>1 DEF Frames, OrderInv, Sorted, In
<1>2. /\ UNCHANGED <<shown, bound, pump, printed>>
      /\ up' = [up EXCEPT ![t] = Tail(@)]
      /\ out' = out \/ out' = [out EXCEPT ![f.sess] = Append(@, f)]
  BY DEF Deliver, agentVars, linkVars
<1>9. f = Head(up[t])
  OBVIOUS
<1> HIDE DEF f
<1>3. \A s \in Sess : Bound(s)' = Bound(s)
  BY <1>2 DEF Bound
<1>4. up'[t] = Tail(up[t]) /\ \A u \in Streams : u # t => up'[u] = up[u]
  BY <1>2 DEF TypeInv, FrameInv
<1>5. \A s \in Sess : out'[s] = out[s] \/ (s = f.sess /\ out'[s] = Append(out[s], f))
  <2>1. PICK x \in Sess : x = f.sess
    BY <1>1
  <2>2. out \in [Sess -> Seq(Frames)]
    BY DEF TypeInv, WsInv
  <2>3. PICK q \in Seq(Frames) : q = Append(out[x], f)
    BY <1>0, <1>1, AppendTypes
  <2>4. out' = out \/ out' = [out EXCEPT ![x] = q]
    BY <1>2, <2>1, <2>3
  <2>5. \A s \in Sess : out'[s] = out[s] \/ (s = x /\ out'[s] = q)
    BY <2>2, <2>4
  <2> QED BY <2>1, <2>3, <2>5
<1>6. \A s \in Sess : \A i \in DOMAIN out'[s] :
        \/ i \in DOMAIN out[s] /\ out'[s][i] = out[s][i]
        \/ s = f.sess /\ out'[s][i] = f
  <2> SUFFICES ASSUME NEW s \in Sess, NEW i \in DOMAIN out'[s]
               PROVE  \/ i \in DOMAIN out[s] /\ out'[s][i] = out[s][i]
                      \/ s = f.sess /\ out'[s][i] = f
    OBVIOUS
  <2>1. CASE out'[s] = out[s]
    BY <2>1
  <2>2. CASE s = f.sess /\ out'[s] = Append(out[s], f)
    BY <1>0, <1>1, <2>2, AppendTypes
  <2> QED BY <1>5, <2>1, <2>2
<1>7. \A u \in Streams : \A i \in DOMAIN up'[u] : \E j \in DOMAIN up[u] : up'[u][i] = up[u][j]
  <2>1. \A i \in DOMAIN Tail(up[t]) : Tail(up[t])[i] = up[t][i + 1] /\ i + 1 \in DOMAIN up[t]
    BY <1>0, TailTypes
  <2> QED BY <1>4, <2>1
<1>8. Sorted'
  BY <1>2, <1>6, <1>7 DEF OrderInv, Sorted
<1>10. Lines'
  <2> SUFFICES ASSUME NEW s \in Sess, NEW u \in Streams
               PROVE  Line(shown[s], out'[s], up'[u], Bound(s), <<s, u>>)
    BY <1>2, <1>3 DEF Lines
  <2>1. /\ Line(shown[s], out[s], up[u], Bound(s), <<s, u>>) /\ Bound(s) \in Nat
        /\ up[u] \in Seq(Frames)
    BY OutputTypes, BoundNat DEF OrderInv, Lines
  <2>2. CASE u = t
    <3>1. /\ Line(shown[s], Append(out[s], Head(up[t])), Tail(up[t]), Bound(s), <<s, t>>)
          /\ Line(shown[s], out[s], Tail(up[t]), Bound(s), <<s, t>>)
      BY <1>0, <2>1, <2>2, LineMove
    <3> QED BY <1>4, <1>5, <1>9, <2>2, <3>1
  <2>3. CASE u # t
    <3>1. ~IsOut(f, <<s, u>>)
      BY <1>1, <2>3 DEF IsOut
    <3>2. Line(shown[s], Append(out[s], f), up[u], Bound(s), <<s, u>>)
      BY <1>0, <1>1, <2>1, <3>1, LineSkip
    <3> QED BY <1>4, <1>5, <2>1, <2>3, <3>2
  <2> QED BY <2>2, <2>3
<1>11. \A s \in Sess : Held(s)' \subseteq Held(s)
  <2> SUFFICES ASSUME NEW s \in Sess, NEW g \in Held(s)' PROVE g \in Held(s)
    OBVIOUS
  <2>1. /\ g \in Frames /\ g.kind = "out" /\ g.sess = s
        /\ In(g, shown[s]) \/ In(g, out'[s]) \/ \E u \in Streams : In(g, up'[u])
    BY <1>2 DEF Held
  <2>2. In(g, out'[s]) => In(g, out[s]) \/ In(g, up[t])
    BY <1>1, <1>6 DEF In
  <2>3. \A u \in Streams : In(g, up'[u]) => In(g, up[u])
    BY <1>7 DEF In
  <2> QED BY <2>1, <2>2, <2>3 DEF Held
<1>12. Epochs'
  <2>1. bound <= bound'
    BY <1>2, OutputTypes
  <2> QED BY <1>3, <1>11, <2>1, BoundNat, EpochStep DEF OrderInv
<1> QED BY <1>8, <1>10, <1>12 DEF OrderInv

LEMMA ShowOrder ==
    ASSUME TypeInv, TypeInv', OrderInv, NEW s \in Sess, Show(s)
    PROVE  OrderInv'
<1>0. /\ out[s] \in Seq(Frames) /\ out[s] # << >>
      /\ \A x \in Sess : shown[x] \in Seq(Frames) /\ out[x] \in Seq(Frames)
      /\ \A t \in Streams : up[t] \in Seq(Frames)
  BY OutputTypes DEF Show
<1> DEFINE f == Head(out[s])
<1>1. f \in Frames /\ f.sess = s /\ In(f, out[s])
  <2>1. f \in Frames /\ f = out[s][1] /\ 1 \in DOMAIN out[s]
    BY <1>0, TailTypes
  <2> QED BY <2>1 DEF OrderInv, Sorted, In
<1>2. /\ UNCHANGED <<up, bound, pump, printed>>
      /\ out' = [out EXCEPT ![s] = Tail(@)]
      /\ shown' = shown \/ (f.kind = "out" /\ shown' = [shown EXCEPT ![s] = Append(@, f)])
  BY DEF Show, linkVars, agentVars
<1>3. \A x \in Sess : Bound(x)' = Bound(x)
  BY <1>2 DEF Bound
<1>4. out'[s] = Tail(out[s]) /\ \A x \in Sess : x # s => out'[x] = out[x] /\ shown'[x] = shown[x]
  BY <1>2 DEF TypeInv, WsInv
<1>5. shown'[s] = shown[s] \/ (f.kind = "out" /\ shown'[s] = Append(shown[s], f))
  BY <1>2 DEF TypeInv, WsInv
<1>6. \A x \in Sess : \A i \in DOMAIN shown'[x] :
        \/ i \in DOMAIN shown[x] /\ shown'[x][i] = shown[x][i]
        \/ x = s /\ f.kind = "out" /\ shown'[x][i] = f
  <2>1. \A j \in DOMAIN Append(shown[s], f) :
          \/ j \in DOMAIN shown[s] /\ Append(shown[s], f)[j] = shown[s][j]
          \/ Append(shown[s], f)[j] = f
    BY <1>0, <1>1, AppendTypes
  <2> QED BY <1>4, <1>5, <2>1
<1>7. \A x \in Sess : \A i \in DOMAIN out'[x] : \E j \in DOMAIN out[x] : out'[x][i] = out[x][j]
  <2>1. \A i \in DOMAIN Tail(out[s]) : Tail(out[s])[i] = out[s][i + 1] /\ i + 1 \in DOMAIN out[s]
    BY <1>0, TailTypes
  <2> QED BY <1>4, <2>1
<1>8. Sorted'
  BY <1>1, <1>2, <1>6, <1>7 DEF OrderInv, Sorted
<1>9. Lines'
  <2> SUFFICES ASSUME NEW x \in Sess, NEW t \in Streams
               PROVE  Line(shown'[x], out'[x], up[t], Bound(x), <<x, t>>)
    BY <1>2, <1>3 DEF Lines
  <2>1. Line(shown[x], out[x], up[t], Bound(x), <<x, t>>) /\ Bound(x) \in Nat
    BY BoundNat DEF OrderInv, Lines
  <2>2. CASE x # s
    BY <1>4, <2>1, <2>2
  <2>3. CASE x = s
    <3>1. /\ Line(Append(shown[s], f), Tail(out[s]), up[t], Bound(s), <<s, t>>)
          /\ Line(shown[s], Tail(out[s]), up[t], Bound(s), <<s, t>>)
      BY <1>0, <2>1, <2>3, LineShow
    <3> QED BY <1>4, <1>5, <2>3, <3>1
  <2> QED BY <2>2, <2>3
<1>10. \A x \in Sess : Held(x)' \subseteq Held(x)
  <2> SUFFICES ASSUME NEW x \in Sess, NEW g \in Held(x)' PROVE g \in Held(x)
    OBVIOUS
  <2>1. /\ g \in Frames /\ g.kind = "out" /\ g.sess = x
        /\ In(g, shown'[x]) \/ In(g, out'[x]) \/ \E t \in Streams : In(g, up[t])
    BY <1>2 DEF Held
  <2>2. In(g, shown'[x]) => In(g, shown[x]) \/ In(g, out[x])
    BY <1>1, <1>6 DEF In
  <2>3. In(g, out'[x]) => In(g, out[x])
    BY <1>7 DEF In
  <2> QED BY <2>1, <2>2, <2>3 DEF Held
<1>11. Epochs'
  <2>1. bound <= bound'
    BY <1>2, OutputTypes
  <2> QED BY <1>3, <1>10, <2>1, BoundNat, EpochStep DEF OrderInv
<1> QED BY <1>8, <1>9, <1>11 DEF OrderInv

LEMMA OrderStep == TypeInv /\ TypeInv' /\ OrderInv /\ [Next]_vars => OrderInv'
<1> SUFFICES ASSUME TypeInv, TypeInv', OrderInv, [Next]_vars PROVE OrderInv'
  OBVIOUS
<1>12. bound \in Nat
  BY OutputTypes
<1>0. pump \in [Sess -> {"none", "reading", "sending", "closing", "returned"}] /\ printed \in [Sess -> Nat]
  BY DEF TypeInv, AgentInv
<1>1. ASSUME NEW s \in Sess, Show(s) PROVE OrderInv'
  BY <1>1, ShowOrder
<1>2. ASSUME NEW t \in Streams, Deliver(t) PROVE OrderInv'
  BY <1>2, DeliverOrder
<1>3. ASSUME NEW f \in handling, SpawnFails(f) PROVE OrderInv'
  <2>1. Frame(f.sess, "end", 0) \in Frames /\ Frame(f.sess, "end", 0).kind # "out"
    BY FrameTypes DEF Frame
  <2>2. UNCHANGED <<shown, out, bound, pump, printed>>
    BY <1>3 DEF SpawnFails, wsVars, linkVars
  <2>3. \A s \in Sess : Bound(s)' \in Nat /\ Bound(s) <= Bound(s)'
    BY <1>0, <2>2 DEF Bound
  <2> QED BY <1>3, <2>1, <2>2, <2>3, SendUpOrder DEF SpawnFails
<1>4. ASSUME NEW s \in Sess, SendOutput(s) PROVE OrderInv'
  <2> DEFINE f == Frame(s, "out", printed[s])
  <2>1. f \in Frames /\ f.n = printed[s] /\ f.sess = s
    BY FrameTypes DEF Frame
  <2>2. UNCHANGED <<shown, out, bound, printed>> /\ pump[s] = "sending"
    BY <1>4 DEF SendOutput, wsVars, linkVars
  <2>3. pump'[s] # "sending" /\ \A x \in Sess : x # s => pump'[x] = pump[x]
    BY <1>0, <1>4 DEF SendOutput
  <2>4. \A x \in Sess : /\ Bound(x)' \in Nat /\ Bound(x) <= Bound(x)'
                        /\ x = s => printed[s] = Bound(x) /\ Bound(x) < Bound(x)'
    BY <1>0, <2>2, <2>3 DEF Bound
  <2> HIDE DEF f
  <2>5. PICK e \in BOOLEAN : SendUp(f, e)
    BY <1>4 DEF SendOutput, f
  <2> QED BY <2>1, <2>2, <2>4, <2>5, SendUpOrder
<1>5. ASSUME NEW s \in Sess, EndSession(s) PROVE OrderInv'
  <2>1. Frame(s, "end", 0) \in Frames /\ Frame(s, "end", 0).kind # "out"
    BY FrameTypes DEF Frame
  <2>2. UNCHANGED <<shown, out, bound, printed>> /\ pump[s] = "closing"
    BY <1>5 DEF EndSession, wsVars, linkVars
  <2>3. pump' = [pump EXCEPT ![s] = "returned"]
    BY <1>5 DEF EndSession
  <2>4. \A x \in Sess : Bound(x)' \in Nat /\ Bound(x) <= Bound(x)'
    BY <1>0, <2>2, <2>3 DEF Bound
  <2> QED BY <1>5, <2>1, <2>2, <2>4, SendUpOrder DEF EndSession
<1>6. ASSUME NEW s \in Sess, ReadPty(s) \/ ReadEof(s) PROVE OrderInv'
  <2>1. UNCHANGED <<shown, out, up, bound>>
    BY <1>6 DEF ReadPty, ReadEof, wsVars, linkVars
  <2>2. \A x \in Sess : Bound(x)' \in Nat /\ Bound(x) <= Bound(x)'
    <3>1. CASE ReadPty(s)
      BY <1>0, <3>1 DEF ReadPty, Bound
    <3>2. CASE ReadEof(s)
      BY <1>0, <3>2 DEF ReadEof, Bound
    <3> QED BY <1>6, <3>1, <3>2
  <2> QED BY <1>12, <2>1, <2>2, OrderStays
<1>7. ASSUME NEW f \in handling, Register(f) PROVE OrderInv'
  <2>1. UNCHANGED <<shown, out, up, bound, printed>> /\ pump' = [pump EXCEPT ![f.sess] = "reading"]
    BY <1>7 DEF Register, wsVars, linkVars
  <2>2. \A x \in Sess : Bound(x)' \in Nat /\ Bound(x) <= Bound(x)'
    BY <1>0, <2>1 DEF Bound
  <2> QED BY <1>12, <2>1, <2>2, OrderStays
<1>8. ASSUME NEW t \in Streams, Break \/ Notice(t) \/ Rebind PROVE OrderInv'
  <2>1. UNCHANGED <<shown, out, pump, printed>>
    BY <1>8 DEF Break, Notice, Rebind, wsVars, agentVars
  <2>2. \A x \in Sess : Bound(x)' \in Nat /\ Bound(x) <= Bound(x)'
    BY <1>0, <2>1 DEF Bound
  <2>3. bound <= bound'
    BY <1>8 DEF Break, Notice, Rebind, TypeInv, LinkInv, Streams
  <2>4. \A u \in Streams : up'[u] = up[u] \/ up'[u] = << >>
    BY <1>8 DEF Break, Notice, Rebind, TypeInv, FrameInv, LinkInv
  <2> QED BY <2>1, <2>2, <2>3, <2>4, OrderStays
<1>9. CASE UNCHANGED <<shown, out, up, bound, pump, printed>>
  <2>1. \A x \in Sess : Bound(x)' \in Nat /\ Bound(x) <= Bound(x)'
    BY <1>0, <1>9 DEF Bound
  <2> QED BY <1>9, <1>12, <2>1, OrderStays
<1>10. \/ \E s \in Sess : Show(s) \/ SendOutput(s) \/ EndSession(s) \/ ReadPty(s) \/ ReadEof(s)
       \/ \E t \in Streams : Deliver(t) \/ Notice(t)
       \/ \E f \in handling : SpawnFails(f) \/ Register(f)
       \/ Break \/ Rebind
       \/ UNCHANGED <<shown, out, up, bound, pump, printed>>
  BY DEF Next, vars, wsVars, linkVars, agentVars, Browser, HandlerStep, ReaderStep, Connect, Type,
         BrowserLeaves, SendOpen, SendClose, Reconnect, Attach, RecvFrame, Handle, Spawn, Write, Close, ShellExits, PumpStep
<1>11. 1 \in Streams
  BY TerminalAssumption DEF Streams
<1> QED BY <1>1, <1>2, <1>3, <1>4, <1>5, <1>6, <1>7, <1>8, <1>9, <1>10, <1>11

\* The browser gets no piece of output twice, and what came over one stream
\* in the order in which the shell printed it, whatever is dropped between and
\* however streams break and replace each other.
THEOREM OutputKeepsOrder == Spec => []OutputInOrder
<1>1. TypeInv /\ OrderInv => OutputInOrder
  <2> SUFFICES ASSUME TypeInv, OrderInv, NEW s \in Sess, NEW i \in DOMAIN shown[s],
                      NEW j \in DOMAIN shown[s], i < j
               PROVE  \/ shown[s][i].n < shown[s][j].n
                      \/ shown[s][j].n < shown[s][i].n /\ shown[s][j].via < shown[s][i].via
    BY DEF OutputInOrder
  <2> DEFINE a == shown[s][i]
             b == shown[s][j]
  <2>1. /\ a \in Held(s) /\ b \in Held(s) /\ a.kind = "out" /\ b.kind = "out"
        /\ a.sess = s /\ b.sess = s
    <3>1. a \in Frames /\ b \in Frames
      <4>1. \A q \in Seq(Frames) : \A k \in DOMAIN q : q[k] \in Frames
        OBVIOUS
      <4> QED BY <4>1, OutputTypes
    <3> QED BY <3>1 DEF Held, In, OrderInv, Sorted
  <2>2. a.n \in Nat /\ b.n \in Nat /\ a.via \in Nat /\ b.via \in Nat
    BY <2>1, HeldFrames
  <2>3. /\ a.via < b.via => a.n < b.n
        /\ b.via < a.via => b.n < a.n
    BY <2>1 DEF OrderInv, Epochs
  <2>4. ASSUME a.via = b.via PROVE a.n < b.n
    <3>1. a.via \in Streams
      <4>1. a.via \in 1..bound /\ bound \in Streams
        BY <2>1, OutputTypes DEF OrderInv, Epochs
      <4> QED BY <4>1, TerminalAssumption DEF Streams
    <3>2. Rising(shown[s], <<s, a.via>>)
      BY <3>1 DEF OrderInv, Lines, Line
    <3> QED BY <2>1, <2>4, <3>2 DEF Rising, IsOut
  <2> HIDE DEF a, b
  <2>5. a.n < b.n \/ (b.n < a.n /\ b.via < a.via)
    BY <2>2, <2>3, <2>4
  <2> QED BY <2>5 DEF a, b
<1> QED BY <1>1, OrderInit, OrderStep, TypesHold, PTL DEF Spec

=============================================================================
