---------------------------- MODULE TunnelProofs ----------------------------
(***************************************************************************)
(* Proofs about Tunnel, for any streams, sessions and capacities: its      *)
(* types, the registers, and the order of a session's bytes both ways.     *)
(***************************************************************************)
EXTENDS Tunnel, TLAPS

-----------------------------------------------------------------------------
(* The registers.                                                           *)

\* The users whose sessions may be in a map.
Owners == {"registered", "opening", "open", "eof", "failing"}

\* What RegistersAreTrue needs: the domains, NewestServes, RegisteredIsLive, and
\* that a session
\* leaves its map before its user leaves it.
RegInv ==
    /\ tunnel \in [Streams -> Phases]
    /\ DOMAIN proxy = Sess
    /\ newest \in Streams \cup {None} /\ current \in Streams \cup {None}
    /\ reg \subseteq Sess
    /\ NewestServes /\ RegisteredIsLive
    /\ \A s \in reg : proxy[s] \in Owners

LEMMA RegInit == Init => RegInv
  BY DEF Init, RegInv, NewestServes, RegisteredIsLive, Phases

\* The steps of a handler: only RegisterTunnel opens a tunnel, and Sweep takes
\* none out but its own.
LEMMA HandlerRegs ==
    ASSUME RegInv, NEW t \in Streams, HandlerStep(t)
    PROVE  RegInv'
<1> USE DEF RegInv, Phases
<1>1. ASSUME TakeTunnelsMu(t) PROVE RegInv'
  BY <1>1 DEF TakeTunnelsMu, Moves, proxyVars, NewestServes, RegisteredIsLive
<1>2. ASSUME RegisterTunnel(t) PROVE RegInv'
  <2>1. reg' \subseteq reg
    BY <1>2 DEF RegisterTunnel, CloseAll
  <2>2. UNCHANGED <<proxy, newest>> /\ current' = t /\ tunnel' = [tunnel EXCEPT ![t] = "open"]
    BY <1>2 DEF RegisterTunnel, Moves, proxyVars
  <2>3. overtaken' = IF current = newest /\ t # newest
                     THEN overtaken \cup ({newest} \ {None}) ELSE overtaken
    BY <1>2 DEF RegisterTunnel
  <2>4. NewestServes'
    <3>1. CASE newest = t
      BY <2>2, <3>1 DEF NewestServes
    <3>2. CASE newest # t
      BY <2>2, <2>3, <3>2 DEF NewestServes
    <3> QED BY <3>1, <3>2
  <2>5. RegisteredIsLive'
    BY <2>2 DEF RegisteredIsLive
  <2> QED BY <2>1, <2>2, <2>4, <2>5
<1>3. ASSUME Deliver(t) PROVE RegInv'
  BY <1>3 DEF Deliver, proxyVars, NewestServes, RegisteredIsLive
<1>4. ASSUME RecvFails(t) PROVE RegInv'
  BY <1>4 DEF RecvFails, Moves, proxyVars, NewestServes, RegisteredIsLive
<1>5. ASSUME Sweep(t) PROVE RegInv'
  BY <1>5 DEF Sweep, Moves, proxyVars, NewestServes, RegisteredIsLive
<1>6. ASSUME Finish(t) PROVE RegInv'
  BY <1>6 DEF Finish, CloseAll, Moves, proxyVars, NewestServes, RegisteredIsLive
<1> QED BY <1>1, <1>2, <1>3, <1>4, <1>5, <1>6 DEF HandlerStep

\* A frame was sent or not: the user that waits for it goes on.
LEMMA SendRegs ==
    ASSUME RegInv, NEW t \in Streams, SendStep(t)
    PROVE  RegInv'
<1>1. ASSUME NEW f, NEW phase \in {"open", "failing"}, AfterSend(f, phase)
      PROVE  DOMAIN proxy' = Sess /\ \A s \in reg : proxy'[s] \in Owners
  BY <1>1 DEF AfterSend, RegInv, Owners
<1>2. DOMAIN proxy' = Sess /\ \A s \in reg : proxy'[s] \in Owners
  BY <1>1 DEF SendStep, SendReturns, SendFails
<1>3. UNCHANGED <<tunnel, current, newest, overtaken, reg>>
  BY DEF SendStep, SendReturns, SendFails, serverVars
<1> QED BY <1>2, <1>3 DEF RegInv, NewestServes, RegisteredIsLive

\* The steps of a session's user.
LEMMA UserRegs ==
    ASSUME RegInv, NEW s \in Sess,
           OpenStep(s) \/ ReadStep(s) \/ LookUp(s) \/ Write(s) \/ HangUp(s)
    PROVE  RegInv'
<1> USE DEF RegInv, Owners
<1>1. ASSUME NEW phase, RemoveSession(s, phase) PROVE RegInv'
  BY <1>1 DEF RemoveSession, Becomes, NewestServes, RegisteredIsLive
<1>2. ASSUME RegisterSession(s) PROVE RegInv'
  BY <1>2 DEF RegisterSession, Becomes, NewestServes, RegisteredIsLive
<1>3. ASSUME SendOpen(s) PROVE RegInv'
  BY <1>3 DEF SendOpen, Becomes, serverVars, NewestServes, RegisteredIsLive
<1>4. ASSUME SendClose(s) PROVE RegInv'
  BY <1>4 DEF SendClose, Becomes, serverVars, NewestServes, RegisteredIsLive
<1>5. ASSUME PumpTakes(s) PROVE RegInv'
  BY <1>5 DEF PumpTakes, proxyVars, NewestServes, RegisteredIsLive
<1>6. ASSUME PumpPuts(s) PROVE RegInv'
  BY <1>6 DEF PumpPuts, proxyVars, serverVars, NewestServes, RegisteredIsLive
<1>7. ASSUME Read(s) PROVE RegInv'
  BY <1>7 DEF Read, serverVars, NewestServes, RegisteredIsLive
<1>8. ASSUME ReadEof(s) PROVE RegInv'
  BY <1>8 DEF ReadEof, Becomes, serverVars, NewestServes, RegisteredIsLive
<1>9. ASSUME LookUp(s) PROVE RegInv'
  BY <1>9 DEF LookUp, Becomes, serverVars, NewestServes, RegisteredIsLive
<1>10. ASSUME Write(s) PROVE RegInv'
  BY <1>10 DEF Write, serverVars, NewestServes, RegisteredIsLive
<1> QED BY <1>1, <1>2, <1>3, <1>4, <1>5, <1>6, <1>7, <1>8, <1>9, <1>10
        DEF OpenStep, ReadStep, GiveUp, HangUp

\* The agent and the network leave the registers alone, but for the tunnel
\* that is being opened.
LEMMA StreamRegs ==
    ASSUME RegInv, NEW t \in Streams, LoopStep(t) \/ Dial(t) \/ Cut(t)
    PROVE  RegInv'
<1>1. CASE Dial(t)
  BY <1>1 DEF Dial, Moves, proxyVars, RegInv, NewestServes, RegisteredIsLive, Phases
<1>2. CASE LoopStep(t) \/ Cut(t)
  BY <1>2 DEF LoopStep, Cut, RecvOpen, RecvData, RecvClose, Takes, LoopEnds, serverVars,
              proxyVars, RegInv, NewestServes, RegisteredIsLive
<1> QED BY <1>1, <1>2

LEMMA ConnRegs ==
    ASSUME RegInv, NEW s \in Sess,
           \/ ConnStep(s) \/ Eat(s) \/ TargetCloses(s)
           \/ \E n \in 1..FrameMax : CopyUp(s, n)
    PROVE  RegInv'
<1>1. UNCHANGED <<tunnel, current, newest, overtaken, reg, proxy>>
  BY DEF ConnStep, Eat, TargetCloses, CopyUp, Connected, DialFails, SendEof, CloseLocal,
         serverVars, proxyVars
<1> QED BY <1>1 DEF RegInv, NewestServes, RegisteredIsLive

LEMMA RegStep == RegInv /\ [Next]_vars => RegInv'
<1> SUFFICES ASSUME RegInv, [Next]_vars PROVE RegInv'
  OBVIOUS
<1>1. CASE UNCHANGED vars
  BY <1>1 DEF vars, serverVars, proxyVars, RegInv, NewestServes, RegisteredIsLive
<1>2. CASE Next
  BY <1>2, HandlerRegs, SendRegs, StreamRegs, UserRegs, ConnRegs DEF Next
<1> QED BY <1>1, <1>2

(* What is registered is served; the tunnel the agent opened last is the    *)
(* one sessions are opened on while it is served, unless the handler of an  *)
(* older one, late for the mutex, registered over it; and every session in  *)
(* a map still has somebody who will take it out.                           *)
THEOREM RegistersHold == Spec => []RegistersAreTrue
<1>1. RegInv => RegistersAreTrue
  BY DEF RegInv, RegistersAreTrue, SessionsHaveOwner, Owners
<1> QED BY <1>1, RegInit, RegStep, PTL DEF Spec

-----------------------------------------------------------------------------
(* Types.  Those of a group of variables are kept by every step that leaves *)
(* the group alone.                                                         *)

ServerTypes ==
    /\ tunnel \in [Streams -> Phases]
    /\ current \in Streams \cup {None} /\ newest \in Streams \cup {None}
    /\ overtaken \subseteq Streams
    /\ reg \subseteq Sess
    /\ ch \in [Sess -> Seq(Frames)]
    /\ \A s \in Sess : Len(ch[s]) <= ChCap

ProxyTypes ==
    /\ nt \in [Sess -> Streams \cup {None}]
    /\ proxy \in [Sess -> Users]
    /\ written \in [Sess -> Nat]
    /\ bytesRead \in [Sess -> Seq(Nat)]

PumpTypes ==
    /\ pump \in [Sess -> {"off", "range", "done"}]
    /\ hand \in [Sess -> Seq(Nat)]
    /\ out \in [Sess -> Seq(Seq(Nat))]
    /\ \A s \in Sess : Len(out[s]) <= OutCap

AgentTypes ==
    /\ recv \subseteq Streams
    /\ known \subseteq Sess
    /\ sock \in [Sess -> Sockets]
    /\ buf \in [Sess -> Seq(Nat)]
    /\ got \in [Sess -> Seq(Nat)]
    /\ unread \in [Sess -> Nat]
    /\ produced \in [Sess -> Nat]
    /\ copier \in [Sess -> {"off", "reading", "ending", "closing"}]

LinkTypes ==
    /\ cut \subseteq Streams
    /\ sending \in [Streams -> Frames \cup {None}]
    /\ down \in [Streams -> Seq(Frames)]
    /\ up \in [Streams -> Seq(Frames)]
    /\ \A t \in Streams : Len(down[t]) <= DownCap /\ Len(up[t]) <= UpCap

Types == ServerTypes /\ ProxyTypes /\ PumpTypes /\ AgentTypes /\ LinkTypes

LEMMA TypesSuffice == Types => TypeOK
  BY DEF Types, TypeOK, ServerTypes, ProxyTypes, PumpTypes, AgentTypes, LinkTypes

LEMMA ServerKept == ServerTypes /\ UNCHANGED serverVars => ServerTypes'
  BY DEF ServerTypes, serverVars
LEMMA ProxyKept == ProxyTypes /\ UNCHANGED proxyVars => ProxyTypes'
  BY DEF ProxyTypes, proxyVars
LEMMA PumpKept == PumpTypes /\ UNCHANGED pumpVars => PumpTypes'
  BY DEF PumpTypes, pumpVars
LEMMA AgentKept == AgentTypes /\ UNCHANGED agentVars => AgentTypes'
  BY DEF AgentTypes, agentVars, connVars
LEMMA LinkKept == LinkTypes /\ UNCHANGED linkVars => LinkTypes'
  BY DEF LinkTypes, linkVars

LEMMA FrameTypes ==
    /\ \A s \in Sess, kind \in Kinds, data \in Seq(Nat) :
          Frame(s, kind, data) \in Frames /\ Frame(s, kind, data) # None
    /\ \A s \in Sess : CloseFrame(s) \in Frames /\ CloseFrame(s) # None
    /\ \A f \in Frames : f.sess \in Sess /\ f.kind \in Kinds /\ f.data \in Seq(Nat) /\ f # None
<1>1. \A f \in Frames : f.sess \in Sess /\ f.kind \in Kinds /\ f.data \in Seq(Nat) /\ f # None
  BY TunnelAssumption DEF Frames
<1>2. \A s \in Sess, kind \in Kinds, data \in Seq(Nat) : Frame(s, kind, data) \in Frames
  BY DEF Frame, Frames
<1>3. <<>> \in Seq(Nat) /\ "close" \in Kinds
  BY DEF Kinds
<1> QED BY <1>1, <1>2, <1>3 DEF CloseFrame

\* Sequences.
LEMMA Appended ==
    ASSUME NEW S, NEW q \in Seq(S), NEW e \in S
    PROVE  /\ Append(q, e) \in Seq(S) /\ Len(Append(q, e)) = Len(q) + 1 /\ Len(q) \in Nat
           /\ DOMAIN Append(q, e) = 1..(Len(q) + 1) /\ DOMAIN q = 1..Len(q)
           /\ \A i \in DOMAIN q : Append(q, e)[i] = q[i]
           /\ Append(q, e)[Len(q) + 1] = e
  OBVIOUS

LEMMA Taken ==
    ASSUME NEW S, NEW q \in Seq(S), q # <<>>
    PROVE  /\ Tail(q) \in Seq(S) /\ Len(Tail(q)) = Len(q) - 1 /\ Len(q) \in Nat
           /\ Head(q) = q[1] /\ Head(q) \in S /\ 1 \in DOMAIN q /\ DOMAIN q = 1..Len(q)
           /\ DOMAIN Tail(q) = 1..(Len(q) - 1)
           /\ \A i \in DOMAIN Tail(q) : i \in Nat /\ i + 1 \in DOMAIN q /\ Tail(q)[i] = q[i + 1]
           /\ \A i \in DOMAIN q : i # 1 => i - 1 \in DOMAIN Tail(q) /\ Tail(q)[i - 1] = q[i]
  OBVIOUS

LEMMA Joined ==
    ASSUME NEW S, NEW p \in Seq(S), NEW q \in Seq(S)
    PROVE  /\ p \o q \in Seq(S) /\ Len(p \o q) = Len(p) + Len(q) /\ Len(p) \in Nat /\ Len(q) \in Nat
           /\ DOMAIN (p \o q) = 1..(Len(p) + Len(q)) /\ DOMAIN p = 1..Len(p) /\ DOMAIN q = 1..Len(q)
           /\ \A i \in DOMAIN p : (p \o q)[i] = p[i]
           /\ \A i \in DOMAIN q : (p \o q)[Len(p) + i] = q[i]
           /\ \A i \in DOMAIN (p \o q) : i \in DOMAIN p \/ (i - Len(p) \in DOMAIN q /\ (p \o q)[i] = q[i - Len(p)])
<1>1. /\ p \o q \in Seq(S) /\ Len(p \o q) = Len(p) + Len(q) /\ Len(p) \in Nat /\ Len(q) \in Nat
      /\ \A i \in 1..(Len(p) + Len(q)) : (p \o q)[i] = IF i <= Len(p) THEN p[i] ELSE q[i - Len(p)]
  OBVIOUS
<1>2. DOMAIN (p \o q) = 1..(Len(p) + Len(q)) /\ DOMAIN p = 1..Len(p) /\ DOMAIN q = 1..Len(q)
  BY <1>1
<1> QED BY <1>1, <1>2

LEMMA Prefixed ==
    ASSUME NEW S, NEW q \in Seq(S), NEW n \in 0..Len(q)
    PROVE  /\ SubSeq(q, 1, n) \in Seq(S) /\ Len(SubSeq(q, 1, n)) = n /\ n \in Nat
           /\ DOMAIN SubSeq(q, 1, n) = 1..n
           /\ \A i \in 1..n : i \in DOMAIN q /\ SubSeq(q, 1, n)[i] = q[i]
  OBVIOUS

LEMMA Singles ==
    /\ \A n \in Nat : <<n>> \in Seq(Nat) /\ Len(<<n>>) = 1 /\ <<n>>[1] = n
    /\ <<>> \in Seq(Nat) /\ Len(<<>>) = 0
  OBVIOUS

\* The numbers the next n bytes of a target have.
LEMMA Numbered ==
    ASSUME NEW m \in Nat, NEW n \in Nat
    PROVE  LET q == [i \in 1..n |-> m + i] IN
           /\ q \in Seq(Nat) /\ Len(q) = n /\ DOMAIN q = 1..n
           /\ \A i \in 1..n : q[i] = m + i
  OBVIOUS

LEMMA OfferTypes ==
    ASSUME NEW q \in Seq(Frames), Len(q) <= ChCap, NEW f \in Frames
    PROVE  Offer(q, f) \in Seq(Frames) /\ Len(Offer(q, f)) <= ChCap
  BY TunnelAssumption, Appended DEF Offer

LEMMA TypesInit == Init => Types
<1> SUFFICES ASSUME Init PROVE Types
  OBVIOUS
<1> USE TunnelAssumption DEF Init
<1>1. ServerTypes
  BY DEF ServerTypes, Phases
<1>2. ProxyTypes
  BY DEF ProxyTypes, Users
<1>3. PumpTypes
  BY DEF PumpTypes
<1>4. AgentTypes
  BY DEF AgentTypes, Sockets
<1>5. LinkTypes
  BY DEF LinkTypes
<1> QED BY <1>1, <1>2, <1>3, <1>4, <1>5 DEF Types

LEMMA CloseAllTypes ==
    ASSUME ServerTypes, NEW t, CloseAll(t)
    PROVE  /\ ch' \in [Sess -> Seq(Frames)] /\ \A s \in Sess : Len(ch'[s]) <= ChCap
           /\ reg' \subseteq Sess
<1>1. ch' = [s \in Sess |-> IF s \in On(t) THEN Offer(ch[s], CloseFrame(s)) ELSE ch[s]] /\ reg' = reg \ On(t)
  BY DEF CloseAll
<1>2. \A s \in Sess : /\ Offer(ch[s], CloseFrame(s)) \in Seq(Frames)
                      /\ Len(Offer(ch[s], CloseFrame(s))) <= ChCap
  BY OfferTypes, FrameTypes DEF ServerTypes
<1> QED BY <1>1, <1>2 DEF ServerTypes

LEMMA HandlerTypes ==
    ASSUME Types, NEW t \in Streams, HandlerStep(t)
    PROVE  Types'
<1> USE DEF Types
<1>1. ASSUME NEW phase \in Phases, Moves(t, phase) PROVE tunnel' \in [Streams -> Phases]
  BY <1>1 DEF Moves, ServerTypes
<1>2. ProxyTypes' /\ PumpTypes' /\ AgentTypes'
  <2>1. UNCHANGED <<proxyVars, pumpVars, agentVars>>
    BY DEF HandlerStep, TakeTunnelsMu, RegisterTunnel, Deliver, RecvFails, Sweep, Finish
  <2> QED BY <2>1, ProxyKept, PumpKept, AgentKept
<1>3. CASE TakeTunnelsMu(t)
  <2>1. ServerTypes'
    BY <1>1, <1>3 DEF TakeTunnelsMu, ServerTypes, Phases
  <2> QED BY <1>2, <1>3, <2>1, LinkKept DEF TakeTunnelsMu
<1>4. CASE RegisterTunnel(t)
  <2>1. tunnel' \in [Streams -> Phases]
    BY <1>1, <1>4 DEF RegisterTunnel, Phases
  <2>2. /\ ch' \in [Sess -> Seq(Frames)] /\ \A s \in Sess : Len(ch'[s]) <= ChCap
        /\ reg' \subseteq Sess
    BY <1>4, CloseAllTypes DEF RegisterTunnel, ServerTypes
  <2>3. ServerTypes'
    BY <1>4, <2>1, <2>2 DEF RegisterTunnel, ServerTypes
  <2> QED BY <1>2, <1>4, <2>3, LinkKept DEF RegisterTunnel
<1>5. CASE Deliver(t)
  <2> DEFINE f == Head(up[t])
  <2>1. f \in Frames /\ Tail(up[t]) \in Seq(Frames) /\ Len(Tail(up[t])) <= UpCap /\ f.sess \in Sess
    <3>1. f \in Frames /\ Tail(up[t]) \in Seq(Frames) /\ Len(Tail(up[t])) = Len(up[t]) - 1 /\ Len(up[t]) \in Nat
      BY <1>5, Taken DEF Deliver, LinkTypes
    <3> QED BY <3>1, FrameTypes, TunnelAssumption DEF LinkTypes
  <2>2. ch' = (IF f.sess \in On(t) THEN [ch EXCEPT ![f.sess] = Offer(@, f)] ELSE ch) /\ up' = [up EXCEPT ![t] = Tail(up[t])]
    BY <1>5 DEF Deliver
  <2> HIDE DEF f
  <2>3. Offer(ch[f.sess], f) \in Seq(Frames) /\ Len(Offer(ch[f.sess], f)) <= ChCap
    BY <2>1, OfferTypes DEF ServerTypes
  <2>4. ServerTypes'
    BY <1>5, <2>1, <2>2, <2>3 DEF Deliver, ServerTypes
  <2>5. LinkTypes'
    BY <1>5, <2>1, <2>2 DEF Deliver, LinkTypes
  <2> QED BY <1>2, <2>4, <2>5
<1>6. CASE RecvFails(t)
  <2>1. ServerTypes'
    BY <1>1, <1>6 DEF RecvFails, ServerTypes, Phases
  <2>2. up' = [up EXCEPT ![t] = <<>>] /\ UNCHANGED <<cut, sending, down>>
    BY <1>6 DEF RecvFails
  <2>3. <<>> \in Seq(Frames) /\ Len(<<>>) <= UpCap
    BY TunnelAssumption
  <2>4. LinkTypes'
    BY <2>2, <2>3 DEF LinkTypes
  <2> QED BY <1>2, <2>1, <2>4
<1>7. CASE Sweep(t)
  <2>1. ServerTypes'
    BY <1>1, <1>7 DEF Sweep, ServerTypes, Phases
  <2> QED BY <1>2, <1>7, <2>1, LinkKept DEF Sweep
<1>8. CASE Finish(t)
  <2>1. tunnel' \in [Streams -> Phases]
    BY <1>1, <1>8 DEF Finish, Phases
  <2>2. ServerTypes'
    BY <1>8, <2>1, CloseAllTypes DEF Finish, ServerTypes
  <2> QED BY <1>2, <1>8, <2>2, LinkKept DEF Finish
<1> QED BY <1>3, <1>4, <1>5, <1>6, <1>7, <1>8 DEF HandlerStep

LEMMA SendTypes ==
    ASSUME Types, NEW t \in Streams, SendStep(t)
    PROVE  Types'
<1> USE DEF Types
<1>1. sending[t] \in Frames
  BY DEF SendStep, SendReturns, SendFails, LinkTypes
<1>2. ServerTypes' /\ AgentTypes'
  BY ServerKept, AgentKept DEF SendStep, SendReturns, SendFails
<1>3. UNCHANGED <<nt, written, bytesRead, hand, out>>
  BY DEF SendStep, SendReturns, SendFails
<1>4. ASSUME NEW phase \in {"open", "failing"}, AfterSend(sending[t], phase)
      PROVE  ProxyTypes' /\ PumpTypes'
  BY <1>3, <1>4 DEF AfterSend, ProxyTypes, PumpTypes, Users
<1>5. ProxyTypes' /\ PumpTypes'
  BY <1>4 DEF SendStep, SendReturns, SendFails
<1>6. LinkTypes'
  <2>1. sending' \in [Streams -> Frames \cup {None}] /\ UNCHANGED <<cut, up>>
    BY DEF SendStep, SendReturns, SendFails, LinkTypes
  <2>2. down' \in [Streams -> Seq(Frames)] /\ \A x \in Streams : Len(down'[x]) <= DownCap
    <3>1. \/ down' = down
          \/ Len(down[t]) < DownCap /\ down' = [down EXCEPT ![t] = Append(down[t], sending[t])]
      BY DEF SendStep, SendReturns, SendFails
    <3>2. Append(down[t], sending[t]) \in Seq(Frames) /\ Len(Append(down[t], sending[t])) = Len(down[t]) + 1
          /\ Len(down[t]) \in Nat
      BY <1>1, Appended DEF LinkTypes
    <3>3. Len(down[t]) < DownCap => Len(down[t]) + 1 <= DownCap
      BY <3>2, TunnelAssumption
    <3> QED BY <3>1, <3>2, <3>3 DEF LinkTypes
  <2> QED BY <2>1, <2>2 DEF LinkTypes
<1> QED BY <1>2, <1>5, <1>6

LEMMA StartSendTypes ==
    ASSUME LinkTypes, NEW t, NEW f \in Frames, StartSend(t, f)
    PROVE  LinkTypes'
  BY DEF StartSend, LinkTypes

LEMMA RemoveTypes ==
    ASSUME Types, NEW s \in Sess, NEW phase \in Users, RemoveSession(s, phase)
    PROVE  Types'
<1>1. Offer(ch[s], CloseFrame(s)) \in Seq(Frames) /\ Len(Offer(ch[s], CloseFrame(s))) <= ChCap
  BY OfferTypes, FrameTypes DEF Types, ServerTypes
<1>2. ServerTypes'
  <2>1. /\ ch' \in [Sess -> Seq(Frames)] /\ \A x \in Sess : Len(ch'[x]) <= ChCap
        /\ reg' \subseteq Sess
    BY <1>1 DEF RemoveSession, Types, ServerTypes
  <2> QED BY <2>1 DEF RemoveSession, Types, ServerTypes
<1>3. ProxyTypes'
  BY DEF RemoveSession, Becomes, Types, ProxyTypes
<1> QED BY <1>2, <1>3, PumpKept, AgentKept, LinkKept DEF RemoveSession, Types

LEMMA UserTypes ==
    ASSUME Types, NEW s \in Sess,
           OpenStep(s) \/ ReadStep(s) \/ LookUp(s) \/ Write(s) \/ HangUp(s)
    PROVE  Types'
<1> USE DEF Types
<1>1. ASSUME NEW phase \in Users, Becomes(s, phase) PROVE proxy' \in [Sess -> Users]
  BY <1>1 DEF Becomes, ProxyTypes
<1>2. CASE GiveUp(s) \/ HangUp(s)
  BY <1>2, RemoveTypes DEF GiveUp, HangUp, Users
<1>3. CASE RegisterSession(s)
  <2>1. ServerTypes' /\ ProxyTypes'
    BY <1>1, <1>3 DEF RegisterSession, ServerTypes, ProxyTypes, Users
  <2> QED BY <1>3, <2>1, PumpKept, AgentKept, LinkKept DEF RegisterSession
<1>4. CASE SendOpen(s)
  <2>1. ProxyTypes'
    BY <1>1, <1>4 DEF SendOpen, ProxyTypes, Users
  <2>2. Frame(s, "open", <<>>) \in Frames
    BY Singles DEF Frame, Frames, Kinds
  <2>3. LinkTypes'
    BY <1>4, <2>2, StartSendTypes DEF SendOpen
  <2> QED BY <1>4, <2>1, <2>3, ServerKept, PumpKept, AgentKept DEF SendOpen
<1>5. CASE SendClose(s)
  <2>1. ProxyTypes'
    BY <1>1, <1>5 DEF SendClose, ProxyTypes, Users
  <2>2. LinkTypes'
    BY <1>5, FrameTypes, StartSendTypes DEF SendClose
  <2> QED BY <1>5, <2>1, <2>2, ServerKept, PumpKept, AgentKept DEF SendClose
<1>6. CASE LookUp(s)
  <2>1. ProxyTypes'
    BY <1>1, <1>6 DEF LookUp, ProxyTypes, ServerTypes, Users
  <2> QED BY <1>6, <2>1, ServerKept, PumpKept, AgentKept, LinkKept DEF LookUp
<1>7. CASE Write(s)
  <2>1. ProxyTypes' /\ written[s] + 1 \in Nat
    BY <1>7 DEF Write, ProxyTypes
  <2>2. Frame(s, "data", <<written[s] + 1>>) \in Frames
    BY <2>1, Singles DEF Frame, Frames, Kinds
  <2>3. LinkTypes'
    BY <1>7, <2>2, StartSendTypes DEF Write
  <2> QED BY <1>7, <2>1, <2>3, ServerKept, PumpKept, AgentKept DEF Write
<1>8. CASE Read(s)
  <2> DEFINE data == Head(out[s])
             room == IF Len(data) < ReadMax THEN Len(data) ELSE ReadMax
  <2>1. /\ bytesRead' = [bytesRead EXCEPT ![s] = bytesRead[s] \o SubSeq(data, 1, room)]
        /\ out' = [out EXCEPT ![s] = Tail(out[s])]
        /\ out[s] # <<>> /\ out[s] \in Seq(Seq(Nat))
    BY <1>8 DEF Read, PumpTypes
  <2>2. data \in Seq(Nat) /\ Tail(out[s]) \in Seq(Seq(Nat)) /\ Len(Tail(out[s])) = Len(out[s]) - 1 /\ Len(out[s]) \in Nat
    BY <2>1, Taken
  <2>3. SubSeq(data, 1, room) \in Seq(Nat)
    <3>1. room \in 0..Len(data)
      BY <2>2, TunnelAssumption
    <3> HIDE DEF data, room
    <3> QED BY <2>2, <3>1, Prefixed
  <2> HIDE DEF data, room
  <2>4. bytesRead[s] \o SubSeq(data, 1, room) \in Seq(Nat)
    BY <2>3 DEF ProxyTypes
  <2>5. ProxyTypes'
    BY <1>8, <2>1, <2>4 DEF Read, ProxyTypes
  <2>6. Len(Tail(out[s])) <= OutCap
    BY <2>2, TunnelAssumption DEF PumpTypes
  <2>7. PumpTypes'
    BY <1>8, <2>1, <2>2, <2>6 DEF Read, PumpTypes
  <2> QED BY <1>8, <2>5, <2>7, ServerKept, AgentKept, LinkKept DEF Read
<1>9. CASE ReadEof(s)
  <2>1. ProxyTypes'
    BY <1>1, <1>9 DEF ReadEof, ProxyTypes, Users
  <2> QED BY <1>9, <2>1, ServerKept, PumpKept, AgentKept, LinkKept DEF ReadEof
<1>10. CASE PumpTakes(s)
  <2>1. /\ Head(ch[s]) \in Frames /\ Tail(ch[s]) \in Seq(Frames)
        /\ Len(Tail(ch[s])) = Len(ch[s]) - 1 /\ Len(ch[s]) \in Nat
    BY <1>10, Taken DEF PumpTakes, ServerTypes
  <2>2. Head(ch[s]).data \in Seq(Nat) /\ Len(Tail(ch[s])) <= ChCap
    BY <2>1, FrameTypes, TunnelAssumption DEF ServerTypes
  <2>3. PumpTypes'
    BY <1>10, <2>2 DEF PumpTakes, PumpTypes
  <2>4. ServerTypes'
    BY <1>10, <2>1, <2>2 DEF PumpTakes, ServerTypes
  <2> QED BY <1>10, <2>3, <2>4, ProxyKept, AgentKept, LinkKept DEF PumpTakes
<1>11. CASE PumpPuts(s)
  <2>1. Append(out[s], hand[s]) \in Seq(Seq(Nat)) /\ Len(Append(out[s], hand[s])) = Len(out[s]) + 1 /\ Len(out[s]) \in Nat
    BY Appended DEF PumpTypes
  <2>2. Len(Append(out[s], hand[s])) <= OutCap
    BY <1>11, <2>1, TunnelAssumption DEF PumpPuts
  <2>3. PumpTypes'
    BY <1>11, <2>1, <2>2 DEF PumpPuts, PumpTypes
  <2> QED BY <1>11, <2>3, ServerKept, ProxyKept, AgentKept, LinkKept DEF PumpPuts
<1> QED BY <1>2, <1>3, <1>4, <1>5, <1>6, <1>7, <1>8, <1>9, <1>10, <1>11 DEF OpenStep, ReadStep

LEMMA ShutTypes ==
    ASSUME AgentTypes, NEW S, ShutAll(S)
    PROVE  /\ known' \subseteq Sess /\ sock' \in [Sess -> Sockets]
           /\ unread' \in [Sess -> Nat]
<1>1. "closed" \in Sockets /\ 0 \in Nat
  BY DEF Sockets
<1> QED BY <1>1 DEF ShutAll, AgentTypes

LEMMA CloseTypes ==
    ASSUME AgentTypes, NEW s, CloseSession(s)
    PROVE  /\ known' \subseteq Sess /\ sock' \in [Sess -> Sockets]
           /\ unread' \in [Sess -> Nat] /\ buf' \in [Sess -> Seq(Nat)]
<1>1. <<>> \in Seq(Nat)
  OBVIOUS
<1> QED BY <1>1, ShutTypes DEF CloseSession, AgentTypes

LEMMA StreamTypes ==
    ASSUME Types, NEW t \in Streams, LoopStep(t) \/ Dial(t) \/ Cut(t)
    PROVE  Types'
<1> USE DEF Types
<1>1. ASSUME NEW kind, Takes(t, kind)
      PROVE  /\ ServerTypes' /\ ProxyTypes' /\ PumpTypes' /\ LinkTypes' /\ recv' = recv
             /\ Head(down[t]) \in Frames /\ Head(down[t]).sess \in Sess /\ Head(down[t]).data \in Seq(Nat)
  <2>1. /\ down' = [down EXCEPT ![t] = Tail(down[t])] /\ down[t] # <<>> /\ recv' = recv
        /\ UNCHANGED <<cut, sending, up, serverVars, proxyVars, pumpVars>>
    BY <1>1 DEF Takes
  <2>2. /\ Head(down[t]) \in Frames /\ Tail(down[t]) \in Seq(Frames)
        /\ Len(Tail(down[t])) = Len(down[t]) - 1 /\ Len(down[t]) \in Nat
    BY <2>1, Taken DEF LinkTypes
  <2>3. Len(Tail(down[t])) <= DownCap
    BY <2>2, TunnelAssumption DEF LinkTypes
  <2>4. LinkTypes'
    BY <2>1, <2>2, <2>3 DEF LinkTypes
  <2> QED BY <2>1, <2>2, <2>4, ServerKept, ProxyKept, PumpKept, FrameTypes
<1>2. CASE RecvOpen(t)
  <2>1. AgentTypes'
    BY <1>1, <1>2 DEF RecvOpen, AgentTypes, Sockets
  <2> QED BY <1>1, <1>2, <2>1 DEF RecvOpen
<1>3. CASE RecvData(t)
  <2> DEFINE s == Head(down[t]).sess
             data == Head(down[t]).data
  <2>1. s \in Sess /\ data \in Seq(Nat) /\ Len(data) \in Nat /\ recv' = recv
    <3>1. Takes(t, "data")
      BY <1>3 DEF RecvData
    <3>2. s \in Sess /\ data \in Seq(Nat) /\ recv' = recv
      BY <1>1, <3>1
    <3> QED BY <3>2
  <2>2. /\ got' = got \/ got' = [got EXCEPT ![s] = got[s] \o data]
        /\ unread' = unread \/ unread' = [unread EXCEPT ![s] = unread[s] + Len(data)]
        /\ buf' = buf \/ buf' = [buf EXCEPT ![s] = buf[s] \o data]
        /\ UNCHANGED <<known, sock, produced, copier>>
    BY <1>3 DEF RecvData
  <2> HIDE DEF s, data
  <2>3. got' \in [Sess -> Seq(Nat)] /\ unread' \in [Sess -> Nat] /\ buf' \in [Sess -> Seq(Nat)]
    <3>1. got[s] \o data \in Seq(Nat) /\ buf[s] \o data \in Seq(Nat) /\ unread[s] + Len(data) \in Nat
      BY <2>1 DEF AgentTypes
    <3> QED BY <2>2, <3>1 DEF AgentTypes
  <2>4. AgentTypes'
    BY <2>1, <2>2, <2>3 DEF AgentTypes
  <2> QED BY <1>1, <1>3, <2>4 DEF RecvData
<1>4. CASE RecvClose(t)
  <2>1. AgentTypes'
    BY <1>1, <1>4, CloseTypes DEF RecvClose, AgentTypes
  <2> QED BY <1>1, <1>4, <2>1 DEF RecvClose
<1>5. CASE LoopEnds(t)
  <2>1. AgentTypes'
    BY <1>5, ShutTypes DEF LoopEnds, AgentTypes
  <2> QED BY <1>5, <2>1, ServerKept, ProxyKept, PumpKept, LinkKept DEF LoopEnds
<1>6. CASE Dial(t)
  <2>1. ServerTypes' /\ AgentTypes'
    BY <1>6 DEF Dial, Moves, ServerTypes, AgentTypes, Phases, connVars
  <2> QED BY <1>6, <2>1, ProxyKept, PumpKept, LinkKept DEF Dial
<1>7. CASE Cut(t)
  <2>1. /\ cut' \subseteq Streams /\ down' = [down EXCEPT ![t] = <<>>] /\ UNCHANGED <<sending, up>>
    BY <1>7 DEF Cut, LinkTypes
  <2>2. <<>> \in Seq(Frames) /\ Len(<<>>) <= DownCap
    BY TunnelAssumption
  <2>3. LinkTypes'
    BY <2>1, <2>2 DEF LinkTypes
  <2> QED BY <1>7, <2>3, ServerKept, ProxyKept, PumpKept, AgentKept DEF Cut
<1> QED BY <1>2, <1>3, <1>4, <1>5, <1>6, <1>7 DEF LoopStep

LEMMA SendUpTypes ==
    ASSUME LinkTypes, NEW t, NEW f \in Frames, SendUp(t, f)
    PROVE  LinkTypes'
<1>1. CASE t \in Streams /\ Len(up[t]) < UpCap /\ up' = [up EXCEPT ![t] = Append(up[t], f)]
  <2>1. Append(up[t], f) \in Seq(Frames) /\ Len(Append(up[t], f)) = Len(up[t]) + 1 /\ Len(up[t]) \in Nat
    BY <1>1, Appended DEF LinkTypes
  <2>2. Len(Append(up[t], f)) <= UpCap
    BY <1>1, <2>1, TunnelAssumption
  <2> QED BY <1>1, <2>1, <2>2 DEF SendUp, LinkTypes
<1>2. CASE ~(t \in Streams /\ Len(up[t]) < UpCap /\ up' = [up EXCEPT ![t] = Append(up[t], f)])
  <2>1. up' = up
    BY <1>2 DEF SendUp, LinkTypes
  <2> QED BY <2>1 DEF SendUp, LinkTypes
<1> QED BY <1>1, <1>2

LEMMA ConnTypes ==
    ASSUME Types, NEW s \in Sess,
           \/ ConnStep(s) \/ Eat(s) \/ TargetCloses(s)
           \/ \E n \in 1..FrameMax : CopyUp(s, n)
    PROVE  Types'
<1> USE DEF Types
<1>1. ServerTypes' /\ ProxyTypes' /\ PumpTypes'
  <2>1. UNCHANGED <<serverVars, proxyVars, pumpVars>>
    BY DEF ConnStep, Eat, TargetCloses, CopyUp, Connected, DialFails, SendEof, CloseLocal
  <2> QED BY <2>1, ServerKept, ProxyKept, PumpKept
<1>2. CASE Connected(s)
  <2>1. got[s] \o buf[s] \in Seq(Nat) /\ Len(buf[s]) \in Nat /\ <<>> \in Seq(Nat)
    BY DEF AgentTypes
  <2>2. AgentTypes'
    BY <1>2, <2>1 DEF Connected, AgentTypes, Sockets
  <2> QED BY <1>1, <1>2, <2>2, LinkKept DEF Connected
<1>3. CASE DialFails(s)
  <2>1. AgentTypes'
    BY <1>3 DEF DialFails, AgentTypes, Sockets
  <2> QED BY <1>1, <1>3, <2>1, LinkKept DEF DialFails
<1>4. CASE SendEof(s)
  <2>1. AgentTypes'
    BY <1>4 DEF SendEof, AgentTypes
  <2>2. LinkTypes'
    BY <1>4, SendUpTypes, FrameTypes DEF SendEof
  <2> QED BY <1>1, <2>1, <2>2
<1>5. CASE CloseLocal(s)
  <2>1. AgentTypes'
    BY <1>5, CloseTypes DEF CloseLocal, AgentTypes
  <2> QED BY <1>1, <1>5, <2>1, LinkKept DEF CloseLocal
<1>6. CASE Eat(s) \/ TargetCloses(s)
  <2>1. unread[s] \in Nat /\ (unread[s] > 0 => unread[s] - 1 \in Nat)
    BY DEF AgentTypes
  <2>2. CASE Eat(s)
    <3>1. unread' \in [Sess -> Nat]
      BY <2>1, <2>2 DEF Eat, AgentTypes
    <3> QED BY <1>1, <2>2, <3>1, LinkKept DEF Eat, AgentTypes
  <2>3. CASE TargetCloses(s)
    <3>1. unread' \in [Sess -> Nat] /\ sock' \in [Sess -> Sockets]
      BY <2>3 DEF TargetCloses, AgentTypes, Sockets
    <3> QED BY <1>1, <2>3, <3>1, LinkKept DEF TargetCloses, AgentTypes
  <2> QED BY <1>6, <2>2, <2>3
<1>7. ASSUME NEW n \in 1..FrameMax, CopyUp(s, n) PROVE Types'
  <2> DEFINE m == produced[s]
  <2>0. n \in Nat /\ m \in Nat
    BY TunnelAssumption DEF AgentTypes
  <2> HIDE DEF m
  <2>1. [i \in 1..n |-> m + i] \in Seq(Nat) /\ m + n \in Nat
    BY <2>0, Numbered
  <2>2. Frame(s, "data", [i \in 1..n |-> produced[s] + i]) \in Frames
    BY <2>1 DEF Frame, Frames, Kinds, m
  <2>3. LinkTypes'
    BY <1>7, <2>2, SendUpTypes DEF CopyUp
  <2>4. AgentTypes'
    BY <1>7, <2>1 DEF CopyUp, AgentTypes, m
  <2> QED BY <1>1, <2>3, <2>4
<1> QED BY <1>2, <1>3, <1>4, <1>5, <1>6, <1>7 DEF ConnStep

LEMMA TypesStep == Types /\ [Next]_vars => Types'
<1> SUFFICES ASSUME Types, [Next]_vars PROVE Types'
  OBVIOUS
<1>1. CASE UNCHANGED vars
  BY <1>1, ServerKept, ProxyKept, PumpKept, AgentKept, LinkKept DEF vars, Types
<1>2. CASE Next
  BY <1>2, HandlerTypes, SendTypes, StreamTypes, UserTypes, ConnTypes DEF Next
<1> QED BY <1>1, <1>2

LEMMA TypesHold == Spec => []Types
  BY TypesInit, TypesStep, PTL DEF Spec

(* Every variable of the two ends of a tunnel keeps its type, and no queue  *)
(* grows past its capacity.                                                 *)
THEOREM TypeCorrect == Spec => []TypeOK
  BY TypesHold, TypesSuffice, PTL

-----------------------------------------------------------------------------
(* Pieces of a stream of numbers.                                           *)

\* The numbers of q rise, from above lo to hi at most.
Chunk(q, lo, hi) ==
    /\ \A i \in DOMAIN q : lo < q[i] /\ q[i] <= hi
    /\ \A i, j \in DOMAIN q : i < j => q[i] < q[j]

\* So do those of the pieces of Q, one after the other.
Chunks(Q, lo, hi) ==
    /\ \A k \in DOMAIN Q : Chunk(Q[k], lo, hi)
    /\ \A k, l \in DOMAIN Q : k < l =>
         \A i \in DOMAIN Q[k], j \in DOMAIN Q[l] : Q[k][i] < Q[l][j]

LEMMA ChunkWiden ==
    ASSUME NEW q \in Seq(Nat), NEW lo \in Nat, NEW hi \in Nat, Chunk(q, lo, hi),
           NEW lo2 \in Nat, NEW hi2 \in Nat, lo2 <= lo, hi <= hi2
    PROVE  Chunk(q, lo2, hi2)
<1>1. \A i \in DOMAIN q : q[i] \in Nat
  OBVIOUS
<1> QED BY <1>1 DEF Chunk

LEMMA ChunksWiden ==
    ASSUME NEW Q \in Seq(Seq(Nat)), NEW lo \in Nat, NEW hi \in Nat, Chunks(Q, lo, hi),
           NEW lo2 \in Nat, NEW hi2 \in Nat, lo2 <= lo, hi <= hi2
    PROVE  Chunks(Q, lo2, hi2)
<1>1. \A k \in DOMAIN Q : Q[k] \in Seq(Nat)
  OBVIOUS
<1>2. \A k \in DOMAIN Q : Chunk(Q[k], lo2, hi2)
  BY <1>1, ChunkWiden DEF Chunks
<1> QED BY <1>2 DEF Chunks

LEMMA ChunkJoin ==
    ASSUME NEW p \in Seq(Nat), NEW q \in Seq(Nat), NEW lo \in Nat, NEW m \in Nat, NEW hi \in Nat,
           lo <= m, m <= hi, Chunk(p, lo, m), Chunk(q, m, hi)
    PROVE  p \o q \in Seq(Nat) /\ Chunk(p \o q, lo, hi)
<1> DEFINE r == p \o q
           n == Len(p)
<1>1. /\ r \in Seq(Nat) /\ n \in Nat /\ DOMAIN r \subseteq Nat /\ DOMAIN p = 1..n
      /\ \A i \in DOMAIN p : r[i] = p[i]
      /\ \A i \in DOMAIN r : i \in DOMAIN p \/ (i - n \in DOMAIN q /\ r[i] = q[i - n] /\ ~(i <= n))
  <2>1. /\ r \in Seq(Nat) /\ n \in Nat /\ DOMAIN r = 1..(n + Len(q)) /\ DOMAIN p = 1..n
        /\ DOMAIN q = 1..Len(q) /\ Len(q) \in Nat
        /\ \A i \in DOMAIN p : r[i] = p[i]
        /\ \A i \in DOMAIN r : i \in DOMAIN p \/ (i - n \in DOMAIN q /\ r[i] = q[i - n])
    BY Joined
  <2> HIDE DEF r, n
  <2> QED BY <2>1
<1> HIDE DEF r, n
<1>2. (\A i \in DOMAIN p : p[i] \in Nat) /\ (\A i \in DOMAIN q : q[i] \in Nat)
  OBVIOUS
<1>3. ASSUME NEW i \in DOMAIN r PROVE lo < r[i] /\ r[i] <= hi
  <2>1. CASE i \in DOMAIN p
    <3>1. r[i] = p[i] /\ p[i] \in Nat /\ lo < p[i] /\ p[i] <= m
      BY <1>1, <1>2, <2>1 DEF Chunk
    <3> QED BY <3>1
  <2>2. CASE i \notin DOMAIN p
    <3>1. i - n \in DOMAIN q /\ r[i] = q[i - n]
      BY <1>1, <2>2
    <3>2. q[i - n] \in Nat /\ m < q[i - n] /\ q[i - n] <= hi
      BY <1>2, <3>1 DEF Chunk
    <3> QED BY <3>1, <3>2
  <2> QED BY <2>1, <2>2
<1>4. ASSUME NEW i \in DOMAIN r, NEW j \in DOMAIN r, i < j PROVE r[i] < r[j]
  <2>1. i \in Nat /\ j \in Nat
    BY <1>1
  <2>2. CASE i \in DOMAIN p /\ j \in DOMAIN p
    BY <1>1, <1>4, <2>2 DEF Chunk
  <2>3. CASE i \in DOMAIN p /\ j \notin DOMAIN p
    <3>1. r[i] <= m /\ m < r[j] /\ r[i] \in Nat /\ r[j] \in Nat
      BY <1>1, <1>2, <2>3 DEF Chunk
    <3> QED BY <3>1
  <2>4. CASE i \notin DOMAIN p
    <3>1. j \notin DOMAIN p
      BY <1>1, <1>4, <2>1, <2>4
    <3>2. i - n \in DOMAIN q /\ r[i] = q[i - n]
      BY <1>1, <2>4
    <3>3. j - n \in DOMAIN q /\ r[j] = q[j - n]
      BY <1>1, <3>1
    <3>4. i - n < j - n
      BY <1>1, <1>4, <2>1
    <3> QED BY <3>2, <3>3, <3>4 DEF Chunk
  <2> QED BY <2>2, <2>3, <2>4
<1>5. Chunk(r, lo, hi) /\ r \in Seq(Nat)
  BY <1>1, <1>3, <1>4 DEF Chunk
<1> QED BY <1>5 DEF r

LEMMA ChunkPrefix ==
    ASSUME NEW q \in Seq(Nat), NEW lo \in Nat, NEW hi \in Nat, Chunk(q, lo, hi), NEW n \in 0..Len(q)
    PROVE  SubSeq(q, 1, n) \in Seq(Nat) /\ Chunk(SubSeq(q, 1, n), lo, hi)
<1>1. /\ SubSeq(q, 1, n) \in Seq(Nat) /\ DOMAIN SubSeq(q, 1, n) = 1..n
      /\ \A i \in 1..n : i \in DOMAIN q /\ SubSeq(q, 1, n)[i] = q[i]
  BY Prefixed
<1> QED BY <1>1 DEF Chunk

LEMMA NoPieces ==
    ASSUME NEW lo \in Nat, NEW hi \in Nat
    PROVE  /\ Chunk(<<>>, lo, hi)
           /\ \A Q \in Seq(Seq(Nat)) : (\A k \in DOMAIN Q : Q[k] = <<>>) => Chunks(Q, lo, hi)
<1>1. DOMAIN <<>> = {}
  OBVIOUS
<1>2. Chunk(<<>>, lo, hi)
  BY <1>1 DEF Chunk
<1>3. ASSUME NEW Q \in Seq(Seq(Nat)), \A k \in DOMAIN Q : Q[k] = <<>> PROVE Chunks(Q, lo, hi)
  BY <1>1, <1>2, <1>3 DEF Chunks
<1> QED BY <1>2, <1>3

LEMMA ChunksAppend ==
    ASSUME NEW Q \in Seq(Seq(Nat)), NEW q \in Seq(Nat), NEW lo \in Nat, NEW m \in Nat, NEW hi \in Nat,
           lo <= m, m <= hi, Chunks(Q, lo, m), Chunk(q, m, hi)
    PROVE  Append(Q, q) \in Seq(Seq(Nat)) /\ Chunks(Append(Q, q), lo, hi)
<1> DEFINE R == Append(Q, q)
           n == Len(Q)
<1>1. /\ R \in Seq(Seq(Nat)) /\ n \in Nat /\ DOMAIN R = 1..(n + 1) /\ DOMAIN Q = 1..n
      /\ \A k \in DOMAIN Q : R[k] = Q[k]
      /\ R[n + 1] = q
  BY Appended
<1> HIDE DEF R, n
<1>2. \A k \in DOMAIN Q : Q[k] \in Seq(Nat)
  OBVIOUS
<1>3. ASSUME NEW k \in DOMAIN Q PROVE Chunk(Q[k], lo, hi)
  <2>1. Chunk(Q[k], lo, m)
    BY DEF Chunks
  <2> QED BY <1>2, <2>1, ChunkWiden, hi \in Nat
<1>4. Chunk(q, lo, hi)
  BY ChunkWiden
<1>5. ASSUME NEW k \in DOMAIN R PROVE Chunk(R[k], lo, hi)
  <2>1. k \in DOMAIN Q \/ k = n + 1
    BY <1>1
  <2> QED BY <1>1, <1>3, <1>4, <2>1
<1>6. ASSUME NEW k \in DOMAIN R, NEW l \in DOMAIN R, k < l, NEW i \in DOMAIN R[k], NEW j \in DOMAIN R[l]
      PROVE  R[k][i] < R[l][j]
  <2>1. k \in DOMAIN Q
    BY <1>1, <1>6
  <2>2. CASE l \in DOMAIN Q
    BY <1>1, <1>6, <2>1, <2>2 DEF Chunks
  <2>3. CASE l = n + 1
    <3>1. R[k] = Q[k] /\ R[l] = q /\ i \in DOMAIN Q[k] /\ j \in DOMAIN q
      BY <1>1, <1>6, <2>1, <2>3
    <3>2. Chunk(Q[k], lo, m) /\ Q[k] \in Seq(Nat)
      BY <1>2, <2>1 DEF Chunks
    <3>3. Q[k][i] <= m /\ Q[k][i] \in Nat
      BY <3>1, <3>2 DEF Chunk
    <3>4. m < q[j] /\ q[j] \in Nat
      BY <3>1 DEF Chunk
    <3> QED BY <3>1, <3>3, <3>4
  <2> QED BY <1>1, <2>2, <2>3
<1>7. Chunks(R, lo, hi)
  BY <1>5, <1>6 DEF Chunks
<1> QED BY <1>1, <1>7 DEF R

LEMMA ChunksTail ==
    ASSUME NEW Q \in Seq(Seq(Nat)), Q # <<>>, NEW lo \in Nat, NEW hi \in Nat, lo <= hi, Chunks(Q, lo, hi)
    PROVE  /\ Head(Q) \in Seq(Nat) /\ Tail(Q) \in Seq(Seq(Nat))
           /\ \E m \in Nat : /\ lo <= m /\ m <= hi
                             /\ Chunk(Head(Q), lo, m) /\ Chunks(Tail(Q), m, hi)
<1> DEFINE q == Head(Q)
           R == Tail(Q)
           m == IF q = <<>> THEN lo ELSE q[Len(q)]
<1>1. /\ R \in Seq(Seq(Nat)) /\ q = Q[1] /\ q \in Seq(Nat) /\ 1 \in DOMAIN Q /\ DOMAIN Q \subseteq Nat
      /\ \A k \in DOMAIN R : k \in Nat /\ k + 1 \in DOMAIN Q /\ R[k] = Q[k + 1] /\ 1 < k + 1
  <2>1. /\ R \in Seq(Seq(Nat)) /\ q = Q[1] /\ q \in Seq(Nat) /\ 1 \in DOMAIN Q /\ DOMAIN Q = 1..Len(Q)
        /\ DOMAIN R = 1..(Len(Q) - 1) /\ Len(Q) \in Nat
        /\ \A k \in DOMAIN R : k \in Nat /\ k + 1 \in DOMAIN Q /\ R[k] = Q[k + 1]
    BY Taken
  <2> HIDE DEF R, q
  <2> QED BY <2>1
<1>2. Chunk(q, lo, hi) /\ DOMAIN q = 1..Len(q) /\ Len(q) \in Nat
  BY <1>1 DEF Chunks
<1>3. q # <<>> => Len(q) \in DOMAIN q /\ q[Len(q)] \in Nat
  BY <1>1
<1>4. q = <<>> => DOMAIN q = {}
  OBVIOUS
<1> HIDE DEF q, R
<1>5. m \in Nat /\ lo <= m /\ m <= hi
  <2>1. CASE q = <<>>
    BY <2>1
  <2>2. CASE q # <<>>
    <3>1. lo < q[Len(q)] /\ q[Len(q)] <= hi /\ m = q[Len(q)]
      BY <1>2, <1>3, <2>2 DEF Chunk
    <3> QED BY <1>3, <2>2, <3>1
  <2> QED BY <2>1, <2>2
<1>6. Chunk(q, lo, m)
  <2>1. ASSUME NEW i \in DOMAIN q PROVE lo < q[i] /\ q[i] <= m
    <3>1. i \in Nat /\ i <= Len(q) /\ m = q[Len(q)] /\ q[i] \in Nat
      BY <1>1, <1>2, <1>4
    <3>2. lo < q[i]
      BY <1>2 DEF Chunk
    <3>3. CASE i = Len(q)
      BY <3>1, <3>2, <3>3
    <3>4. CASE i < Len(q)
      <4>1. Len(q) \in DOMAIN q /\ q[Len(q)] \in Nat
        BY <1>3, <1>4
      <4>2. q[i] < q[Len(q)]
        BY <1>2, <3>4, <4>1 DEF Chunk
      <4> QED BY <3>1, <3>2, <4>1, <4>2
    <3> QED BY <1>2, <3>1, <3>3, <3>4
  <2> QED BY <1>2, <2>1 DEF Chunk
<1>7. Chunks(R, m, hi)
  <2>1. ASSUME NEW k \in DOMAIN R, NEW i \in DOMAIN R[k] PROVE m < R[k][i] /\ R[k][i] <= hi
    <3>1. Chunk(R[k], lo, hi)
      BY <1>1 DEF Chunks
    <3>2. q # <<>> => q[Len(q)] < R[k][i]
      BY <1>1, <1>3 DEF Chunks
    <3> QED BY <3>1, <3>2 DEF Chunk
  <2>2. ASSUME NEW k \in DOMAIN R PROVE Chunk(R[k], lo, hi)
    BY <1>1 DEF Chunks
  <2>3. ASSUME NEW k \in DOMAIN R PROVE Chunk(R[k], m, hi)
    BY <2>1, <2>2 DEF Chunk
  <2>4. ASSUME NEW k \in DOMAIN R, NEW l \in DOMAIN R, k < l PROVE k + 1 < l + 1
    BY <1>1, <2>4
  <2> QED BY <1>1, <2>3, <2>4 DEF Chunks
<1> QED BY <1>1, <1>5, <1>6, <1>7 DEF q, R

-----------------------------------------------------------------------------
(* The bytes of the sessions of S in the frames of q.                       *)

Pieces(q, S) == [k \in DOMAIN q |-> IF q[k].sess \in S THEN q[k].data ELSE <<>>]

LEMMA PiecesTypes ==
    ASSUME NEW q \in Seq(Frames), NEW S
    PROVE  Pieces(q, S) \in Seq(Seq(Nat)) /\ DOMAIN Pieces(q, S) = DOMAIN q
<1>1. \A k \in 1..Len(q) : q[k] \in Frames
  OBVIOUS
<1>2. \A k \in 1..Len(q) : (IF q[k].sess \in S THEN q[k].data ELSE <<>>) \in Seq(Nat)
  BY <1>1, FrameTypes, Singles
<1>3. DOMAIN q = 1..Len(q) /\ Len(q) \in Nat
  OBVIOUS
<1> QED BY <1>2, <1>3 DEF Pieces

LEMMA PiecesAppend ==
    ASSUME NEW q \in Seq(Frames), NEW f \in Frames, NEW S
    PROVE  Pieces(Append(q, f), S) = Append(Pieces(q, S), IF f.sess \in S THEN f.data ELSE <<>>)
<1> DEFINE x == IF f.sess \in S THEN f.data ELSE <<>>
           p == Pieces(q, S)
           l == Pieces(Append(q, f), S)
           r == Append(p, x)
           n == Len(q)
<1>1. x \in Seq(Nat)
  BY FrameTypes, Singles
<1>2. p \in Seq(Seq(Nat)) /\ DOMAIN p = DOMAIN q
  BY PiecesTypes
<1>3. /\ Append(q, f) \in Seq(Frames) /\ n \in Nat /\ DOMAIN Append(q, f) = 1..(n + 1)
      /\ DOMAIN q = 1..n /\ (\A i \in 1..n : Append(q, f)[i] = q[i]) /\ Append(q, f)[n + 1] = f
  BY Appended
<1>4. l \in Seq(Seq(Nat)) /\ DOMAIN l = 1..(n + 1)
  BY <1>3, PiecesTypes
<1>5. Len(p) = n
  BY <1>2, <1>3
<1>6. /\ r \in Seq(Seq(Nat)) /\ DOMAIN r = 1..(n + 1)
      /\ (\A i \in 1..n : r[i] = p[i]) /\ r[n + 1] = x
  <2> HIDE DEF p, x
  <2> QED BY <1>1, <1>2, <1>3, <1>5, Appended
<1>7. ASSUME NEW i \in 1..(n + 1) PROVE l[i] = r[i]
  <2>1. l[i] = IF Append(q, f)[i].sess \in S THEN Append(q, f)[i].data ELSE <<>>
    BY <1>3 DEF Pieces
  <2>2. CASE i = n + 1
    BY <1>3, <1>6, <2>1, <2>2
  <2>3. CASE i \in 1..n
    <3>1. p[i] = IF q[i].sess \in S THEN q[i].data ELSE <<>>
      BY <1>3, <2>3 DEF Pieces
    <3> QED BY <1>3, <1>6, <2>1, <2>3, <3>1
  <2>4. i = n + 1 \/ i \in 1..n
    <3> HIDE DEF n
    <3> QED BY <1>3
  <2> HIDE DEF l, r
  <2> QED BY <2>2, <2>3, <2>4
<1> HIDE DEF l, r
<1>8. l = r
  BY <1>3, <1>4, <1>6, <1>7
<1> QED BY <1>8 DEF l, r

LEMMA PiecesTail ==
    ASSUME NEW q \in Seq(Frames), q # <<>>, NEW S
    PROVE  /\ Pieces(q, S) # <<>>
           /\ Head(Pieces(q, S)) = IF Head(q).sess \in S THEN Head(q).data ELSE <<>>
           /\ Tail(Pieces(q, S)) = Pieces(Tail(q), S)
<1> DEFINE p == Pieces(q, S)
           l == Tail(p)
           r == Pieces(Tail(q), S)
           n == Len(q)
<1>1. p \in Seq(Seq(Nat)) /\ DOMAIN p = DOMAIN q
  BY PiecesTypes
<1>2. /\ Tail(q) \in Seq(Frames) /\ n \in Nat /\ Head(q) = q[1] /\ 1 \in DOMAIN q /\ DOMAIN q = 1..n
      /\ DOMAIN Tail(q) = 1..(n - 1)
      /\ \A i \in 1..(n - 1) : i \in Nat /\ i + 1 \in DOMAIN q /\ Tail(q)[i] = q[i + 1]
  BY Taken
<1>3. p # <<>>
  <2>1. 1 \in DOMAIN p
    BY <1>1, <1>2
  <2> HIDE DEF p
  <2> QED BY <2>1
<1>4. /\ Head(p) = p[1] /\ l \in Seq(Seq(Nat)) /\ DOMAIN l = 1..(n - 1)
      /\ \A i \in 1..(n - 1) : l[i] = p[i + 1]
  <2>1. Len(p) = n
    BY <1>1, <1>2
  <2> HIDE DEF p
  <2> QED BY <1>1, <1>3, <2>1, Taken
<1>5. r \in Seq(Seq(Nat)) /\ DOMAIN r = 1..(n - 1)
  BY <1>2, PiecesTypes
<1>6. ASSUME NEW i \in 1..(n - 1) PROVE l[i] = r[i]
  <2>1. r[i] = IF Tail(q)[i].sess \in S THEN Tail(q)[i].data ELSE <<>>
    BY <1>2 DEF Pieces
  <2>2. p[i + 1] = IF q[i + 1].sess \in S THEN q[i + 1].data ELSE <<>>
    BY <1>2 DEF Pieces
  <2> QED BY <1>2, <1>4, <2>1, <2>2
<1>7. p[1] = IF q[1].sess \in S THEN q[1].data ELSE <<>>
  BY <1>2 DEF Pieces
<1> HIDE DEF l, r
<1>8. l = r
  BY <1>2, <1>4, <1>5, <1>6
<1> QED BY <1>2, <1>3, <1>4, <1>7, <1>8 DEF l, r

-----------------------------------------------------------------------------
(* Where a session may be.                                                  *)

FramesOf(t) == {f \in Frames : nt[f.sess] = t /\ (f.kind # "data" => f.data = <<>>)}

\* A session's frames are on the stream it was opened on, and only those of
\* kind "data" have bytes ...
LinkPlaces ==
    \A t \in Streams : /\ sending[t] \in FramesOf(t) \cup {None}
                       /\ down[t] \in Seq(FramesOf(t))
                       /\ up[t] \in Seq(FramesOf(t))

\* ... and it has a connection only if it was opened on one.
UserPlaces ==
    \A s \in Sess : /\ proxy[s] = "idle" => nt[s] = None
                    /\ nt[s] = None => proxy[s] \in {"idle", "refused"} /\ sock[s] = "none"
                    /\ sock[s] = "none" => copier[s] = "off"

Places == Types /\ LinkPlaces /\ UserPlaces

LEMMA PlacesInit == Init => Places
<1> SUFFICES ASSUME Init PROVE Places
  OBVIOUS
<1>1. Types
  BY TypesInit
<1>2. LinkPlaces
  <2>1. \A S : <<>> \in Seq(S)
    OBVIOUS
  <2> QED BY <2>1 DEF Init, LinkPlaces
<1>3. UserPlaces
  BY DEF Init, UserPlaces
<1> QED BY <1>1, <1>2, <1>3 DEF Places

LEMMA LinkPlacesKept ==
    ASSUME LinkPlaces, nt' = nt, sending' = sending, down' = down, up' = up
    PROVE  LinkPlaces'
<1>1. \A t \in Streams : FramesOf(t)' = FramesOf(t)
  BY DEF FramesOf
<1> QED BY <1>1 DEF LinkPlaces

LEMMA StartSendPlaces ==
    ASSUME Places, NEW t, NEW f \in Frames, nt[f.sess] = t, f.kind # "data" => f.data = <<>>,
           nt' = nt, StartSend(t, f)
    PROVE  LinkPlaces'
<1>1. \A x \in Streams : FramesOf(x)' = FramesOf(x)
  BY DEF FramesOf
<1>2. f \in FramesOf(t)
  BY DEF FramesOf
<1> QED BY <1>1, <1>2 DEF StartSend, LinkPlaces, Places, Types, LinkTypes

LEMMA SendUpPlaces ==
    ASSUME Places, NEW t, NEW f \in Frames, nt[f.sess] = t, f.kind # "data" => f.data = <<>>,
           nt' = nt, SendUp(t, f)
    PROVE  LinkPlaces'
<1>1. \A x \in Streams : FramesOf(x)' = FramesOf(x)
  BY DEF FramesOf
<1>2. f \in FramesOf(t) /\ UNCHANGED <<sending, down>>
  BY DEF FramesOf, SendUp
<1>3. CASE t \in Streams /\ up' = [up EXCEPT ![t] = Append(up[t], f)]
  <2>1. Append(up[t], f) \in Seq(FramesOf(t))
    BY <1>2, <1>3, Appended DEF LinkPlaces, Places
  <2> QED BY <1>1, <1>2, <1>3, <2>1 DEF LinkPlaces, Places, Types, LinkTypes
<1>4. CASE up' = up
  BY <1>1, <1>2, <1>4 DEF LinkPlaces, Places
<1> QED BY <1>3, <1>4 DEF SendUp, Places, Types, LinkTypes

LEMMA Widened ==
    ASSUME NEW S, NEW R, S \subseteq R, NEW q \in Seq(S)
    PROVE  q \in Seq(R)
  OBVIOUS

LEMMA HandlerPlaces ==
    ASSUME Places, NEW t \in Streams, HandlerStep(t)
    PROVE  LinkPlaces'
<1>1. \A x \in Streams : FramesOf(x)' = FramesOf(x)
  BY DEF FramesOf, HandlerStep, TakeTunnelsMu, RegisterTunnel, Deliver, RecvFails, Sweep, Finish,
         proxyVars
<1>2. CASE Deliver(t)
  <2>1. /\ up[t] # <<>> /\ up' = [up EXCEPT ![t] = Tail(up[t])] /\ UNCHANGED <<sending, down>>
    BY <1>2 DEF Deliver
  <2>2. Tail(up[t]) \in Seq(FramesOf(t))
    BY <2>1, Taken DEF LinkPlaces, Places
  <2> QED BY <1>1, <2>1, <2>2 DEF LinkPlaces, Places, Types, LinkTypes
<1>3. CASE RecvFails(t)
  <2>1. /\ up' = [up EXCEPT ![t] = <<>>] /\ UNCHANGED <<sending, down>>
    BY <1>3 DEF RecvFails
  <2>2. \A S : <<>> \in Seq(S)
    OBVIOUS
  <2> QED BY <1>1, <2>1, <2>2 DEF LinkPlaces, Places, Types, LinkTypes
<1>4. CASE TakeTunnelsMu(t) \/ RegisterTunnel(t) \/ Sweep(t) \/ Finish(t)
  BY <1>4, LinkPlacesKept DEF Places, TakeTunnelsMu, RegisterTunnel, Sweep, Finish, proxyVars, linkVars
<1> QED BY <1>2, <1>3, <1>4 DEF HandlerStep

LEMMA SendPlaces ==
    ASSUME Places, NEW t \in Streams, SendStep(t)
    PROVE  LinkPlaces' /\ sending[t] \in FramesOf(t)
<1>1. \A x \in Streams : FramesOf(x)' = FramesOf(x)
  BY DEF FramesOf, SendStep, SendReturns, SendFails
<1>2. /\ sending[t] \in FramesOf(t)
      /\ sending' = [sending EXCEPT ![t] = None] /\ up' = up
      /\ down' = down \/ down' = [down EXCEPT ![t] = Append(down[t], sending[t])]
  BY DEF SendStep, SendReturns, SendFails, LinkPlaces, Places
<1>3. Append(down[t], sending[t]) \in Seq(FramesOf(t))
  BY <1>2, Appended DEF LinkPlaces, Places
<1>4. \A x \in Streams : down'[x] \in Seq(FramesOf(x))
  BY <1>2, <1>3 DEF LinkPlaces, Places, Types, LinkTypes
<1>5. \A x \in Streams : sending'[x] \in FramesOf(x) \cup {None}
  BY <1>2 DEF LinkPlaces, Places, Types, LinkTypes
<1> QED BY <1>1, <1>2, <1>4, <1>5 DEF LinkPlaces, Places

LEMMA UserPlacesLinks ==
    ASSUME Places, NEW s \in Sess,
           OpenStep(s) \/ ReadStep(s) \/ LookUp(s) \/ Write(s) \/ HangUp(s)
    PROVE  LinkPlaces'
<1>1. CASE LookUp(s)
  <2>1. nt[s] = None /\ nt' = [nt EXCEPT ![s] = current] /\ UNCHANGED <<sending, down, up>>
    BY <1>1 DEF LookUp, UserPlaces, Places, linkVars
  <2>2. \A t \in Streams : FramesOf(t) \subseteq FramesOf(t)'
    <3>1. None \notin Streams /\ \A f \in Frames : f.sess \in Sess
      BY TunnelAssumption, FrameTypes
    <3> QED BY <2>1, <3>1 DEF FramesOf, Places, Types, ProxyTypes
  <2>3. \A t \in Streams : down[t] \in Seq(FramesOf(t)') /\ up[t] \in Seq(FramesOf(t)')
    BY <2>2, Widened DEF LinkPlaces, Places
  <2> QED BY <2>1, <2>2, <2>3 DEF LinkPlaces, Places
<1>2. CASE SendOpen(s)
  <2>1. /\ Frame(s, "open", <<>>) \in Frames
        /\ Frame(s, "open", <<>>).sess = s /\ Frame(s, "open", <<>>).data = <<>>
    BY Singles DEF Frame, Frames, Kinds
  <2>2. nt' = nt /\ StartSend(nt[s], Frame(s, "open", <<>>))
    BY <1>2 DEF SendOpen
  <2> HIDE DEF Frame
  <2> QED BY <2>1, <2>2, StartSendPlaces
<1>3. CASE SendClose(s)
  <2>1. CloseFrame(s) \in Frames /\ CloseFrame(s).sess = s /\ CloseFrame(s).data = <<>>
    BY Singles DEF CloseFrame, Frame, Frames, Kinds
  <2>2. nt' = nt /\ StartSend(nt[s], CloseFrame(s))
    BY <1>3 DEF SendClose
  <2> QED BY <2>1, <2>2, StartSendPlaces
<1>4. CASE Write(s)
  <2>1. written[s] + 1 \in Nat
    BY DEF Places, Types, ProxyTypes
  <2>2. LET f == Frame(s, "data", <<written[s] + 1>>) IN f \in Frames /\ f.sess = s /\ f.kind = "data"
    BY <2>1, Singles DEF Frame, Frames, Kinds
  <2>3. nt' = nt /\ StartSend(nt[s], Frame(s, "data", <<written[s] + 1>>))
    BY <1>4 DEF Write
  <2> QED BY <2>2, <2>3, StartSendPlaces
<1>5. CASE \/ RegisterSession(s) \/ GiveUp(s) \/ HangUp(s) \/ ReadStep(s)
  BY <1>5, LinkPlacesKept DEF Places, RegisterSession, GiveUp, HangUp, RemoveSession, ReadStep, PumpTakes,
     PumpPuts, Read, ReadEof, linkVars, proxyVars
<1> QED BY <1>1, <1>2, <1>3, <1>4, <1>5 DEF OpenStep

LEMMA StreamPlaces ==
    ASSUME Places, NEW t \in Streams, LoopStep(t) \/ Dial(t) \/ Cut(t)
    PROVE  LinkPlaces'
<1>1. \A x \in Streams : FramesOf(x)' = FramesOf(x)
  BY DEF FramesOf, LoopStep, RecvOpen, RecvData, RecvClose, Takes, LoopEnds, Dial, Cut, proxyVars
<1>2. CASE RecvOpen(t) \/ RecvData(t) \/ RecvClose(t)
  <2>1. /\ down[t] # <<>> /\ down' = [down EXCEPT ![t] = Tail(down[t])] /\ UNCHANGED <<sending, up>>
    BY <1>2 DEF RecvOpen, RecvData, RecvClose, Takes
  <2>2. Tail(down[t]) \in Seq(FramesOf(t))
    BY <2>1, Taken DEF LinkPlaces, Places
  <2> QED BY <1>1, <2>1, <2>2 DEF LinkPlaces, Places, Types, LinkTypes
<1>3. CASE Cut(t)
  <2>1. /\ down' = [down EXCEPT ![t] = <<>>] /\ UNCHANGED <<sending, up>>
    BY <1>3 DEF Cut
  <2>2. \A S : <<>> \in Seq(S)
    OBVIOUS
  <2> QED BY <1>1, <2>1, <2>2 DEF LinkPlaces, Places, Types, LinkTypes
<1>4. CASE LoopEnds(t) \/ Dial(t)
  BY <1>4, LinkPlacesKept DEF Places, LoopEnds, Dial, proxyVars, linkVars
<1> QED BY <1>2, <1>3, <1>4 DEF LoopStep

LEMMA ConnPlaces ==
    ASSUME Places, NEW s \in Sess,
           \/ ConnStep(s) \/ Eat(s) \/ TargetCloses(s)
           \/ \E n \in 1..FrameMax : CopyUp(s, n)
    PROVE  LinkPlaces'
<1>1. nt' = nt
  BY DEF ConnStep, Eat, TargetCloses, CopyUp, Connected, DialFails, SendEof, CloseLocal, proxyVars
<1>2. CASE SendEof(s)
  <2>1. CloseFrame(s) \in Frames /\ CloseFrame(s).sess = s /\ CloseFrame(s).data = <<>>
    BY Singles DEF CloseFrame, Frame, Frames, Kinds
  <2> QED BY <1>1, <1>2, <2>1, SendUpPlaces DEF SendEof
<1>3. ASSUME NEW n \in 1..FrameMax, CopyUp(s, n) PROVE LinkPlaces'
  <2> DEFINE m == produced[s]
             f == Frame(s, "data", [i \in 1..n |-> m + i])
  <2>1. n \in Nat /\ m \in Nat
    BY TunnelAssumption DEF Places, Types, AgentTypes
  <2>2. SendUp(nt[s], f)
    BY <1>3 DEF CopyUp
  <2> HIDE DEF m
  <2>3. [i \in 1..n |-> m + i] \in Seq(Nat)
    BY <2>1, Numbered
  <2>4. f \in Frames /\ f.sess = s /\ f.kind = "data"
    BY <2>3 DEF Frame, Frames, Kinds
  <2> HIDE DEF f
  <2> QED BY <1>1, <2>2, <2>4, SendUpPlaces
<1>4. CASE Connected(s) \/ DialFails(s) \/ CloseLocal(s) \/ Eat(s) \/ TargetCloses(s)
  BY <1>1, <1>4, LinkPlacesKept DEF Places, Connected, DialFails, CloseLocal, Eat, TargetCloses, linkVars
<1> QED BY <1>2, <1>3, <1>4 DEF ConnStep

\* The users: who has left "idle" has a stream.
LEMMA UserPlacesKept ==
    ASSUME UserPlaces, UNCHANGED <<nt, proxy, sock, copier>>
    PROVE  UserPlaces'
  BY DEF UserPlaces

LEMMA UserPlacesMoves ==
    ASSUME Places, NEW s \in Sess, NEW phase, phase # "idle", Becomes(s, phase),
           proxy[s] \notin {"idle", "refused"}, UNCHANGED <<nt, sock, copier>>
    PROVE  UserPlaces'
  BY DEF Becomes, UserPlaces, Places, Types, ProxyTypes

LEMMA UserPlacesShut ==
    ASSUME Places, NEW S, ShutAll(S), UNCHANGED <<nt, proxy>>,
           \A s \in Sess : copier[s] = "off" => copier'[s] = "off"
    PROVE  UserPlaces'
<1>1. \A s \in Sess : sock'[s] = "none" <=> sock[s] = "none"
  BY DEF ShutAll
<1> QED BY <1>1 DEF UserPlaces, Places

LEMMA UserPlacesStep ==
    ASSUME Places, Next
    PROVE  UserPlaces'
<1> USE DEF Places
<1>1. ASSUME NEW t \in Streams, HandlerStep(t) PROVE UserPlaces'
  BY <1>1, UserPlacesKept DEF HandlerStep, TakeTunnelsMu, RegisterTunnel, Deliver, RecvFails, Sweep, Finish,
     proxyVars, agentVars, connVars
<1>2. ASSUME NEW t \in Streams, SendStep(t) PROVE UserPlaces'
  <2>1. sending[t] \in FramesOf(t) /\ UNCHANGED <<nt, sock, copier>>
    BY <1>2, SendPlaces DEF SendStep, SendReturns, SendFails, agentVars, connVars
  <2> DEFINE s == sending[t].sess
  <2>2. s \in Sess /\ nt[s] # None
    BY <2>1, FrameTypes, TunnelAssumption DEF FramesOf
  <2>3. \/ proxy' = proxy
        \/ \E phase \in {"open", "failing"} : proxy' = [proxy EXCEPT ![s] = phase]
    BY <1>2 DEF SendStep, SendReturns, SendFails, AfterSend
  <2> HIDE DEF s
  <2> QED BY <2>1, <2>2, <2>3 DEF UserPlaces, Types, ProxyTypes
<1>3. ASSUME NEW t \in Streams, RecvOpen(t) PROVE UserPlaces'
  <2>1. Takes(t, "open")
    BY <1>3 DEF RecvOpen
  <2>2. down[t] # <<>> /\ UNCHANGED <<nt, proxy, copier>>
    BY <1>3, <2>1 DEF RecvOpen, Takes, proxyVars
  <2>3. Head(down[t]) \in FramesOf(t)
    BY <2>2, Taken DEF LinkPlaces
  <2>4. Head(down[t]).sess \in Sess /\ nt[Head(down[t]).sess] # None
    BY <2>3, FrameTypes, TunnelAssumption DEF FramesOf
  <2>5. sock' = [sock EXCEPT ![Head(down[t]).sess] = "dialing"]
    BY <1>3 DEF RecvOpen
  <2> QED BY <2>2, <2>4, <2>5 DEF UserPlaces, Types, AgentTypes
<1>4. ASSUME NEW t \in Streams, RecvClose(t) \/ LoopEnds(t) PROVE UserPlaces'
  BY <1>4, UserPlacesShut DEF RecvClose, CloseSession, Takes, LoopEnds, proxyVars
<1>5. ASSUME NEW t \in Streams, RecvData(t) \/ Dial(t) \/ Cut(t) PROVE UserPlaces'
  BY <1>5, UserPlacesKept DEF RecvData, Takes, Dial, Cut, proxyVars, agentVars, connVars
<1>6. ASSUME NEW s \in Sess, RegisterSession(s) \/ SendOpen(s) \/ SendClose(s) \/ GiveUp(s)
                             \/ HangUp(s) \/ ReadEof(s)
      PROVE  UserPlaces'
  BY <1>6, UserPlacesMoves DEF RegisterSession, SendOpen, SendClose, GiveUp, HangUp, RemoveSession, ReadEof,
     agentVars, connVars
<1>7. ASSUME NEW s \in Sess, PumpTakes(s) \/ PumpPuts(s) \/ Read(s) \/ Write(s) \/ Eat(s) PROVE UserPlaces'
  BY <1>7, UserPlacesKept DEF PumpTakes, PumpPuts, Read, Write, Eat, proxyVars, agentVars, connVars
<1>8. ASSUME NEW s \in Sess, LookUp(s) PROVE UserPlaces'
  <2>1. /\ proxy' = [proxy EXCEPT ![s] = IF current = None THEN "refused" ELSE "found"]
        /\ nt' = [nt EXCEPT ![s] = current] /\ UNCHANGED <<sock, copier>> /\ nt[s] = None
    BY <1>8 DEF LookUp, Becomes, agentVars, connVars, UserPlaces
  <2> QED BY <2>1 DEF UserPlaces, Types, ProxyTypes
<1>9. ASSUME NEW s \in Sess, Connected(s) \/ DialFails(s) \/ TargetCloses(s) PROVE UserPlaces'
  BY <1>9 DEF Connected, DialFails, TargetCloses, UserPlaces, Types, AgentTypes, proxyVars
<1>10. ASSUME NEW s \in Sess, SendEof(s) \/ \E n \in 1..FrameMax : CopyUp(s, n) PROVE UserPlaces'
  <2>1. copier[s] # "off" /\ UNCHANGED <<nt, proxy, sock>> /\ \A x \in Sess : x # s => copier'[x] = copier[x]
    BY <1>10 DEF SendEof, CopyUp, proxyVars, Types, AgentTypes
  <2> QED BY <2>1 DEF UserPlaces
<1>11. ASSUME NEW s \in Sess, CloseLocal(s) PROVE UserPlaces'
  <2>1. \A x \in Sess : copier[x] = "off" => copier'[x] = "off"
    BY <1>11 DEF CloseLocal, Types, AgentTypes
  <2> QED BY <1>11, <2>1, UserPlacesShut DEF CloseLocal, CloseSession, proxyVars
<1> QED BY <1>1, <1>2, <1>3, <1>4, <1>5, <1>6, <1>7, <1>8, <1>9, <1>10, <1>11
        DEF Next, LoopStep, OpenStep, ReadStep, ConnStep

LEMMA PlacesStep == Places /\ [Next]_vars => Places'
<1> SUFFICES ASSUME Places, [Next]_vars PROVE Places'
  OBVIOUS
<1>1. Types'
  BY TypesStep DEF Places
<1>2. CASE UNCHANGED vars
  BY <1>1, <1>2, LinkPlacesKept, UserPlacesKept
     DEF vars, proxyVars, agentVars, connVars, linkVars, Places
<1>3. CASE Next
  <2>1. LinkPlaces'
    BY <1>3, HandlerPlaces, SendPlaces, UserPlacesLinks, StreamPlaces, ConnPlaces DEF Next
  <2> QED BY <1>1, <1>3, <2>1, UserPlacesStep DEF Places
<1> QED BY <1>2, <1>3

LEMMA PlacesHold == Spec => []Places
  BY PlacesInit, PlacesStep, PTL DEF Spec

-----------------------------------------------------------------------------
(* Output.                                                                  *)

\* What is on its way from the target.
Coming(s, lo) == nt[s] # None => Chunks(Pieces(up[nt[s]], {s}), lo, produced[s])

\* The bytes of a session up to a have been read, those up to b and c have
\* passed the goroutine between the channels, those up to d are delivered.
Marks(s, a, b, c, d) ==
    /\ a <= b /\ b <= c /\ c <= d /\ d <= produced[s]
    /\ Chunk(bytesRead[s], 0, a)
    /\ Chunks(out[s], a, b)
    /\ Chunk(hand[s], b, c)
    /\ Chunks(Pieces(ch[s], Sess), c, d)
    /\ Coming(s, d)

OutputInv == \A s \in Sess : \E a, b, c, d \in Nat : Marks(s, a, b, c, d)

LEMMA OutputInit == Init => OutputInv
<1> SUFFICES ASSUME Init, NEW s \in Sess PROVE Marks(s, 0, 0, 0, 0)
  BY DEF OutputInv
<1>1. produced[s] = 0 /\ bytesRead[s] = <<>> /\ out[s] = <<>> /\ hand[s] = <<>> /\ ch[s] = <<>> /\ nt[s] = None
  BY DEF Init
<1>2. <<>> \in Seq(Seq(Nat)) /\ DOMAIN <<>> = {} /\ Pieces(<<>>, Sess) = <<>>
  BY DEF Pieces
<1>3. Chunk(<<>>, 0, 0) /\ Chunks(<<>>, 0, 0)
  BY <1>2 DEF Chunk, Chunks
<1> QED BY <1>1, <1>2, <1>3 DEF Marks, Coming

\* A close frame has no bytes.
LEMMA ClosedChunks ==
    ASSUME Places, NEW s \in Sess, NEW q \in Seq(Frames), NEW lo \in Nat, NEW hi \in Nat, lo <= hi,
           NEW f \in Frames, NEW S, f.sess \in S => f.data = <<>>, Chunks(Pieces(q, S), lo, hi)
    PROVE  Chunks(Pieces(Append(q, f), S), lo, hi)
<1> DEFINE Q == Pieces(q, S)
<1>1. Pieces(Append(q, f), S) = Append(Q, <<>>)
  BY PiecesAppend
<1>2. Q \in Seq(Seq(Nat)) /\ <<>> \in Seq(Nat) /\ Chunk(<<>>, hi, hi) /\ Chunks(Q, lo, hi) /\ hi <= hi
  BY PiecesTypes, Singles, NoPieces
<1> HIDE DEF Q
<1>3. Chunks(Append(Q, <<>>), lo, hi)
  BY <1>2, ChunksAppend
<1> QED BY <1>1, <1>3

\* A step that at most closes channels and loses frames.
LEMMA OutputKept ==
    ASSUME Places, OutputInv, UNCHANGED <<bytesRead, out, hand, nt, produced>>,
           \A s \in Sess : ch'[s] \in {ch[s], Offer(ch[s], CloseFrame(s))},
           \A t \in Streams : up'[t] \in {up[t], <<>>}
    PROVE  OutputInv'
<1> SUFFICES ASSUME NEW s \in Sess, NEW a \in Nat, NEW b \in Nat, NEW c \in Nat, NEW d \in Nat, Marks(s, a, b, c, d)
             PROVE  Marks(s, a, b, c, d)'
  BY DEF OutputInv
<1>1. produced[s] \in Nat /\ ch[s] \in Seq(Frames) /\ nt[s] \in Streams \cup {None}
  BY DEF Places, Types, ServerTypes, ProxyTypes, AgentTypes
<1>2. Chunks(Pieces(ch'[s], Sess), c, d)
  <2>1. CloseFrame(s) \in Frames /\ CloseFrame(s).data = <<>>
    BY Singles DEF CloseFrame, Frame, Frames, Kinds
  <2>2. ch'[s] \in {ch[s], Append(ch[s], CloseFrame(s))}
    BY DEF Offer
  <2> QED BY <1>1, <2>1, <2>2, ClosedChunks DEF Marks
<1>3. nt[s] # None => Chunks(Pieces(up'[nt[s]], {s}), d, produced[s])
  <2>1. Pieces(<<>>, {s}) \in Seq(Seq(Nat)) /\ DOMAIN Pieces(<<>>, {s}) = {}
    BY DEF Pieces
  <2>2. Chunks(Pieces(<<>>, {s}), d, produced[s])
    BY <1>1, <2>1, NoPieces
  <2> QED BY <1>1, <2>2 DEF Marks, Coming
<1> QED BY <1>2, <1>3 DEF Marks, Coming

\* The next frame is delivered or dropped.
LEMMA DeliverOutput ==
    ASSUME Places, OutputInv, NEW t \in Streams, Deliver(t)
    PROVE  OutputInv'
<1> SUFFICES ASSUME NEW s \in Sess, NEW a \in Nat, NEW b \in Nat, NEW c \in Nat, NEW d \in Nat, Marks(s, a, b, c, d)
             PROVE  \E m \in Nat : Marks(s, a, b, c, m)'
  BY DEF OutputInv
<1> DEFINE f == Head(up[t])
           p == produced[s]
           U == Pieces(up[t], {s})
           x == IF f.sess \in {s} THEN f.data ELSE <<>>
<1>1. /\ p \in Nat /\ ch[s] \in Seq(Frames) /\ up \in [Streams -> Seq(Frames)] /\ ch \in [Sess -> Seq(Frames)]
      /\ nt[s] \in Streams \cup {None}
  BY DEF Places, Types, ServerTypes, ProxyTypes, AgentTypes, LinkTypes
<1>2. /\ up[t] # <<>> /\ up' = [up EXCEPT ![t] = Tail(up[t])]
      /\ ch' = (IF f.sess \in On(t) THEN [ch EXCEPT ![f.sess] = Offer(ch[f.sess], f)] ELSE ch)
      /\ UNCHANGED <<bytesRead, out, hand, nt, produced>>
  BY DEF Deliver, proxyVars, pumpVars, agentVars, connVars
<1>3. f \in Frames /\ f.sess \in Sess /\ f.data \in Seq(Nat)
  BY <1>1, <1>2, Taken, FrameTypes
<1>4. U \in Seq(Seq(Nat)) /\ U # <<>> /\ Head(U) = x /\ Tail(U) = Pieces(Tail(up[t]), {s})
  BY <1>1, <1>2, PiecesTypes, PiecesTail
<1>5. up'[t] = Tail(up[t]) /\ \A y \in Streams : y # t => up'[y] = up[y]
  BY <1>1, <1>2
<1>6. CASE nt[s] = t
  <2>1. Chunks(U, d, p) /\ d <= p
    BY <1>6, TunnelAssumption DEF Marks, Coming
  <2> HIDE DEF U, x, p, f
  <2>2. PICK m \in Nat : d <= m /\ m <= p /\ Chunk(x, d, m) /\ Chunks(Tail(U), m, p)
    BY <1>1, <1>4, <2>1, ChunksTail
  <2>3. CASE ch'[s] = ch[s]
    <3>1. Tail(U) \in Seq(Seq(Nat))
      BY <1>4, Taken
    <3>2. p \in Nat /\ p <= p
      BY <1>1
    <3>3. Chunks(Tail(U), d, p)
      BY <2>2, <3>1, <3>2, ChunksWiden
    <3>4. Marks(s, a, b, c, d)'
      BY <1>2, <1>4, <1>5, <1>6, <2>3, <3>3 DEF Marks, Coming, p
    <3> QED BY <3>4
  <2>4. CASE ch'[s] # ch[s]
    <3>1. f.sess = s /\ ch'[s] = Append(ch[s], f)
      BY <1>1, <1>2, <1>3, <2>4 DEF Offer
    <3>2. Pieces(Append(ch[s], f), Sess) = Append(Pieces(ch[s], Sess), x)
      BY <1>1, <1>3, <3>1, PiecesAppend DEF x
    <3>3. Pieces(ch[s], Sess) \in Seq(Seq(Nat)) /\ x \in Seq(Nat) /\ c <= d /\ Chunks(Pieces(ch[s], Sess), c, d)
      BY <1>1, <1>3, <3>1, PiecesTypes DEF x, Marks
    <3>4. Chunks(Pieces(ch'[s], Sess), c, m)
      BY <2>2, <3>1, <3>2, <3>3, ChunksAppend
    <3>5. Chunks(Pieces(up'[nt[s]], {s}), m, p)
      BY <1>4, <1>5, <1>6, <2>2
    <3>6. c <= m /\ m <= p
      BY <2>2, <3>3
    <3>7. Marks(s, a, b, c, m)'
      BY <1>2, <3>4, <3>5, <3>6 DEF Marks, Coming, p
    <3> QED BY <3>7
  <2> QED BY <2>3, <2>4
<1>7. CASE nt[s] # t
  <2>1. f.sess = s => f.sess \notin On(t)
    BY <1>7 DEF On
  <2> HIDE DEF f
  <2>2. ch'[s] = ch[s]
    BY <1>1, <1>2, <1>3, <2>1
  <2>3. Marks(s, a, b, c, d)'
    BY <1>1, <1>2, <1>5, <1>7, <2>2 DEF Marks, Coming
  <2> QED BY <2>3
<1> QED BY <1>6, <1>7

\* A session's own steps leave the others alone.
LEMMA OthersOutput ==
    ASSUME OutputInv, NEW s \in Sess,
           \A x \in Sess : x # s =>
             /\ bytesRead'[x] = bytesRead[x] /\ out'[x] = out[x] /\ hand'[x] = hand[x]
             /\ ch'[x] = ch[x] /\ produced'[x] = produced[x] /\ nt'[x] = nt[x],
           up' = up,
           \E a, b, c, d \in Nat : Marks(s, a, b, c, d)'
    PROVE  OutputInv'
<1> SUFFICES ASSUME NEW x \in Sess, x # s PROVE \E a, b, c, d \in Nat : Marks(x, a, b, c, d)'
  BY DEF OutputInv
<1>1. PICK a \in Nat, b \in Nat, c \in Nat, d \in Nat : Marks(x, a, b, c, d)
  BY DEF OutputInv
<1>2. Marks(x, a, b, c, d)'
  BY <1>1 DEF Marks, Coming
<1> QED BY <1>2

LEMMA PumpTakesOutput ==
    ASSUME Places, OutputInv, NEW s \in Sess, PumpTakes(s)
    PROVE  OutputInv'
<1> DEFINE Q == Pieces(ch[s], Sess)
           f == Head(ch[s])
<1>1. PICK a \in Nat, b \in Nat, c \in Nat, d \in Nat : Marks(s, a, b, c, d)
  BY DEF OutputInv
<1>2. ch[s] \in Seq(Frames) /\ ch \in [Sess -> Seq(Frames)] /\ hand \in [Sess -> Seq(Nat)] /\ produced[s] \in Nat
  BY DEF Places, Types, ServerTypes, PumpTypes, AgentTypes
<1>3. /\ ch[s] # <<>> /\ ch' = [ch EXCEPT ![s] = Tail(ch[s])] /\ hand' = [hand EXCEPT ![s] = f.data]
      /\ UNCHANGED <<bytesRead, out, nt, produced, up>>
  BY DEF PumpTakes, proxyVars, agentVars, connVars, linkVars
<1>4. f \in Frames /\ f.sess \in Sess
  BY <1>2, <1>3, Taken, FrameTypes
<1>5. Q \in Seq(Seq(Nat)) /\ Q # <<>> /\ Head(Q) = f.data /\ Tail(Q) = Pieces(Tail(ch[s]), Sess)
  BY <1>2, <1>3, <1>4, PiecesTypes, PiecesTail
<1>6. c <= d /\ Chunks(Q, c, d)
  BY <1>1 DEF Marks
<1> HIDE DEF Q, f
<1>7. PICK m \in Nat : c <= m /\ m <= d /\ Chunk(f.data, c, m) /\ Chunks(Tail(Q), m, d)
  BY <1>5, <1>6, ChunksTail
<1>8. Chunk(f.data, b, m) /\ b <= m
  BY <1>1, <1>2, <1>4, <1>7, ChunkWiden, FrameTypes DEF Marks
<1>9. hand'[s] = f.data /\ ch'[s] = Tail(ch[s])
  BY <1>2, <1>3
<1>10. Marks(s, a, b, m, d)'
  BY <1>1, <1>3, <1>5, <1>7, <1>8, <1>9 DEF Marks, Coming
<1>11. \A x \in Sess : x # s => hand'[x] = hand[x] /\ ch'[x] = ch[x]
  BY <1>2, <1>3
<1> QED BY <1>3, <1>10, <1>11, OthersOutput

LEMMA PumpPutsOutput ==
    ASSUME Places, OutputInv, NEW s \in Sess, PumpPuts(s)
    PROVE  OutputInv'
<1>1. PICK a \in Nat, b \in Nat, c \in Nat, d \in Nat : Marks(s, a, b, c, d)
  BY DEF OutputInv
<1>2. out \in [Sess -> Seq(Seq(Nat))] /\ hand \in [Sess -> Seq(Nat)] /\ out[s] \in Seq(Seq(Nat)) /\ hand[s] \in Seq(Nat)
  BY DEF Places, Types, PumpTypes
<1>3. /\ out' = [out EXCEPT ![s] = Append(out[s], hand[s])] /\ hand' = [hand EXCEPT ![s] = <<>>]
      /\ UNCHANGED <<bytesRead, ch, nt, produced, up>>
  BY DEF PumpPuts, serverVars, proxyVars, agentVars, connVars, linkVars
<1>4. Chunks(Append(out[s], hand[s]), a, c) /\ a <= c
  BY <1>1, <1>2, ChunksAppend DEF Marks
<1>5. Chunk(<<>>, c, c)
  BY NoPieces
<1>6. out'[s] = Append(out[s], hand[s]) /\ hand'[s] = <<>>
  BY <1>2, <1>3
<1>7. Marks(s, a, c, c, d)'
  BY <1>1, <1>3, <1>4, <1>5, <1>6 DEF Marks, Coming
<1>8. \A x \in Sess : x # s => hand'[x] = hand[x] /\ out'[x] = out[x]
  BY <1>2, <1>3
<1> QED BY <1>3, <1>7, <1>8, OthersOutput

LEMMA ReadOutput ==
    ASSUME Places, OutputInv, NEW s \in Sess, Read(s)
    PROVE  OutputInv'
<1> DEFINE q == Head(out[s])
           room == IF Len(q) < ReadMax THEN Len(q) ELSE ReadMax
           r == bytesRead[s]
<1>1. PICK a \in Nat, b \in Nat, c \in Nat, d \in Nat : Marks(s, a, b, c, d)
  BY DEF OutputInv
<1>2. /\ out \in [Sess -> Seq(Seq(Nat))] /\ bytesRead \in [Sess -> Seq(Nat)] /\ out[s] \in Seq(Seq(Nat)) /\ r \in Seq(Nat)
      /\ produced[s] \in Nat
  BY DEF Places, Types, PumpTypes, ProxyTypes, AgentTypes
<1>3. /\ out[s] # <<>> /\ out' = [out EXCEPT ![s] = Tail(out[s])]
      /\ bytesRead' = [bytesRead EXCEPT ![s] = r \o SubSeq(q, 1, room)]
      /\ UNCHANGED <<hand, ch, nt, produced, up>>
  BY DEF Read, serverVars, agentVars, connVars, linkVars
<1>4. PICK m \in Nat : a <= m /\ m <= b /\ Chunk(q, a, m) /\ Chunks(Tail(out[s]), m, b)
  BY <1>1, <1>2, <1>3, ChunksTail DEF Marks
<1>5. q \in Seq(Nat) /\ room \in 0..Len(q)
  BY <1>2, <1>3, Taken, TunnelAssumption
<1> HIDE DEF q, room, r
<1>6. SubSeq(q, 1, room) \in Seq(Nat) /\ Chunk(SubSeq(q, 1, room), a, m)
  BY <1>4, <1>5, ChunkPrefix
<1>7. Chunk(r \o SubSeq(q, 1, room), 0, m)
  <2>1. Chunk(r, 0, a) /\ 0 <= a
    BY <1>1 DEF Marks, r
  <2> QED BY <1>2, <1>4, <1>6, <2>1, ChunkJoin
<1>8. bytesRead'[s] = r \o SubSeq(q, 1, room) /\ out'[s] = Tail(out[s])
  BY <1>2, <1>3
<1>9. Marks(s, m, b, c, d)'
  BY <1>1, <1>3, <1>4, <1>7, <1>8 DEF Marks, Coming
<1>10. \A x \in Sess : x # s => bytesRead'[x] = bytesRead[x] /\ out'[x] = out[x]
  BY <1>2, <1>3
<1> QED BY <1>3, <1>9, <1>10, OthersOutput

LEMMA LookUpOutput ==
    ASSUME Places, OutputInv, NEW s \in Sess, LookUp(s)
    PROVE  OutputInv'
<1>1. PICK a \in Nat, b \in Nat, c \in Nat, d \in Nat : Marks(s, a, b, c, d)
  BY DEF OutputInv
<1>2. /\ nt[s] = None /\ nt' = [nt EXCEPT ![s] = current]
      /\ UNCHANGED <<bytesRead, out, hand, ch, produced, up>>
  BY DEF LookUp, serverVars, pumpVars, agentVars, connVars, linkVars, Places, UserPlaces
<1>3. nt'[s] = current /\ current \in Streams \cup {None} /\ (\A x \in Sess : x # s => nt'[x] = nt[x])
      /\ produced[s] \in Nat
  BY <1>2 DEF Places, Types, ProxyTypes, ServerTypes, AgentTypes
<1>4. ASSUME current \in Streams PROVE Chunks(Pieces(up[current], {s}), d, produced[s])
  <2>1. up[current] \in Seq(FramesOf(current)) /\ up[current] \in Seq(Frames)
    BY <1>4 DEF Places, Types, LinkTypes, LinkPlaces
  <2>2. \A k \in DOMAIN up[current] : up[current][k] \in FramesOf(current)
    BY <2>1
  <2>3. \A k \in DOMAIN up[current] : up[current][k].sess # s
    BY <1>2, <1>4, <2>2, TunnelAssumption DEF FramesOf
  <2>4. \A k \in DOMAIN Pieces(up[current], {s}) : Pieces(up[current], {s})[k] = <<>>
    BY <2>3 DEF Pieces
  <2>5. Pieces(up[current], {s}) \in Seq(Seq(Nat))
    BY <2>1, PiecesTypes
  <2> QED BY <1>3, <2>4, <2>5, NoPieces
<1>5. Marks(s, a, b, c, d)'
  BY <1>1, <1>2, <1>3, <1>4 DEF Marks, Coming
<1> QED BY <1>2, <1>3, <1>5, OthersOutput

\* A frame of session s goes on its way; its bytes have been produced.
LEMMA SendUpOutput ==
    ASSUME Places, OutputInv, NEW s \in Sess, nt[s] # None, NEW f \in Frames, f.sess = s, SendUp(nt[s], f),
           NEW n \in Nat, produced' = [produced EXCEPT ![s] = produced[s] + n],
           Chunk(f.data, produced[s], produced[s] + n),
           UNCHANGED <<bytesRead, out, hand, ch, nt>>
    PROVE  OutputInv'
<1> SUFFICES ASSUME NEW x \in Sess PROVE \E a, b, c, d \in Nat : Marks(x, a, b, c, d)'
  BY DEF OutputInv
<1>0. PICK a \in Nat, b \in Nat, c \in Nat, d \in Nat : Marks(x, a, b, c, d)
  BY DEF OutputInv
<1> DEFINE t == nt[s]
           U == Pieces(up[nt[x]], {x})
<1>1. /\ t \in Streams /\ nt[x] \in Streams \cup {None} /\ produced \in [Sess -> Nat] /\ up \in [Streams -> Seq(Frames)]
      /\ \A y \in Sess : produced[y] \in Nat
  BY DEF Places, Types, ProxyTypes, AgentTypes, LinkTypes
<1>2. up' \in {up, [up EXCEPT ![t] = Append(up[t], f)]}
  BY DEF SendUp
<1>3. d <= produced[x] /\ (nt[x] # None => Chunks(U, d, produced[x]))
  BY <1>0 DEF Marks, Coming
<1>4. produced'[x] \in Nat /\ produced[x] <= produced'[x] /\ (x # s => produced'[x] = produced[x])
      /\ produced'[s] = produced[s] + n
  BY <1>1
<1>5. ASSUME nt[x] # None PROVE Chunks(Pieces(up'[nt[x]], {x}), d, produced'[x])
  <2>1. U \in Seq(Seq(Nat)) /\ up[nt[x]] \in Seq(Frames)
    BY <1>1, <1>5, PiecesTypes
  <2> HIDE DEF U
  <2>2. CASE up'[nt[x]] = up[nt[x]]
    BY <1>1, <1>3, <1>4, <1>5, <2>1, <2>2, ChunksWiden DEF U
  <2>3. CASE nt[x] = t /\ up'[nt[x]] = Append(up[nt[x]], f)
    <3>1. CASE x = s
      <4>1. Pieces(Append(up[nt[x]], f), {x}) = Append(U, f.data)
        BY <2>1, <3>1, PiecesAppend DEF U
      <4>2. Chunks(Append(U, f.data), d, produced'[x])
        BY <1>1, <1>3, <1>4, <1>5, <2>1, <3>1, ChunksAppend, FrameTypes
      <4> QED BY <2>3, <4>1, <4>2
    <3>2. CASE x # s
      <4>1. f.sess \notin {x} /\ produced'[x] = produced[x] /\ produced[x] \in Nat
        BY <1>1, <1>4, <3>2
      <4>2. Chunks(Pieces(Append(up[nt[x]], f), {x}), d, produced[x])
        BY <1>3, <1>5, <2>1, <4>1, ClosedChunks DEF U
      <4> QED BY <2>3, <4>1, <4>2
    <3> QED BY <3>1, <3>2
  <2> QED BY <1>1, <1>2, <1>5, <2>2, <2>3
<1>6. d <= produced'[x]
  BY <1>1, <1>3, <1>4
<1>7. Marks(x, a, b, c, d)'
  BY <1>0, <1>5, <1>6 DEF Marks, Coming
<1> QED BY <1>7

LEMMA CopierOutput ==
    ASSUME Places, OutputInv, NEW s \in Sess, SendEof(s) \/ \E n \in 1..FrameMax : CopyUp(s, n)
    PROVE  OutputInv'
<1>1. nt[s] # None /\ produced[s] \in Nat /\ produced \in [Sess -> Nat] /\ UNCHANGED <<bytesRead, out, hand, ch, nt>>
  BY DEF SendEof, CopyUp, Places, UserPlaces, Types, AgentTypes, serverVars, proxyVars, pumpVars
<1>2. CASE SendEof(s)
  <2>1. CloseFrame(s) \in Frames /\ CloseFrame(s).sess = s /\ CloseFrame(s).data = <<>>
    BY Singles DEF CloseFrame, Frame, Frames, Kinds
  <2>2. produced' = [produced EXCEPT ![s] = produced[s] + 0] /\ SendUp(nt[s], CloseFrame(s))
    BY <1>1, <1>2 DEF SendEof
  <2>3. Chunk(<<>>, produced[s], produced[s] + 0)
    BY <1>1, NoPieces
  <2> QED BY <1>1, <2>1, <2>2, <2>3, SendUpOutput
<1>3. ASSUME NEW n \in 1..FrameMax, CopyUp(s, n) PROVE OutputInv'
  <2> DEFINE m == produced[s]
             q == [i \in 1..n |-> m + i]
             f == Frame(s, "data", q)
  <2>1. n \in Nat /\ m \in Nat
    BY <1>1, TunnelAssumption
  <2>2. SendUp(nt[s], f) /\ produced' = [produced EXCEPT ![s] = produced[s] + n]
    BY <1>3 DEF CopyUp
  <2> HIDE DEF m
  <2>3. q \in Seq(Nat) /\ DOMAIN q = 1..n /\ \A i \in 1..n : q[i] = m + i
    BY <2>1, Numbered
  <2> HIDE DEF q
  <2>4. Chunk(q, m, m + n)
    BY <2>1, <2>3 DEF Chunk
  <2>5. f \in Frames /\ f.sess = s /\ f.data = q
    BY <2>3 DEF Frame, Frames, Kinds
  <2> HIDE DEF f
  <2> QED BY <1>1, <2>1, <2>2, <2>4, <2>5, SendUpOutput DEF m
<1> QED BY <1>2, <1>3

LEMMA OutputStep == Places /\ OutputInv /\ [Next]_vars => OutputInv'
<1> SUFFICES ASSUME Places, OutputInv, [Next]_vars PROVE OutputInv'
  OBVIOUS
<1>1. CASE UNCHANGED vars
  BY <1>1, OutputKept DEF vars, serverVars, proxyVars, pumpVars, agentVars, connVars, linkVars
<1>2. ASSUME NEW t \in Streams, TakeTunnelsMu(t) \/ RecvFails(t) \/ Sweep(t) PROVE OutputInv'
  BY <1>2, OutputKept DEF TakeTunnelsMu, RecvFails, Sweep, serverVars, proxyVars, pumpVars, agentVars,
     connVars, linkVars, Places, Types, LinkTypes
<1>3. ASSUME NEW t \in Streams, RegisterTunnel(t) \/ Finish(t) PROVE OutputInv'
  <2>1. \A s \in Sess : ch'[s] \in {ch[s], Offer(ch[s], CloseFrame(s))}
    BY <1>3 DEF RegisterTunnel, Finish, CloseAll
  <2> QED BY <1>3, <2>1, OutputKept DEF RegisterTunnel, Finish, proxyVars, pumpVars, agentVars, connVars, linkVars
<1>4. ASSUME NEW t \in Streams, SendStep(t) \/ LoopStep(t) \/ Dial(t) \/ Cut(t) PROVE OutputInv'
  BY <1>4, OutputKept DEF SendStep, SendReturns, SendFails, LoopStep, RecvOpen, RecvData, RecvClose, Takes,
     LoopEnds, Dial, Cut, serverVars, proxyVars, pumpVars, agentVars, connVars, linkVars
<1>5. ASSUME NEW s \in Sess, GiveUp(s) \/ HangUp(s) PROVE OutputInv'
  <2>1. \A x \in Sess : ch'[x] \in {ch[x], Offer(ch[x], CloseFrame(x))}
    BY <1>5 DEF GiveUp, HangUp, RemoveSession, Places, Types, ServerTypes
  <2> QED BY <1>5, <2>1, OutputKept DEF GiveUp, HangUp, RemoveSession, pumpVars, agentVars, connVars, linkVars
<1>6. ASSUME NEW s \in Sess, RegisterSession(s) \/ SendOpen(s) \/ SendClose(s) \/ ReadEof(s) \/ Write(s)
      PROVE  OutputInv'
  BY <1>6, OutputKept DEF RegisterSession, SendOpen, SendClose, ReadEof, Write, StartSend, serverVars,
     pumpVars, agentVars, connVars, linkVars
<1>7. ASSUME NEW s \in Sess, Connected(s) \/ DialFails(s) \/ CloseLocal(s) \/ Eat(s) \/ TargetCloses(s)
      PROVE  OutputInv'
  BY <1>7, OutputKept DEF Connected, DialFails, CloseLocal, Eat, TargetCloses, serverVars, proxyVars,
     pumpVars, linkVars
<1> QED BY <1>1, <1>2, <1>3, <1>4, <1>5, <1>6, <1>7, DeliverOutput, PumpTakesOutput, PumpPutsOutput, ReadOutput,
        LookUpOutput, CopierOutput DEF Next, HandlerStep, OpenStep, ReadStep, ConnStep

(* Whatever is dropped between the target and the reader of a session, the  *)
(* bytes it gets are in the order in which the target sent them, none of    *)
(* them twice.                                                              *)
THEOREM OutputKeepsOrder == Spec => []OutputInOrder
<1>1. Places /\ OutputInv => OutputInOrder
  <2> SUFFICES ASSUME OutputInv, NEW s \in Sess,
                      NEW i \in 1..Len(bytesRead[s]), NEW j \in 1..Len(bytesRead[s]), i < j, Places
               PROVE  bytesRead[s][i] < bytesRead[s][j]
    BY DEF OutputInOrder
  <2>1. bytesRead[s] \in Seq(Nat)
    BY DEF Places, Types, ProxyTypes
  <2> QED BY <2>1 DEF OutputInv, Marks, Chunk
<1> QED BY <1>1, PlacesInit, PlacesStep, OutputInit, OutputStep, PTL DEF Spec

-----------------------------------------------------------------------------
(* Input.                                                                   *)

\* The pieces of Q hold the numbers from lo + 1 to hi, at most one each.
Window(Q, lo, hi) ==
    /\ lo <= hi
    /\ Chunks(Q, lo, hi)
    /\ \A k \in DOMAIN Q : Len(Q[k]) <= 1
    /\ \A n \in Nat : lo < n /\ n <= hi => \E k \in DOMAIN Q : Q[k] = <<n>>

LEMMA WindowAppend ==
    ASSUME NEW Q \in Seq(Seq(Nat)), NEW lo \in Nat, NEW hi \in Nat, Window(Q, lo, hi)
    PROVE  Window(Append(Q, <<>>), lo, hi) /\ Window(Append(Q, <<hi + 1>>), lo, hi + 1)
<1> DEFINE n == Len(Q)
<1>1. ASSUME NEW q \in Seq(Nat)
      PROVE  /\ n \in Nat /\ DOMAIN Append(Q, q) = 1..(n + 1) /\ DOMAIN Q = 1..n
             /\ (\A k \in DOMAIN Q : Append(Q, q)[k] = Q[k])
             /\ Append(Q, q)[n + 1] = q
  BY Appended
<1>2. <<>> \in Seq(Nat) /\ <<hi + 1>> \in Seq(Nat) /\ Len(<<>>) <= 1 /\ Len(<<hi + 1>>) <= 1
  BY Singles
<1>3. Chunk(<<>>, hi, hi) /\ Chunk(<<hi + 1>>, hi, hi + 1)
  <2>1. DOMAIN <<hi + 1>> = {1} /\ <<hi + 1>>[1] = hi + 1
    OBVIOUS
  <2> QED BY <2>1, NoPieces DEF Chunk
<1>4. lo <= hi /\ hi <= hi /\ hi + 1 \in Nat /\ hi <= hi + 1 /\ lo <= hi + 1 /\ Chunks(Q, lo, hi)
  BY DEF Window
<1>5. Chunks(Append(Q, <<>>), lo, hi)
  BY <1>2, <1>3, <1>4, ChunksAppend
<1>6. Chunks(Append(Q, <<hi + 1>>), lo, hi + 1)
  <2> DEFINE top == hi + 1
  <2>1. top \in Nat /\ hi <= top /\ <<top>> \in Seq(Nat) /\ Chunk(<<top>>, hi, top)
    BY <1>2, <1>3, <1>4
  <2> HIDE DEF top
  <2>2. Chunks(Append(Q, <<top>>), lo, top)
    BY <1>4, <2>1, ChunksAppend
  <2> QED BY <2>2 DEF top
<1>7. ASSUME NEW q \in Seq(Nat), Len(q) <= 1
      PROVE  /\ \A k \in DOMAIN Append(Q, q) : Len(Append(Q, q)[k]) <= 1
             /\ \A m \in Nat : lo < m /\ m <= hi => \E k \in DOMAIN Append(Q, q) : Append(Q, q)[k] = <<m>>
             /\ \E k \in DOMAIN Append(Q, q) : Append(Q, q)[k] = q
  <2> DEFINE R == Append(Q, q)
  <2>1. /\ n \in Nat /\ DOMAIN R = 1..(n + 1) /\ DOMAIN Q = 1..n
        /\ (\A k \in DOMAIN Q : R[k] = Q[k]) /\ R[n + 1] = q
    BY <1>1
  <2> HIDE DEF n, R
  <2>2. /\ \A k \in DOMAIN R : k \in DOMAIN Q \/ k = n + 1
        /\ \A k \in DOMAIN Q : k \in DOMAIN R
        /\ n + 1 \in DOMAIN R
    BY <2>1
  <2>3. \A k \in DOMAIN R : Len(R[k]) <= 1
    BY <1>7, <2>1, <2>2 DEF Window
  <2>4. ASSUME NEW m \in Nat, lo < m, m <= hi PROVE \E k \in DOMAIN R : R[k] = <<m>>
    <3>1. PICK k \in DOMAIN Q : Q[k] = <<m>>
      BY <2>4 DEF Window
    <3> QED BY <2>1, <2>2, <3>1
  <2>5. \E k \in DOMAIN R : R[k] = q
    BY <2>1, <2>2
  <2> QED BY <2>3, <2>4, <2>5 DEF R
<1>8. Window(Append(Q, <<>>), lo, hi)
  BY <1>2, <1>4, <1>5, <1>7 DEF Window
<1>9. Window(Append(Q, <<hi + 1>>), lo, hi + 1)
  <2> DEFINE R == Append(Q, <<hi + 1>>)
  <2>1. /\ \A k \in DOMAIN R : Len(R[k]) <= 1
        /\ \A m \in Nat : lo < m /\ m <= hi => \E k \in DOMAIN R : R[k] = <<m>>
        /\ \E k \in DOMAIN R : R[k] = <<hi + 1>>
    BY <1>2, <1>7
  <2> HIDE DEF R
  <2>2. ASSUME NEW m \in Nat, lo < m, m <= hi + 1 PROVE \E k \in DOMAIN R : R[k] = <<m>>
    <3>1. m <= hi \/ m = hi + 1
      BY <2>2
    <3> QED BY <2>1, <2>2, <3>1
  <2>3. Chunks(R, lo, hi + 1)
    BY <1>6 DEF R
  <2>4. Window(R, lo, hi + 1)
    BY <1>4, <2>1, <2>2, <2>3 DEF Window
  <2> QED BY <2>4 DEF R
<1> QED BY <1>8, <1>9

LEMMA WindowTail ==
    ASSUME NEW Q \in Seq(Seq(Nat)), Q # <<>>, NEW lo \in Nat, NEW hi \in Nat, Window(Q, lo, hi)
    PROVE  \/ Head(Q) = <<>> /\ Window(Tail(Q), lo, hi)
           \/ Head(Q) = <<lo + 1>> /\ Window(Tail(Q), lo + 1, hi)
<1> DEFINE q == Head(Q)
           R == Tail(Q)
<1>1. /\ R \in Seq(Seq(Nat)) /\ q = Q[1] /\ q \in Seq(Nat) /\ 1 \in DOMAIN Q /\ DOMAIN Q = 1..Len(Q) /\ Len(Q) \in Nat
      /\ \A k \in DOMAIN R : k \in Nat /\ k + 1 \in DOMAIN Q /\ R[k] = Q[k + 1]
      /\ \A k \in DOMAIN Q : k # 1 => k - 1 \in DOMAIN R /\ R[k - 1] = Q[k]
  BY Taken
<1>2. Len(q) <= 1 /\ lo <= hi /\ Chunks(Q, lo, hi)
  BY <1>1 DEF Window
<1>3. PICK m \in Nat : lo <= m /\ m <= hi /\ Chunk(q, lo, m) /\ Chunks(R, m, hi)
  BY <1>2, ChunksTail
<1> HIDE DEF q, R
<1>4. \A k \in DOMAIN R : Len(R[k]) <= 1
  BY <1>1 DEF Window
<1>5. q = <<>> \/ q = <<q[1]>>
  BY <1>1, <1>2
<1>6. CASE q = <<>>
  <2>1. \A n \in Nat : <<n>> # <<>>
    OBVIOUS
  <2>2. ASSUME NEW n \in Nat, lo < n, n <= hi PROVE \E k \in DOMAIN R : R[k] = <<n>>
    <3>1. PICK k \in DOMAIN Q : Q[k] = <<n>>
      BY <2>2 DEF Window
    <3>2. k # 1
      BY <1>1, <1>6, <2>1, <3>1
    <3> QED BY <1>1, <3>1, <3>2
  <2>3. Chunks(R, lo, hi)
    <3>1. hi <= hi
      OBVIOUS
    <3> QED BY <1>1, <1>3, <3>1, ChunksWiden
  <2> QED BY <1>2, <1>4, <1>6, <2>2, <2>3 DEF Window, q, R
<1>7. CASE q = <<q[1]>>
  <2> DEFINE x == q[1]
  <2>1. q = <<x>> /\ x \in Nat /\ 1 \in DOMAIN q /\ DOMAIN <<x>> = {1} /\ <<x>>[1] = x
    BY <1>1, <1>7
  <2>2. lo < x /\ x <= hi
    <3>1. Chunk(q, lo, hi)
      BY <1>1, <1>2 DEF Chunks
    <3> QED BY <2>1, <3>1 DEF Chunk
  <2> HIDE DEF x
  <2>3. \A k \in DOMAIN R, n \in Nat : R[k] = <<n>> => x < n
    <3>1. ASSUME NEW k \in DOMAIN R, NEW n \in Nat, R[k] = <<n>> PROVE x < n
      <4>1. k + 1 \in DOMAIN Q /\ Q[k + 1] = <<n>> /\ 1 < k + 1 /\ 1 \in DOMAIN Q /\ Q[1] = q /\ k + 1 \in Nat
        BY <1>1, <3>1
      <4>2. 1 \in DOMAIN <<n>> /\ <<n>>[1] = n
        OBVIOUS
      <4>3. \A i \in DOMAIN Q[1], j \in DOMAIN Q[k + 1] : Q[1][i] < Q[k + 1][j]
        BY <1>2, <4>1 DEF Chunks
      <4>4. Q[1][1] < Q[k + 1][1]
        BY <2>1, <4>1, <4>2, <4>3
      <4> QED BY <2>1, <4>1, <4>2, <4>4 DEF x
    <3> QED BY <3>1
  <2>4. x = lo + 1
    <3>1. lo + 1 \in Nat /\ lo < lo + 1 /\ lo + 1 <= hi
      BY <2>1, <2>2
    <3>2. PICK k \in DOMAIN Q : Q[k] = <<lo + 1>>
      BY <3>1 DEF Window
    <3>3. CASE k = 1
      <4>1. <<lo + 1>> = <<x>> /\ <<lo + 1>>[1] = lo + 1
        BY <1>1, <2>1, <3>2, <3>3
      <4> QED BY <2>1, <4>1
    <3>4. CASE k # 1
      <4>1. x < lo + 1
        BY <1>1, <2>3, <3>1, <3>2, <3>4
      <4> QED BY <2>1, <2>2, <4>1
    <3> QED BY <3>3, <3>4
  <2>5. ASSUME NEW n \in Nat, lo + 1 < n, n <= hi PROVE \E k \in DOMAIN R : R[k] = <<n>>
    <3>1. PICK k \in DOMAIN Q : Q[k] = <<n>>
      BY <2>5 DEF Window
    <3>2. k # 1
      <4>1. ASSUME k = 1 PROVE FALSE
        <5>1. <<n>> = <<x>>
          BY <1>1, <2>1, <3>1, <4>1
        <5>2. <<n>>[1] = n
          OBVIOUS
        <5> QED BY <2>1, <2>4, <2>5, <5>1, <5>2
      <4> QED BY <4>1
    <3> QED BY <1>1, <3>1, <3>2
  <2>6. Chunks(R, lo + 1, hi)
    <3>1. x <= m
      BY <1>3, <2>1 DEF Chunk, x
    <3>2. hi <= hi /\ lo + 1 \in Nat /\ lo + 1 <= m
      BY <2>4, <3>1
    <3> QED BY <1>1, <1>3, <3>2, ChunksWiden
  <2>7. lo + 1 <= hi
    BY <2>2, <2>4
  <2>8. Window(R, lo + 1, hi)
    BY <1>4, <2>5, <2>6, <2>7 DEF Window
  <2> QED BY <2>1, <2>4, <2>8 DEF q, R
<1> QED BY <1>5, <1>6, <1>7

\* A stream whose handler stops is broken, and a broken one carries nothing.
CutInv ==
    /\ \A t \in Streams : tunnel[t] \in {"ending", "swept", "done"} => t \in cut
    /\ \A t \in cut : down[t] = <<>>

LEMMA CutKept ==
    ASSUME CutInv, UNCHANGED <<tunnel, cut, down>>
    PROVE  CutInv'
  BY DEF CutInv

LEMMA CutStep == Types /\ CutInv /\ [Next]_vars => CutInv'
<1> SUFFICES ASSUME Types, CutInv, [Next]_vars PROVE CutInv'
  OBVIOUS
<1> USE DEF Types, ServerTypes, LinkTypes
<1>1. CASE UNCHANGED vars
  BY <1>1, CutKept DEF vars, serverVars, linkVars
<1>2. ASSUME NEW t \in Streams, HandlerStep(t) PROVE CutInv'
  BY <1>2 DEF HandlerStep, TakeTunnelsMu, RegisterTunnel, Deliver, RecvFails, Sweep, Finish, Moves, linkVars, CutInv
<1>3. ASSUME NEW t \in Streams, SendStep(t) PROVE CutInv'
  BY <1>3 DEF SendStep, SendReturns, SendFails, serverVars, CutInv
<1>4. ASSUME NEW t \in Streams, LoopStep(t) PROVE CutInv'
  BY <1>4 DEF LoopStep, RecvOpen, RecvData, RecvClose, Takes, LoopEnds, serverVars, linkVars, CutInv
<1>5. ASSUME NEW t \in Streams, Dial(t) PROVE CutInv'
  BY <1>5 DEF Dial, Moves, linkVars, CutInv
<1>6. ASSUME NEW t \in Streams, Cut(t) PROVE CutInv'
  BY <1>6 DEF Cut, serverVars, CutInv
<1>7. ASSUME NEW s \in Sess, OpenStep(s) \/ ReadStep(s) \/ LookUp(s) \/ Write(s) \/ HangUp(s) PROVE CutInv'
  BY <1>7, CutKept DEF OpenStep, RegisterSession, SendOpen, SendClose, GiveUp, HangUp, RemoveSession, StartSend,
     ReadStep, PumpTakes, PumpPuts, Read, ReadEof, LookUp, Write, serverVars, linkVars
<1>8. ASSUME NEW s \in Sess, ConnStep(s) \/ Eat(s) \/ TargetCloses(s) \/ \E n \in 1..FrameMax : CopyUp(s, n)
      PROVE  CutInv'
  BY <1>8, CutKept DEF ConnStep, Connected, DialFails, SendEof, CloseLocal, Eat, TargetCloses, CopyUp, SendUp,
     serverVars, linkVars
<1> QED BY <1>1, <1>2, <1>3, <1>4, <1>5, <1>6, <1>7, <1>8 DEF Next

\* A user whose open frame has not been sent.
Early == {"idle", "found", "registered", "opening"}

\* The open frame of a session is the first of its frames that is sent, the
\* only one of its kind, and the agent has a connection once it has taken it.
OpenInv ==
    /\ \A t \in Streams : sending[t] # None =>
         (sending[t].kind = "open" <=> proxy[sending[t].sess] \in Early)
    /\ \A t \in Streams : \A i \in DOMAIN down[t] : proxy[down[t][i].sess] \notin Early
    /\ \A t \in Streams : \A i, j \in DOMAIN down[t] :
         i < j /\ down[t][i].sess = down[t][j].sess => down[t][j].kind # "open"
    /\ \A t \in Streams : \A i \in DOMAIN down[t] :
         down[t][i].kind = "open" => sock[down[t][i].sess] = "none"
    /\ \A s \in Sess : proxy[s] \in Early => sock[s] = "none"
    /\ \A s \in Sess :
         proxy[s] \notin Early /\ nt[s] \in Streams \ cut /\ sock[s] = "none" =>
         \E i \in DOMAIN down[nt[s]] : down[nt[s]][i].sess = s /\ down[nt[s]][i].kind = "open"

Order == Places /\ CutInv /\ OpenInv

LEMMA DownFrames ==
    ASSUME Places, NEW t \in Streams, NEW i \in DOMAIN down[t]
    PROVE  /\ down[t][i] \in Frames /\ down[t][i].sess \in Sess /\ nt[down[t][i].sess] = t
           /\ down[t][i].kind # "data" => down[t][i].data = <<>>
<1>1. down[t] \in Seq(FramesOf(t))
  BY DEF Places, LinkPlaces
<1>2. down[t][i] \in FramesOf(t)
  BY <1>1
<1> QED BY <1>2, FrameTypes DEF FramesOf

\* The users go on, past Early or not.
LEMMA OpenKept ==
    ASSUME OpenInv, UNCHANGED <<sending, down, nt, cut>>,
           \A s \in Sess : proxy'[s] \in Early <=> proxy[s] \in Early,
           \A s \in Sess : sock'[s] = "none" <=> sock[s] = "none",
           Types
    PROVE  OpenInv'
<1>1. \A t \in Streams : sending[t] # None => sending[t].sess \in Sess
  BY FrameTypes DEF Types, LinkTypes
<1>2. \A t \in Streams : \A i \in DOMAIN down[t] : down[t][i].sess \in Sess
  BY FrameTypes DEF Types, LinkTypes
<1> QED BY <1>1, <1>2 DEF OpenInv

\* A frame that is not an open frame begins to be sent.
LEMMA StartSendOpen ==
    ASSUME Order, NEW s \in Sess, NEW f \in Frames, f.sess = s, StartSend(nt[s], f),
           f.kind = "open" <=> proxy'[s] \in Early,
           proxy'[s] \in Early <=> proxy[s] \in Early,
           \A x \in Sess : x # s => proxy'[x] = proxy[x],
           UNCHANGED <<nt, sock>>
    PROVE  OpenInv'
<1>1. \A t \in Streams : sending[t] # None => sending[t].sess \in Sess
  BY FrameTypes DEF Order, Places, Types, LinkTypes
<1>2. \A t \in Streams : \A i \in DOMAIN down[t] : down[t][i].sess \in Sess
  BY FrameTypes DEF Order, Places, Types, LinkTypes
<1>3. UNCHANGED <<down, cut>> /\ \A t \in Streams : sending'[t] = sending[t] \/ sending'[t] = f
  BY DEF StartSend, Order, Places, Types, LinkTypes
<1>4. \A x \in Sess : proxy'[x] \in Early <=> proxy[x] \in Early
  OBVIOUS
<1>5. ASSUME NEW t \in Streams, sending'[t] # None
      PROVE  sending'[t].kind = "open" <=> proxy'[sending'[t].sess] \in Early
  BY <1>1, <1>3, <1>4, <1>5 DEF Order, OpenInv
<1> HIDE DEF Early
<1> QED BY <1>2, <1>3, <1>4, <1>5 DEF Order, OpenInv

\* A frame has been sent, or has not.
LEMMA SendOpenInv ==
    ASSUME Order, NEW t \in Streams, SendStep(t)
    PROVE  OpenInv'
<1> DEFINE f == sending[t]
           s == f.sess
           q == down[t]
<1>1. /\ f \in FramesOf(t) /\ f \in Frames /\ s \in Sess /\ nt[s] = t /\ f # None
      /\ UNCHANGED <<nt, sock, cut>> /\ q \in Seq(Frames)
  <2>1. f \in FramesOf(t)
    BY SendPlaces DEF Order
  <2>2. UNCHANGED <<nt, sock, cut>> /\ q \in Seq(Frames)
    BY DEF SendStep, SendReturns, SendFails, agentVars, connVars, Order, Places, Types, LinkTypes
  <2> QED BY <2>1, <2>2, FrameTypes DEF FramesOf
<1>2. sending' = [sending EXCEPT ![t] = None]
  BY DEF SendStep, SendReturns, SendFails
<1>3. /\ \A x \in Sess : x # s => proxy'[x] = proxy[x]
      /\ f.kind # "open" => proxy' = proxy
      /\ f.kind = "open" => proxy'[s] \notin Early
  <2>1. ASSUME NEW phase \in {"open", "failing"}, AfterSend(f, phase)
        PROVE  /\ \A x \in Sess : x # s => proxy'[x] = proxy[x]
               /\ f.kind # "open" => proxy' = proxy
               /\ f.kind = "open" => proxy'[s] \notin Early
    BY <1>1, <2>1 DEF AfterSend, Early, Order, Places, Types, ProxyTypes
  <2> QED BY <2>1 DEF SendStep, SendReturns, SendFails
<1>4. f.kind = "open" <=> proxy[s] \in Early
  BY <1>1 DEF Order, OpenInv
<1>5. proxy'[s] \notin Early /\ \A x \in Sess : proxy'[x] \in Early => proxy[x] \in Early
  BY <1>1, <1>3, <1>4
<1>6. \A x \in Streams : \A i \in DOMAIN down[x] : down[x][i].sess \in Sess /\ nt[down[x][i].sess] = x
  BY DownFrames DEF Order
<1>7. \A x \in Streams : sending[x] # None => sending[x].sess \in Sess /\ nt[sending[x].sess] = x
  BY FrameTypes DEF Order, Places, LinkPlaces, FramesOf
<1>8. sending'[t] = None /\ \A x \in Streams : x # t => sending'[x] = sending[x]
  BY <1>2 DEF Order, Places, Types, LinkTypes
<1>9. \A x \in Streams : sending'[x] # None => (sending'[x].kind = "open" <=> proxy'[sending'[x].sess] \in Early)
  BY <1>1, <1>3, <1>7, <1>8 DEF Order, OpenInv
<1>10. \A x \in Sess : proxy'[x] \in Early => sock'[x] = "none"
  BY <1>1, <1>5 DEF Order, OpenInv
<1>11. CASE t \notin cut /\ down' = [down EXCEPT ![t] = Append(q, f)]
  <2> DEFINE n == Len(q)
             r == Append(q, f)
  <2>1. /\ n \in Nat /\ DOMAIN r = 1..(n + 1) /\ DOMAIN q = 1..n
        /\ (\A i \in DOMAIN q : r[i] = q[i]) /\ r[n + 1] = f
    BY <1>1, Appended
  <2>2. down'[t] = r /\ \A x \in Streams : x # t => down'[x] = down[x]
    BY <1>11 DEF Order, Places, Types, LinkTypes
  <2> HIDE DEF n, r, s, f
  <2>3. /\ \A i \in DOMAIN r : i \in DOMAIN q \/ i = n + 1
        /\ \A i \in DOMAIN q : i \in DOMAIN r /\ i < n + 1
        /\ n + 1 \in DOMAIN r /\ ~(n + 1 < n + 1)
    BY <2>1
  <2>4. \A i \in DOMAIN q : proxy[q[i].sess] \notin Early /\ q[i].sess \in Sess
    BY <1>6 DEF Order, OpenInv
  <2>5. \A i \in DOMAIN r : proxy'[r[i].sess] \notin Early
    BY <1>1, <1>5, <2>1, <2>3, <2>4 DEF s
  <2>6. ASSUME NEW i \in DOMAIN r, NEW j \in DOMAIN r, i < j, r[i].sess = r[j].sess PROVE r[j].kind # "open"
    <3>1. i \in DOMAIN q
      BY <2>1, <2>6
    <3>2. CASE j \in DOMAIN q
      BY <2>1, <2>6, <3>1, <3>2 DEF Order, OpenInv
    <3>3. CASE j = n + 1
      BY <1>4, <2>1, <2>4, <2>6, <3>1, <3>3 DEF s
    <3> QED BY <2>3, <3>2, <3>3
  <2>7. \A i \in DOMAIN r : r[i].kind = "open" => sock[r[i].sess] = "none"
    <3>1. f.kind = "open" => sock[s] = "none"
      BY <1>1, <1>4 DEF Order, OpenInv
    <3>2. \A i \in DOMAIN q : q[i].kind = "open" => sock[q[i].sess] = "none"
      BY DEF Order, OpenInv
    <3> QED BY <2>1, <2>3, <3>1, <3>2 DEF s
  <2>8. ASSUME NEW x \in Sess, proxy'[x] \notin Early, nt[x] \in Streams \ cut, sock[x] = "none"
        PROVE  \E i \in DOMAIN down'[nt[x]] : down'[nt[x]][i].sess = x /\ down'[nt[x]][i].kind = "open"
    <3>1. CASE x = s /\ f.kind = "open"
      BY <1>1, <2>1, <2>2, <2>3, <3>1 DEF s
    <3>2. CASE ~(x = s /\ f.kind = "open")
      <4>1. proxy[x] \notin Early
        BY <1>3, <2>8, <3>2
      <4>2. PICK i \in DOMAIN down[nt[x]] : down[nt[x]][i].sess = x /\ down[nt[x]][i].kind = "open"
        BY <2>8, <4>1 DEF Order, OpenInv
      <4>3. i \in DOMAIN down'[nt[x]] /\ down'[nt[x]][i] = down[nt[x]][i]
        BY <2>1, <2>2, <2>3, <2>8
      <4> QED BY <4>2, <4>3
    <3> QED BY <3>1, <3>2
  <2>9. ASSUME NEW x \in Streams, x # t
        PROVE  /\ \A i \in DOMAIN down'[x] : /\ proxy'[down'[x][i].sess] \notin Early
                                             /\ down'[x][i].kind = "open" => sock[down'[x][i].sess] = "none"
               /\ \A i, j \in DOMAIN down'[x] :
                    i < j /\ down'[x][i].sess = down'[x][j].sess => down'[x][j].kind # "open"
    BY <1>5, <1>6, <2>2, <2>9 DEF Order, OpenInv
  <2> QED BY <1>1, <1>9, <1>10, <2>2, <2>5, <2>6, <2>7, <2>8, <2>9 DEF OpenInv
<1>12. CASE t \in cut /\ down' = down
  <2>1. \A x \in Streams : \A i \in DOMAIN down[x] : proxy'[down[x][i].sess] \notin Early
    BY <1>5, <1>6 DEF Order, OpenInv
  <2>2. ASSUME NEW x \in Sess, proxy'[x] \notin Early, nt[x] \in Streams \ cut, sock[x] = "none"
        PROVE  \E i \in DOMAIN down[nt[x]] : down[nt[x]][i].sess = x /\ down[nt[x]][i].kind = "open"
    <3>1. proxy[x] \notin Early
      BY <1>1, <1>3, <1>12, <2>2
    <3> QED BY <2>2, <3>1 DEF Order, OpenInv
  <2>3. \A x \in Streams : /\ \A i \in DOMAIN down[x] : down[x][i].kind = "open" => sock[down[x][i].sess] = "none"
                           /\ \A i, j \in DOMAIN down[x] :
                                i < j /\ down[x][i].sess = down[x][j].sess => down[x][j].kind # "open"
    BY DEF Order, OpenInv
  <2> HIDE DEF f, s, q
  <2> QED BY <1>1, <1>9, <1>10, <1>12, <2>1, <2>2, <2>3 DEF OpenInv
<1>13. \/ t \notin cut /\ down' = [down EXCEPT ![t] = Append(q, f)]
       \/ t \in cut /\ down' = down
  BY DEF SendStep, SendReturns, SendFails, Order, CutInv
<1> QED BY <1>11, <1>12, <1>13

\* The agent takes the next frame.
LEMMA TakesFrame ==
    ASSUME Order, NEW t \in Streams, NEW kind, Takes(t, kind)
    PROVE  LET f == Head(down[t])  s == Head(down[t]).sess IN
           /\ f \in Frames /\ f.kind = kind /\ s \in Sess /\ nt[s] = t /\ f.data \in Seq(Nat)
           /\ kind # "data" => f.data = <<>>
           /\ down[t] \in Seq(Frames) /\ down[t] # <<>> /\ t \notin cut
           /\ down'[t] = Tail(down[t]) /\ \A x \in Streams : x # t => down'[x] = down[x]
           /\ UNCHANGED <<cut, sending, nt, proxy, written>>
           /\ 1 \in DOMAIN down[t] /\ f = down[t][1]
           /\ proxy[s] \notin Early
           /\ kind = "open" => sock[s] = "none"
           /\ kind # "open" => sock[s] # "none"
<1> DEFINE q == down[t]
           f == Head(q)
           s == f.sess
<1>1. /\ q # <<>> /\ f.kind = kind /\ down' = [down EXCEPT ![t] = Tail(q)]
      /\ UNCHANGED <<cut, sending, nt, proxy, written>>
  BY DEF Takes, proxyVars
<1>2. q \in Seq(Frames) /\ down \in [Streams -> Seq(Frames)]
  BY DEF Order, Places, Types, LinkTypes
<1>3. 1 \in DOMAIN q /\ f = q[1] /\ DOMAIN q \subseteq Nat /\ \A i \in DOMAIN q : i = 1 \/ 1 < i
  <2>1. 1 \in DOMAIN q /\ f = q[1] /\ DOMAIN q = 1..Len(q) /\ Len(q) \in Nat
    BY <1>1, <1>2, Taken
  <2> HIDE DEF q, f
  <2> QED BY <2>1
<1>4. f \in Frames /\ s \in Sess /\ nt[s] = t /\ f.data \in Seq(Nat) /\ (kind # "data" => f.data = <<>>)
  BY <1>1, <1>3, DownFrames, FrameTypes DEF Order
<1>5. t \notin cut
  BY <1>1 DEF Order, CutInv
<1>6. proxy[s] \notin Early /\ (kind = "open" => sock[s] = "none")
  BY <1>1, <1>3 DEF Order, OpenInv
<1>7. ASSUME kind # "open", sock[s] = "none" PROVE FALSE
  <2>1. PICK i \in DOMAIN q : q[i].sess = s /\ q[i].kind = "open"
    BY <1>4, <1>5, <1>6, <1>7 DEF Order, OpenInv
  <2>2. 1 < i
    BY <1>1, <1>3, <1>7, <2>1
  <2> QED BY <1>3, <2>1, <2>2 DEF Order, OpenInv
<1> QED BY <1>1, <1>2, <1>3, <1>4, <1>5, <1>6, <1>7

LEMMA TakesOpenInv ==
    ASSUME Order, NEW t \in Streams, NEW kind, Takes(t, kind),
           \A x \in Sess : sock'[x] = "none" <=>
                             (sock[x] = "none" /\ ~(kind = "open" /\ x = Head(down[t]).sess))
    PROVE  OpenInv'
<1> DEFINE q == down[t]
           r == Tail(q)
           s == Head(q).sess
<1>1. /\ s \in Sess /\ Head(q) = q[1] /\ q[1].kind = kind /\ nt[s] = t /\ q \in Seq(Frames) /\ q # <<>> /\ t \notin cut
      /\ down'[t] = r /\ (\A x \in Streams : x # t => down'[x] = down[x])
      /\ UNCHANGED <<cut, sending, nt, proxy>> /\ 1 \in DOMAIN q
  BY TakesFrame
<1>2. /\ \A i \in DOMAIN r : i \in Nat /\ i + 1 \in DOMAIN q /\ r[i] = q[i + 1] /\ 1 < i + 1
      /\ \A i \in DOMAIN q : i # 1 => i - 1 \in DOMAIN r /\ r[i - 1] = q[i]
      /\ \A i, j \in DOMAIN r : i < j => i + 1 < j + 1
  <2>1. /\ \A i \in DOMAIN r : i \in Nat /\ i + 1 \in DOMAIN q /\ r[i] = q[i + 1]
        /\ \A i \in DOMAIN q : i # 1 => i - 1 \in DOMAIN r /\ r[i - 1] = q[i]
        /\ DOMAIN r = 1..(Len(q) - 1) /\ Len(q) \in Nat
    BY <1>1, Taken
  <2> HIDE DEF q, r
  <2> QED BY <2>1
<1>3. \A x \in Streams : \A i \in DOMAIN down[x] : down[x][i].sess \in Sess /\ nt[down[x][i].sess] = x
  BY DownFrames DEF Order
<1> HIDE DEF r, s
<1>4. \A i \in DOMAIN r : proxy[r[i].sess] \notin Early
  BY <1>1, <1>2 DEF Order, OpenInv
<1>5. \A i, j \in DOMAIN r : i < j /\ r[i].sess = r[j].sess => r[j].kind # "open"
  BY <1>1, <1>2 DEF Order, OpenInv
<1>6. ASSUME NEW i \in DOMAIN r, r[i].kind = "open" PROVE sock'[r[i].sess] = "none"
  <2>1. q[i + 1].kind = "open" /\ i + 1 \in DOMAIN q /\ q[i + 1].sess = r[i].sess /\ 1 < i + 1
    BY <1>2, <1>6
  <2>2. sock[r[i].sess] = "none" /\ r[i].sess \in Sess
    BY <1>3, <2>1 DEF Order, OpenInv
  <2>3. r[i].sess # s
    BY <1>1, <2>1 DEF Order, OpenInv, s
  <2> QED BY <2>2, <2>3 DEF s
<1>7. ASSUME NEW x \in Streams, x # t, NEW i \in DOMAIN down[x], down[x][i].kind = "open"
      PROVE  sock'[down[x][i].sess] = "none"
  <2>1. sock[down[x][i].sess] = "none" /\ down[x][i].sess \in Sess /\ down[x][i].sess # s
    BY <1>1, <1>3, <1>7 DEF Order, OpenInv
  <2> QED BY <2>1 DEF s
<1>8. ASSUME NEW x \in Sess, proxy[x] \notin Early, nt[x] \in Streams \ cut, sock'[x] = "none"
      PROVE  \E i \in DOMAIN down'[nt[x]] : down'[nt[x]][i].sess = x /\ down'[nt[x]][i].kind = "open"
  <2>1. sock[x] = "none" /\ ~(kind = "open" /\ x = s)
    BY <1>8 DEF s
  <2>2. PICK i \in DOMAIN down[nt[x]] : down[nt[x]][i].sess = x /\ down[nt[x]][i].kind = "open"
    BY <1>8, <2>1 DEF Order, OpenInv
  <2>3. CASE nt[x] # t
    BY <1>1, <1>8, <2>2, <2>3
  <2>4. CASE nt[x] = t
    <3>1. i # 1
      BY <1>1, <2>1, <2>2, <2>4 DEF s
    <3> QED BY <1>1, <1>2, <2>2, <2>4, <3>1
  <2> QED BY <2>3, <2>4
<1>9. \A x \in Sess : proxy[x] \in Early => sock'[x] = "none"
  <2>1. proxy[s] \notin Early
    BY TakesFrame DEF s
  <2> QED BY <2>1 DEF Order, OpenInv, s
<1>10. \A x \in Streams : sending[x] # None => (sending[x].kind = "open" <=> proxy[sending[x].sess] \in Early)
  BY DEF Order, OpenInv
<1>11. ASSUME NEW x \in Streams
       PROVE  /\ \A i \in DOMAIN down'[x] : proxy[down'[x][i].sess] \notin Early
              /\ \A i, j \in DOMAIN down'[x] :
                   i < j /\ down'[x][i].sess = down'[x][j].sess => down'[x][j].kind # "open"
              /\ \A i \in DOMAIN down'[x] : down'[x][i].kind = "open" => sock'[down'[x][i].sess] = "none"
  <2>1. CASE x = t
    BY <1>1, <1>4, <1>5, <1>6, <2>1
  <2>2. CASE x # t
    BY <1>1, <1>7, <2>2 DEF Order, OpenInv
  <2> QED BY <2>1, <2>2
<1> QED BY <1>1, <1>8, <1>9, <1>10, <1>11 DEF OpenInv

LEMMA CutOpenInv ==
    ASSUME Order, NEW t \in Streams, Cut(t)
    PROVE  OpenInv'
<1>1. /\ cut' = cut \cup {t} /\ UNCHANGED <<sending, nt, proxy, sock>>
      /\ down'[t] = <<>> /\ \A x \in Streams : x # t => down'[x] = down[x]
  BY DEF Cut, Order, Places, Types, LinkTypes, proxyVars, agentVars, connVars
<1>2. DOMAIN <<>> = {}
  OBVIOUS
<1> QED BY <1>1, <1>2 DEF Order, OpenInv

LEMMA LookUpOpenInv ==
    ASSUME Order, NEW s \in Sess, LookUp(s)
    PROVE  OpenInv'
<1>1. /\ nt[s] = None /\ proxy[s] = "idle" /\ UNCHANGED <<sending, down, cut, sock>>
      /\ proxy'[s] \in {"refused", "found"} /\ (\A x \in Sess : x # s => proxy'[x] = proxy[x] /\ nt'[x] = nt[x])
      /\ proxy'[s] = "refused" => nt'[s] = None
  BY DEF LookUp, Becomes, linkVars, agentVars, connVars, Order, Places, UserPlaces, Types, ProxyTypes
<1>2. \A x \in Streams : \A i \in DOMAIN down[x] : down[x][i].sess \in Sess /\ down[x][i].sess # s
  BY <1>1, DownFrames, TunnelAssumption DEF Order
<1>3. \A x \in Streams : sending[x] # None => sending[x].sess \in Sess /\ sending[x].sess # s
  BY <1>1, FrameTypes, TunnelAssumption DEF Order, Places, LinkPlaces, FramesOf
<1>4. proxy'[s] \in Early \/ nt'[s] \notin Streams
  BY <1>1, TunnelAssumption DEF Early
<1>5. sock[s] = "none"
  BY <1>1 DEF Order, OpenInv, Early
<1> QED BY <1>1, <1>2, <1>3, <1>4, <1>5 DEF Order, OpenInv

LEMMA ShutSockets ==
    ASSUME NEW S, ShutAll(S)
    PROVE  \A s \in Sess : sock'[s] = "none" <=> sock[s] = "none"
  BY DEF ShutAll

LEMMA OpenStepInv ==
    ASSUME Order, Next
    PROVE  OpenInv'
<1>0. Types /\ OpenInv
  BY DEF Order, Places
<1>1. ASSUME NEW t \in Streams, HandlerStep(t) PROVE OpenInv'
  BY <1>0, <1>1, OpenKept DEF HandlerStep, TakeTunnelsMu, RegisterTunnel, Deliver, RecvFails, Sweep, Finish,
     proxyVars, agentVars, connVars, linkVars
<1>2. ASSUME NEW t \in Streams, RecvOpen(t) PROVE OpenInv'
  <2>1. Takes(t, "open") /\ sock' = [sock EXCEPT ![Head(down[t]).sess] = "dialing"]
    BY <1>2 DEF RecvOpen
  <2>2. Head(down[t]).sess \in Sess
    BY <2>1, TakesFrame
  <2> QED BY <1>0, <2>1, <2>2, TakesOpenInv DEF Types, AgentTypes
<1>3. ASSUME NEW t \in Streams, RecvData(t) \/ RecvClose(t) PROVE OpenInv'
  <2>1. Takes(t, "data") \/ Takes(t, "close")
    BY <1>3 DEF RecvData, RecvClose
  <2>2. \A s \in Sess : sock'[s] = "none" <=> sock[s] = "none"
    BY <1>3, ShutSockets DEF RecvData, RecvClose, CloseSession
  <2> QED BY <2>1, <2>2, TakesOpenInv
<1>4. ASSUME NEW t \in Streams, LoopEnds(t) PROVE OpenInv'
  BY <1>0, <1>4, OpenKept, ShutSockets DEF LoopEnds, proxyVars, linkVars
<1>5. ASSUME NEW t \in Streams, Dial(t) PROVE OpenInv'
  BY <1>0, <1>5, OpenKept DEF Dial, proxyVars, connVars, linkVars
<1>6. ASSUME NEW s \in Sess, RegisterSession(s) PROVE OpenInv'
  <2>1. \A x \in Sess : proxy'[x] \in Early <=> proxy[x] \in Early
    BY <1>0, <1>6 DEF RegisterSession, Becomes, Types, ProxyTypes, Early
  <2> QED BY <1>0, <1>6, <2>1, OpenKept DEF RegisterSession, agentVars, connVars, linkVars
<1>7. ASSUME NEW s \in Sess, GiveUp(s) \/ HangUp(s) \/ ReadEof(s) PROVE OpenInv'
  <2>1. \A x \in Sess : proxy'[x] \in Early <=> proxy[x] \in Early
    BY <1>0, <1>7 DEF GiveUp, HangUp, RemoveSession, ReadEof, Becomes, Types, ProxyTypes, Early
  <2> QED BY <1>0, <1>7, <2>1, OpenKept DEF GiveUp, HangUp, RemoveSession, ReadEof, agentVars, connVars, linkVars
<1>8. ASSUME NEW s \in Sess, SendOpen(s) PROVE OpenInv'
  <2> DEFINE f == Frame(s, "open", <<>>)
  <2>1. f \in Frames /\ f.sess = s /\ f.kind = "open"
    BY Singles DEF Frame, Frames, Kinds
  <2>2. /\ StartSend(nt[s], f) /\ UNCHANGED <<nt, sock>>
        /\ proxy'[s] = "opening" /\ proxy[s] = "registered" /\ \A x \in Sess : x # s => proxy'[x] = proxy[x]
    BY <1>0, <1>8 DEF SendOpen, Becomes, agentVars, connVars, Types, ProxyTypes
  <2> HIDE DEF f
  <2> QED BY <2>1, <2>2, StartSendOpen DEF Early
<1>9. ASSUME NEW s \in Sess, SendClose(s) PROVE OpenInv'
  <2> DEFINE f == CloseFrame(s)
  <2>1. f \in Frames /\ f.sess = s /\ f.kind = "close"
    BY Singles DEF CloseFrame, Frame, Frames, Kinds
  <2>2. /\ StartSend(nt[s], f) /\ UNCHANGED <<nt, sock>>
        /\ proxy'[s] = "closed" /\ proxy[s] = "closing" /\ \A x \in Sess : x # s => proxy'[x] = proxy[x]
    BY <1>0, <1>9 DEF SendClose, Becomes, agentVars, connVars, Types, ProxyTypes
  <2> HIDE DEF f
  <2> QED BY <2>1, <2>2, StartSendOpen DEF Early
<1>10. ASSUME NEW s \in Sess, Write(s) PROVE OpenInv'
  <2> DEFINE f == Frame(s, "data", <<written[s] + 1>>)
  <2>1. f \in Frames /\ f.sess = s /\ f.kind = "data"
    BY <1>0, Singles DEF Frame, Frames, Kinds, Types, ProxyTypes
  <2>2. StartSend(nt[s], f) /\ UNCHANGED <<nt, sock, proxy>> /\ proxy[s] = "open"
    BY <1>10 DEF Write, agentVars, connVars
  <2> HIDE DEF f
  <2> QED BY <2>1, <2>2, StartSendOpen DEF Early
<1>11. ASSUME NEW s \in Sess, PumpTakes(s) \/ PumpPuts(s) \/ Read(s) \/ Eat(s) \/ SendEof(s)
                              \/ (\E n \in 1..FrameMax : CopyUp(s, n))
       PROVE  OpenInv'
  BY <1>0, <1>11, OpenKept DEF PumpTakes, PumpPuts, Read, Eat, SendEof, CopyUp, SendUp, proxyVars, agentVars,
     connVars, linkVars
<1>12. ASSUME NEW s \in Sess, Connected(s) \/ DialFails(s) \/ CloseLocal(s) \/ TargetCloses(s) PROVE OpenInv'
  <2>1. \A x \in Sess : sock'[x] = "none" <=> sock[x] = "none"
    BY <1>0, <1>12, ShutSockets DEF Connected, DialFails, CloseLocal, CloseSession, TargetCloses, Types, AgentTypes
  <2> QED BY <1>0, <1>12, <2>1, OpenKept DEF Connected, DialFails, CloseLocal, TargetCloses, proxyVars, linkVars
<1> QED BY <1>1, <1>2, <1>3, <1>4, <1>5, <1>6, <1>7, <1>8, <1>9, <1>10, <1>11, <1>12, SendOpenInv, CutOpenInv,
        LookUpOpenInv DEF Next, LoopStep, OpenStep, ReadStep, ConnStep

LEMMA OrderInit == Init => Order
<1> SUFFICES ASSUME Init PROVE Order
  OBVIOUS
<1>1. DOMAIN <<>> = {}
  OBVIOUS
<1>2. CutInv
  BY DEF Init, CutInv
<1>3. OpenInv
  BY <1>1 DEF Init, OpenInv, Early
<1> QED BY <1>2, <1>3, PlacesInit DEF Order

LEMMA OrderStep == Order /\ [Next]_vars => Order'
<1> SUFFICES ASSUME Order, [Next]_vars PROVE Order'
  OBVIOUS
<1>1. Places' /\ CutInv'
  BY PlacesStep, CutStep DEF Order, Places
<1>2. CASE UNCHANGED vars
  BY <1>1, <1>2, OpenKept DEF vars, proxyVars, agentVars, connVars, linkVars, Order, Places
<1>3. CASE Next
  BY <1>1, <1>3, OpenStepInv DEF Order
<1> QED BY <1>2, <1>3

\* A connection that takes no more input.
Dead(s) == sock[s] # "none" /\ (s \notin known \/ sock[s] \in {"eof", "closed"})

\* The bytes of a session that are past its nodeTunnel.
Sending(s, t) == sending[t] # None /\ sending[t].sess = s /\ sending[t].kind = "data"
Sent(s) == IF Sending(s, nt[s]) THEN written[s] - 1 ELSE written[s]

\* The bytes that have come to the connection, or wait for it to be there.
Passed(s) == Len(got[s]) + Len(buf[s])

\* What is on its way to a connection goes on where the connection is.
Flow(s) ==
    nt[s] \in Streams \ cut /\ ~Dead(s) =>
        Window(Pieces(down[nt[s]], {s}), Passed(s), Sent(s))

Bytes(s) ==
    /\ \A i \in DOMAIN got[s] : got[s][i] = i
    /\ \A i \in DOMAIN buf[s] : buf[s][i] = Len(got[s]) + i
    /\ sock[s] = "none" => got[s] = <<>> /\ buf[s] = <<>> /\ s \notin known
    /\ sock[s] = "open" => buf[s] = <<>>

InputInv ==
    /\ \A t \in Streams : sending[t] # None /\ sending[t].kind = "data" =>
         written[sending[t].sess] > 0 /\ sending[t].data = <<written[sending[t].sess]>>
    /\ \A s \in Sess : /\ proxy[s] \in Early => written[s] = 0
                       /\ Bytes(s)
                       /\ Flow(s)

LEMMA InputInit == Init => InputInv
<1> SUFFICES ASSUME Init PROVE InputInv
  OBVIOUS
<1>1. DOMAIN <<>> = {}
  OBVIOUS
<1>2. \A s \in Sess : Bytes(s)
  BY <1>1 DEF Init, Bytes
<1>3. \A s \in Sess : Flow(s)
  BY TunnelAssumption DEF Init, Flow
<1> QED BY <1>2, <1>3 DEF Init, InputInv

LEMMA InputTypes ==
    ASSUME Order, InputInv, NEW s \in Sess
    PROVE  /\ Len(got[s]) \in Nat /\ Len(buf[s]) \in Nat /\ Passed(s) \in Nat /\ written[s] \in Nat
           /\ got[s] \in Seq(Nat) /\ buf[s] \in Seq(Nat) /\ nt[s] \in Streams \cup {None}
           /\ DOMAIN got[s] = 1..Len(got[s]) /\ DOMAIN buf[s] = 1..Len(buf[s])
           /\ nt[s] \in Streams => down[nt[s]] \in Seq(Frames) /\ Sent(s) \in Nat
<1>1. /\ written[s] \in Nat /\ got[s] \in Seq(Nat) /\ buf[s] \in Seq(Nat) /\ nt[s] \in Streams \cup {None}
      /\ nt[s] \in Streams => down[nt[s]] \in Seq(Frames)
  BY DEF Order, Places, Types, ProxyTypes, AgentTypes, LinkTypes
<1>2. Len(got[s]) \in Nat /\ Len(buf[s]) \in Nat /\ Passed(s) \in Nat
      /\ DOMAIN got[s] = 1..Len(got[s]) /\ DOMAIN buf[s] = 1..Len(buf[s])
  <2>1. \A q \in Seq(Nat) : Len(q) \in Nat /\ DOMAIN q = 1..Len(q)
    OBVIOUS
  <2>2. Len(got[s]) \in Nat /\ Len(buf[s]) \in Nat
    BY <1>1, <2>1
  <2>3. Passed(s) \in Nat
    <3> DEFINE m == Len(got[s])
               n == Len(buf[s])
    <3>1. m \in Nat /\ n \in Nat /\ Passed(s) = m + n
      BY <2>2 DEF Passed
    <3> HIDE DEF m, n
    <3> QED BY <3>1
  <2>4. DOMAIN got[s] = 1..Len(got[s]) /\ DOMAIN buf[s] = 1..Len(buf[s])
    BY <1>1, <2>1
  <2> QED BY <2>2, <2>3, <2>4
<1>3. ASSUME nt[s] \in Streams PROVE Sent(s) \in Nat
  <2>1. Sending(s, nt[s]) => written[s] > 0
    BY <1>3 DEF Sending, InputInv
  <2> QED BY <1>1, <2>1 DEF Sent
<1> QED BY <1>1, <1>2, <1>3

\* A step that moves no input.
LEMMA InputKept ==
    ASSUME InputInv, UNCHANGED <<sending, nt, written, known, sock, buf, got>>, cut \subseteq cut',
           \A t \in Streams \ cut' : down'[t] = down[t],
           \A s \in Sess : proxy'[s] \in Early => proxy[s] \in Early
    PROVE  InputInv'
<1>1. \A s \in Sess : Bytes(s)'
  BY DEF InputInv, Bytes
<1>2. ASSUME NEW s \in Sess PROVE Flow(s)'
  <2>1. Passed(s)' = Passed(s) /\ Sent(s)' = Sent(s) /\ Dead(s)' = Dead(s) /\ Flow(s)
    BY DEF Passed, Sent, Sending, Dead, InputInv
  <2> QED BY <2>1 DEF Flow
<1> QED BY <1>1, <1>2 DEF InputInv

\* A frame begins to be sent: a data frame has the byte that was just written.
LEMMA StartSendInput ==
    ASSUME Order, InputInv, NEW s \in Sess, nt[s] \in Streams, NEW f \in Frames, f.sess = s, StartSend(nt[s], f),
           \/ f.kind # "data" /\ written' = written
           \/ f.kind = "data" /\ written' = [written EXCEPT ![s] = written[s] + 1] /\ f.data = <<written[s] + 1>>,
           proxy'[s] \in Early => f.kind # "data" /\ proxy[s] \in Early,
           \A x \in Sess : x # s => proxy'[x] = proxy[x],
           UNCHANGED <<nt, known, sock, buf, got>>
    PROVE  InputInv'
<1> DEFINE t == nt[s]
<1>1. /\ sending[t] = None /\ sending'[t] = f /\ (\A x \in Streams : x # t => sending'[x] = sending[x])
      /\ f # None /\ UNCHANGED <<cut, down>>
  BY FrameTypes DEF StartSend, Free, Order, Places, Types, LinkTypes
<1>2. /\ written[s] \in Nat /\ written'[s] \in Nat /\ written'[s] = (IF f.kind = "data" THEN written[s] + 1 ELSE written[s])
      /\ \A x \in Sess : x # s => written'[x] = written[x]
  BY DEF Order, Places, Types, ProxyTypes
<1>3. \A x \in Streams : sending[x] # None => sending[x].sess \in Sess /\ nt[sending[x].sess] = x
  BY FrameTypes DEF Order, Places, LinkPlaces, FramesOf
<1> HIDE DEF t
<1>4. ASSUME NEW x \in Streams, sending'[x] # None, sending'[x].kind = "data"
      PROVE  written'[sending'[x].sess] > 0 /\ sending'[x].data = <<written'[sending'[x].sess]>>
  <2>1. CASE x = t
    BY <1>1, <1>2, <1>4, <2>1
  <2>2. CASE x # t
    BY <1>1, <1>2, <1>3, <1>4, <2>2 DEF InputInv, t
  <2> QED BY <2>1, <2>2
<1>5. ASSUME NEW x \in Sess PROVE Flow(x)'
  <2>1. Passed(x)' = Passed(x) /\ Dead(x)' = Dead(x) /\ Flow(x)
    BY DEF Passed, Dead, InputInv
  <2>2. nt[x] \in Streams => Sent(x)' = Sent(x)
    <3>1. CASE x = s
      BY <1>1, <1>2, <3>1 DEF Sent, Sending, t
    <3>2. CASE x # s /\ nt[x] = t
      BY <1>1, <1>2, <3>2 DEF Sent, Sending
    <3>3. CASE nt[x] \in Streams /\ nt[x] # t
      BY <1>1, <1>2, <3>3 DEF Sent, Sending, t
    <3> QED BY <3>1, <3>2, <3>3
  <2> QED BY <1>1, <2>1, <2>2 DEF Flow
<1>6. \A x \in Sess : Bytes(x)'
  BY DEF InputInv, Bytes
<1>7. \A x \in Sess : proxy'[x] \in Early => written'[x] = 0
  BY <1>2 DEF InputInv
<1> QED BY <1>4, <1>5, <1>6, <1>7 DEF InputInv

\* A frame has been sent, or has not.
LEMMA SendInput ==
    ASSUME Order, InputInv, NEW t \in Streams, SendStep(t)
    PROVE  InputInv'
<1> DEFINE f == sending[t]
           s == f.sess
           q == down[t]
<1>1. /\ f \in Frames /\ s \in Sess /\ nt[s] = t /\ f # None /\ f.data \in Seq(Nat)
      /\ f.kind # "data" => f.data = <<>>
      /\ UNCHANGED <<nt, written, sock, known, buf, got, cut>> /\ q \in Seq(Frames)
  <2>1. f \in FramesOf(t)
    BY SendPlaces DEF Order
  <2>2. UNCHANGED <<nt, written, sock, known, buf, got, cut>> /\ q \in Seq(Frames)
    BY DEF SendStep, SendReturns, SendFails, agentVars, connVars, Order, Places, Types, LinkTypes
  <2> QED BY <2>1, <2>2, FrameTypes DEF FramesOf
<1>2. sending'[t] = None /\ \A x \in Streams : x # t => sending'[x] = sending[x]
  BY DEF SendStep, SendReturns, SendFails, Order, Places, Types, LinkTypes
<1>3. \A x \in Sess : proxy'[x] \in Early => proxy[x] \in Early
  <2>1. ASSUME NEW phase \in {"open", "failing"}, AfterSend(f, phase)
        PROVE  \A x \in Sess : proxy'[x] \in Early => proxy[x] \in Early
    BY <1>1, <2>1 DEF AfterSend, Early, Order, Places, Types, ProxyTypes
  <2> QED BY <2>1 DEF SendStep, SendReturns, SendFails
<1>4. f.kind = "data" => written[s] > 0 /\ f.data = <<written[s]>>
  BY <1>1 DEF InputInv
<1>5. \/ t \notin cut /\ down' = [down EXCEPT ![t] = Append(q, f)]
      \/ t \in cut /\ down' = down
  BY DEF SendStep, SendReturns, SendFails, Order, CutInv
<1>6. /\ t \notin cut => down'[t] = Append(q, f)
      /\ \A x \in Streams : x # t => down'[x] = down[x]
  BY <1>5 DEF Order, Places, Types, LinkTypes
<1> HIDE DEF f, s, q
<1>7. ASSUME NEW x \in Sess PROVE Flow(x)'
  <2>1. Passed(x)' = Passed(x) /\ Dead(x)' = Dead(x) /\ Flow(x) /\ nt'[x] = nt[x] /\ cut' = cut
    BY <1>1 DEF Passed, Dead, InputInv
  <2>2. CASE nt[x] # t
    <3>1. nt[x] \in Streams => Sent(x)' = Sent(x) /\ down'[nt[x]] = down[nt[x]]
      BY <1>1, <1>2, <1>6, <2>2 DEF Sent, Sending
    <3> QED BY <2>1, <3>1 DEF Flow
  <2>3. CASE nt[x] = t
    <3> SUFFICES ASSUME t \notin cut, ~Dead(x)
                 PROVE  Window(Pieces(Append(q, f), {x}), Passed(x), Sent(x)')
      BY <1>6, <2>1, <2>3 DEF Flow
    <3> DEFINE Q == Pieces(q, {x})
               lo == Passed(x)
               hi == Sent(x)
    <3>1. Window(Q, lo, hi)
      BY <2>1, <2>3 DEF Flow, q
    <3>2. Q \in Seq(Seq(Nat)) /\ lo \in Nat /\ hi \in Nat /\ written[x] \in Nat
      BY <1>1, <2>3, PiecesTypes, InputTypes
    <3>3. Sent(x)' = written[x]
      BY <1>1, <1>2, <2>3 DEF Sent, Sending
    <3>4. CASE x = s /\ f.kind = "data"
      <4>1. hi = written[x] - 1 /\ f.data = <<hi + 1>> /\ hi + 1 = written[x]
        BY <1>1, <1>4, <2>3, <3>2, <3>4 DEF Sent, Sending, f, s
      <4>2. Pieces(Append(q, f), {x}) = Append(Q, <<hi + 1>>)
        BY <1>1, <3>4, <4>1, PiecesAppend DEF s
      <4> HIDE DEF Q, lo, hi
      <4>3. Window(Append(Q, <<hi + 1>>), lo, hi + 1)
        BY <3>1, <3>2, WindowAppend
      <4> QED BY <3>3, <4>1, <4>2, <4>3 DEF lo
    <3>5. CASE ~(x = s /\ f.kind = "data")
      <4>1. hi = written[x]
        BY <1>1, <2>3, <3>5 DEF Sent, Sending, f, s
      <4>2. Pieces(Append(q, f), {x}) = Append(Q, <<>>)
        BY <1>1, <3>5, PiecesAppend DEF s
      <4> HIDE DEF Q, lo, hi
      <4>3. Window(Append(Q, <<>>), lo, hi)
        BY <3>1, <3>2, WindowAppend
      <4> QED BY <3>3, <4>1, <4>2, <4>3 DEF lo
    <3> QED BY <3>4, <3>5
  <2> QED BY <2>2, <2>3
<1>8. \A x \in Sess : Bytes(x)'
  BY <1>1 DEF InputInv, Bytes
<1>9. \A x \in Sess : proxy'[x] \in Early => written'[x] = 0
  BY <1>1, <1>3 DEF InputInv
<1>10. \A x \in Streams : sending'[x] # None /\ sending'[x].kind = "data" =>
          written'[sending'[x].sess] > 0 /\ sending'[x].data = <<written'[sending'[x].sess]>>
  BY <1>1, <1>2 DEF InputInv
<1> QED BY <1>7, <1>8, <1>9, <1>10 DEF InputInv

\* The agent takes a frame: what is left goes on behind its byte, if it has one.
LEMMA TakesFlow ==
    ASSUME Order, InputInv, NEW t \in Streams, NEW kind, Takes(t, kind), NEW x \in Sess, nt[x] = t, ~Dead(x)
    PROVE  LET f == Head(down[t])
               p == IF f.sess = x THEN f.data ELSE <<>>
               R == Pieces(down'[t], {x})
           IN  /\ Sent(x)' = Sent(x)
               /\ \/ p = <<>> /\ Window(R, Passed(x), Sent(x))
                  \/ p = <<Passed(x) + 1>> /\ Window(R, Passed(x) + 1, Sent(x))
<1> DEFINE q == down[t]
           Q == Pieces(q, {x})
           lo == Passed(x)
           hi == Sent(x)
<1>1. /\ q \in Seq(Frames) /\ q # <<>> /\ t \notin cut /\ down'[t] = Tail(q)
      /\ UNCHANGED <<sending, nt, written>>
  BY TakesFrame
<1>2. Window(Q, lo, hi)
  BY <1>1 DEF InputInv, Flow
<1>3. /\ Q \in Seq(Seq(Nat)) /\ Q # <<>> /\ Tail(Q) = Pieces(Tail(q), {x})
      /\ Head(Q) = (IF Head(q).sess = x THEN Head(q).data ELSE <<>>)
  BY <1>1, PiecesTypes, PiecesTail
<1>4. lo \in Nat /\ hi \in Nat
  BY InputTypes
<1>5. Sent(x)' = Sent(x)
  BY <1>1 DEF Sent, Sending
<1> HIDE DEF Q, lo, hi
<1>6. \/ Head(Q) = <<>> /\ Window(Tail(Q), lo, hi)
      \/ Head(Q) = <<lo + 1>> /\ Window(Tail(Q), lo + 1, hi)
  BY <1>2, <1>3, <1>4, WindowTail
<1> QED BY <1>1, <1>3, <1>5, <1>6 DEF lo, hi

\* A frame that is no data frame, or of another session, has nothing for s.
LEMMA TakesNothing ==
    ASSUME Order, InputInv, NEW t \in Streams, NEW kind, Takes(t, kind), NEW x \in Sess,
           kind # "data" \/ x # Head(down[t]).sess,
           Dead(x)' \/ (~Dead(x) /\ Passed(x)' = Passed(x))
    PROVE  Flow(x)'
<1>1. /\ kind # "data" => Head(down[t]).data = <<>>
      /\ UNCHANGED <<cut, nt, sending, written>> /\ \A y \in Streams : y # t => down'[y] = down[y]
  BY TakesFrame
<1>2. CASE nt[x] = t
  <2>1. ASSUME ~Dead(x) PROVE Sent(x)' = Sent(x) /\ Window(Pieces(down'[t], {x}), Passed(x), Sent(x))
    <3>1. <<Passed(x) + 1>> # <<>>
      OBVIOUS
    <3> QED BY <1>1, <1>2, <2>1, <3>1, TakesFlow
  <2> QED BY <1>1, <1>2, <2>1 DEF Flow
<1>3. CASE nt[x] # t
  <2>1. Sent(x)' = Sent(x) /\ Flow(x)
    BY <1>1 DEF Sent, Sending, InputInv
  <2> QED BY <1>1, <1>3, <2>1 DEF Flow
<1> QED BY <1>2, <1>3

\* What is left of the invariant when the agent takes a frame.
LEMMA TakesInput ==
    ASSUME Order, InputInv, NEW t \in Streams, NEW kind, Takes(t, kind), \A x \in Sess : Bytes(x)' /\ Flow(x)'
    PROVE  InputInv'
  BY TakesFrame DEF InputInv

LEMMA RecvOpenInput ==
    ASSUME Order, InputInv, NEW t \in Streams, RecvOpen(t)
    PROVE  InputInv'
<1> DEFINE s == Head(down[t]).sess
<1>1. Takes(t, "open")
  BY DEF RecvOpen
<1>2. s \in Sess /\ sock[s] = "none"
  BY <1>1, TakesFrame
<1>3. /\ known' = known \cup {s} /\ sock'[s] = "dialing" /\ (\A x \in Sess : x # s => sock'[x] = sock[x])
      /\ UNCHANGED <<got, buf>>
  BY <1>2 DEF RecvOpen, Order, Places, Types, AgentTypes
<1> HIDE DEF s
<1>4. ASSUME NEW x \in Sess PROVE Bytes(x)'
  BY <1>2, <1>3 DEF InputInv, Bytes
<1>5. ASSUME NEW x \in Sess PROVE Flow(x)'
  <2>1. Dead(x)' \/ ~Dead(x)
    BY <1>2, <1>3 DEF Dead
  <2>2. Passed(x)' = Passed(x)
    BY <1>3 DEF Passed
  <2> QED BY <1>1, <2>1, <2>2, TakesNothing
<1> QED BY <1>1, <1>4, <1>5, TakesInput

LEMMA JoinedByte ==
    ASSUME NEW q \in Seq(Nat), NEW n \in Nat
    PROVE  /\ q \o <<n>> \in Seq(Nat) /\ Len(q \o <<n>>) = Len(q) + 1 /\ Len(q) \in Nat
           /\ DOMAIN (q \o <<n>>) = 1..(Len(q) + 1) /\ DOMAIN q = 1..Len(q)
           /\ \A i \in DOMAIN q : (q \o <<n>>)[i] = q[i]
           /\ (q \o <<n>>)[Len(q) + 1] = n
           /\ q \o <<>> = q
  OBVIOUS

LEMMA RecvDataInput ==
    ASSUME Order, InputInv, NEW t \in Streams, RecvData(t)
    PROVE  InputInv'
<1>1. Takes(t, "data")
  BY DEF RecvData
<1>0. /\ Head(down[t]).sess \in Sess /\ sock[Head(down[t]).sess] # "none" /\ nt[Head(down[t]).sess] = t
      /\ Head(down[t]).data \in Seq(Nat)
  BY <1>1, TakesFrame
<1> SUFFICES ASSUME NEW s \in Sess, s = Head(down[t]).sess, NEW data \in Seq(Nat), data = Head(down[t]).data
             PROVE  InputInv'
  BY <1>0
<1>2. s \in Sess /\ sock[s] # "none" /\ nt[s] = t /\ data \in Seq(Nat)
  BY <1>0
<1>3. UNCHANGED <<known, sock>> /\ got \in [Sess -> Seq(Nat)] /\ buf \in [Sess -> Seq(Nat)]
      /\ got[s] \in Seq(Nat) /\ buf[s] \in Seq(Nat)
  BY <1>2 DEF RecvData, Order, Places, Types, AgentTypes
<1>4. \A x \in Sess : Dead(x)' <=> Dead(x)
  BY <1>3 DEF Dead
<1>5. \/ s \in known /\ sock[s] = "open" /\ got' = [got EXCEPT ![s] = got[s] \o data] /\ buf' = buf
      \/ s \in known /\ sock[s] = "dialing" /\ buf' = [buf EXCEPT ![s] = buf[s] \o data] /\ got' = got
      \/ (s \notin known \/ sock[s] \in {"eof", "closed"}) /\ got' = got /\ buf' = buf
  BY DEF RecvData
<1>6. ~Dead(s) => /\ Sent(s)' = Sent(s)
                  /\ \/ data = <<>> /\ Window(Pieces(down'[t], {s}), Passed(s), Sent(s))
                     \/ data = <<Passed(s) + 1>> /\ Window(Pieces(down'[t], {s}), Passed(s) + 1, Sent(s))
  BY <1>1, <1>2, TakesFlow
<1>7. /\ Len(got[s]) \in Nat /\ Len(buf[s]) \in Nat /\ Passed(s) \in Nat
      /\ DOMAIN got[s] = 1..Len(got[s]) /\ DOMAIN buf[s] = 1..Len(buf[s])
      /\ t \notin cut /\ UNCHANGED <<cut, nt>>
  BY <1>1, <1>2, InputTypes, TakesFrame
<1>8. ASSUME NEW x \in Sess, x # Head(down[t]).sess PROVE Bytes(x)' /\ Flow(x)'
  <2>1. got'[x] = got[x] /\ buf'[x] = buf[x]
    BY <1>3, <1>5, <1>8
  <2>2. Passed(x)' = Passed(x) /\ (Dead(x)' \/ ~Dead(x))
    BY <1>4, <2>1 DEF Passed
  <2>3. Bytes(x)'
    BY <1>3, <2>1 DEF InputInv, Bytes
  <2> QED BY <1>1, <1>8, <2>2, <2>3, TakesNothing
<1>9. Bytes(s)
  BY <1>2 DEF InputInv
\* It is enough to see that what is left goes on where the connection is.
<1>14. ASSUME ~Dead(s) => Window(Pieces(down'[t], {s}), Passed(s)', Sent(s)') PROVE Flow(s)'
  BY <1>2, <1>4, <1>7, <1>14 DEF Flow
<1>10. ASSUME Dead(s) PROVE Bytes(s)' /\ Flow(s)'
  <2>1. got' = got /\ buf' = buf
    BY <1>5, <1>10 DEF Dead
  <2>2. Bytes(s)'
    BY <1>3, <1>9, <2>1 DEF Bytes
  <2> QED BY <1>10, <1>14, <2>2
<1>11. ASSUME ~Dead(s) /\ data = <<>> PROVE Bytes(s)' /\ Flow(s)'
  <2>1. got'[s] = got[s] /\ buf'[s] = buf[s]
    <3>1. got[s] \o <<>> = got[s] /\ buf[s] \o <<>> = buf[s]
      BY <1>3
    <3>2. got'[s] \in {got[s], got[s] \o data} /\ buf'[s] \in {buf[s], buf[s] \o data}
      BY <1>2, <1>3, <1>5
    <3> QED BY <1>11, <3>1, <3>2
  <2>2. Bytes(s)'
    BY <1>3, <1>9, <2>1 DEF Bytes
  <2>3. Passed(s)' = Passed(s) /\ <<Passed(s) + 1>> # <<>>
    BY <2>1 DEF Passed
  <2>4. Window(Pieces(down'[t], {s}), Passed(s)', Sent(s)')
    BY <1>6, <1>11, <2>3
  <2> QED BY <1>14, <2>2, <2>4
<1>12. ASSUME ~Dead(s) /\ data # <<>> PROVE Bytes(s)' /\ Flow(s)'
  <2> DEFINE n == Passed(s) + 1
             g == got[s]
             b == buf[s]
  <2>1. n \in Nat /\ data = <<n>> /\ Window(Pieces(down'[t], {s}), n, Sent(s)) /\ Sent(s)' = Sent(s)
    BY <1>6, <1>7, <1>12
  <2>2. ASSUME sock[s] = "open" PROVE Bytes(s)' /\ Flow(s)'
    <3>1. got'[s] = g \o <<n>> /\ b = <<>> /\ buf'[s] = <<>>
      BY <1>2, <1>3, <1>5, <1>9, <1>12, <2>1, <2>2 DEF Bytes, Dead
    <3>2. Len(b) = 0 /\ n = Len(g) + 1 /\ DOMAIN <<>> = {}
      BY <1>7, <3>1 DEF Passed
    <3> HIDE DEF n, g, b
    <3>3. /\ Len(g \o <<n>>) = Len(g) + 1 /\ Len(g) \in Nat
          /\ DOMAIN (g \o <<n>>) = 1..(Len(g) + 1) /\ DOMAIN g = 1..Len(g)
          /\ \A i \in DOMAIN g : (g \o <<n>>)[i] = g[i]
          /\ (g \o <<n>>)[Len(g) + 1] = n
      BY <1>3, <2>1, JoinedByte DEF g
    <3>4. Passed(s)' = n
      BY <3>1, <3>2, <3>3 DEF Passed
    <3>5. ASSUME NEW i \in DOMAIN (g \o <<n>>) PROVE (g \o <<n>>)[i] = i
      <4>1. i \in DOMAIN g \/ i = Len(g) + 1
        BY <3>3
      <4> QED BY <1>9, <3>2, <3>3, <4>1 DEF Bytes, g
    <3>6. Bytes(s)'
      BY <1>2, <1>3, <3>1, <3>2, <3>5 DEF Bytes
    <3> QED BY <1>14, <2>1, <3>4, <3>6
  <2>3. ASSUME sock[s] # "open" PROVE Bytes(s)' /\ Flow(s)'
    <3>1. buf'[s] = b \o <<n>> /\ got'[s] = g /\ sock[s] = "dialing"
      BY <1>2, <1>3, <1>5, <1>12, <2>1, <2>3 DEF Dead
    <3>2. n = Len(g) + Len(b) + 1 /\ Len(g) \in Nat
      BY <1>7 DEF Passed
    <3> HIDE DEF n, g, b
    <3>3. /\ Len(b \o <<n>>) = Len(b) + 1 /\ Len(b) \in Nat
          /\ DOMAIN (b \o <<n>>) = 1..(Len(b) + 1) /\ DOMAIN b = 1..Len(b)
          /\ \A i \in DOMAIN b : (b \o <<n>>)[i] = b[i]
          /\ (b \o <<n>>)[Len(b) + 1] = n
      BY <1>3, <2>1, JoinedByte DEF b
    <3>4. Passed(s)' = n
      BY <3>1, <3>2, <3>3 DEF Passed
    <3>5. ASSUME NEW i \in DOMAIN (b \o <<n>>) PROVE (b \o <<n>>)[i] = Len(g) + i
      <4>1. i \in DOMAIN b \/ i = Len(b) + 1
        BY <3>3
      <4>2. i \in DOMAIN b => (b \o <<n>>)[i] = Len(g) + i
        BY <1>9, <3>3 DEF Bytes, g, b
      <4> QED BY <3>2, <3>3, <4>1, <4>2
    <3>6. Bytes(s)'
      BY <1>2, <1>3, <1>9, <3>1, <3>5 DEF Bytes, g
    <3> QED BY <1>14, <2>1, <3>4, <3>6
  <2> QED BY <2>2, <2>3
<1>13. Bytes(s)' /\ Flow(s)'
  BY <1>10, <1>11, <1>12
<1> QED BY <1>1, <1>8, <1>13, TakesInput

\* Connections are closed.  What was buffered is dropped, or left for a dial
\* that is still under way; nothing is added to it either way.
Drops(S) == \A x \in Sess : buf'[x] = buf[x] \/ (x \in S /\ buf'[x] = <<>>)

LEMMA ShutBytes ==
    ASSUME Order, InputInv, NEW S, S \subseteq known, ShutAll(S), Drops(S), got' = got, NEW x \in Sess
    PROVE  Bytes(x)' /\ (Dead(x)' \/ (~Dead(x) /\ Passed(x)' = Passed(x)))
<1>1. Bytes(x) /\ DOMAIN <<>> = {}
  BY DEF InputInv
<1>2. CASE x \in S
  <2>1. /\ x \notin known' /\ buf'[x] \in {buf[x], <<>>}
        /\ sock[x] # "none" /\ sock'[x] \in {sock[x], "closed"}
    BY <1>1, <1>2 DEF ShutAll, Drops, Bytes
  <2>2. DOMAIN buf'[x] \subseteq DOMAIN buf[x] /\ \A i \in DOMAIN buf'[x] : buf'[x][i] = buf[x][i]
    BY <1>1, <2>1
  <2>3. sock'[x] # "none" /\ (sock'[x] = "open" => buf'[x] = <<>>)
    BY <1>1, <2>1 DEF Bytes
  <2> QED BY <1>1, <2>1, <2>2, <2>3 DEF Bytes, Dead
<1>3. CASE x \notin S
  <2>1. (x \in known' <=> x \in known) /\ buf'[x] = buf[x] /\ sock'[x] = sock[x]
    BY <1>3 DEF ShutAll, Drops
  <2> QED BY <1>1, <2>1 DEF Bytes, Dead, Passed
<1> QED BY <1>2, <1>3

\* A step of connections: a frame may be lost only with its connection.
LEMMA InputMoves ==
    ASSUME Order, InputInv, UNCHANGED <<sending, nt, written, proxy, cut, down>>,
           \A x \in Sess : Bytes(x)',
           \A x \in Sess : Dead(x)' \/ (~Dead(x) /\ Passed(x)' = Passed(x))
    PROVE  InputInv'
<1>1. ASSUME NEW x \in Sess PROVE Flow(x)'
  <2>1. Sent(x)' = Sent(x) /\ Flow(x)
    BY DEF Sent, Sending, InputInv
  <2> QED BY <2>1 DEF Flow
<1> QED BY <1>1 DEF InputInv

LEMMA ClosedDrops ==
    ASSUME Types, NEW s, CloseSession(s)
    PROVE  ShutAll(known \cap {s}) /\ Drops(known \cap {s})
  BY DEF CloseSession, Drops, Types, AgentTypes

LEMMA RecvCloseInput ==
    ASSUME Order, InputInv, NEW t \in Streams, RecvClose(t)
    PROVE  InputInv'
<1> DEFINE S == known \cap {Head(down[t]).sess}
<1>1. Takes(t, "close") /\ S \subseteq known /\ ShutAll(S) /\ Drops(S) /\ got' = got
  BY ClosedDrops DEF RecvClose, Order, Places
<1> HIDE DEF S
<1>2. \A x \in Sess : Bytes(x)' /\ (Dead(x)' \/ (~Dead(x) /\ Passed(x)' = Passed(x)))
  BY <1>1, ShutBytes
<1>3. \A x \in Sess : Flow(x)'
  BY <1>1, <1>2, TakesNothing
<1> QED BY <1>1, <1>2, <1>3, TakesInput

LEMMA ShutInput ==
    ASSUME Order, InputInv, NEW S, S \subseteq known, ShutAll(S), Drops(S), got' = got,
           UNCHANGED <<sending, nt, written, proxy, cut, down>>
    PROVE  InputInv'
  BY ShutBytes, InputMoves

LEMMA ConnectedInput ==
    ASSUME Order, InputInv, NEW s \in Sess, Connected(s)
    PROVE  InputInv'
<1> DEFINE g == got[s]
           b == buf[s]
<1>1. /\ sock[s] = "dialing" /\ UNCHANGED <<sending, nt, written, proxy, cut, down, known>>
      /\ got' = [got EXCEPT ![s] = g \o b] /\ buf' = [buf EXCEPT ![s] = <<>>] /\ sock' = [sock EXCEPT ![s] = "open"]
  BY DEF Connected, proxyVars, linkVars
<1>2. /\ got \in [Sess -> Seq(Nat)] /\ buf \in [Sess -> Seq(Nat)] /\ sock \in [Sess -> Sockets]
      /\ g \in Seq(Nat) /\ b \in Seq(Nat)
  BY DEF Order, Places, Types, AgentTypes
<1>3. got'[s] = g \o b /\ buf'[s] = <<>> /\ sock'[s] = "open"
  BY <1>1, <1>2
<1>4. \A x \in Sess : x # s => got'[x] = got[x] /\ buf'[x] = buf[x] /\ sock'[x] = sock[x]
  BY <1>1, <1>2
<1>5. Bytes(s)
  BY DEF InputInv
<1>6. /\ Len(g \o b) = Len(g) + Len(b) /\ Len(g) \in Nat /\ Len(b) \in Nat
      /\ DOMAIN (g \o b) = 1..(Len(g) + Len(b)) /\ DOMAIN g = 1..Len(g) /\ DOMAIN b = 1..Len(b)
      /\ \A i \in DOMAIN g : (g \o b)[i] = g[i]
      /\ \A i \in DOMAIN (g \o b) : i \in DOMAIN g \/ (i - Len(g) \in DOMAIN b /\ (g \o b)[i] = b[i - Len(g)])
  BY <1>2, Joined
<1>7. ASSUME NEW i \in DOMAIN (g \o b) PROVE (g \o b)[i] = i
  <2>1. CASE i \in DOMAIN g
    BY <1>5, <1>6, <2>1 DEF Bytes
  <2>2. CASE i \notin DOMAIN g
    <3>1. i - Len(g) \in DOMAIN b /\ (g \o b)[i] = b[i - Len(g)]
      BY <1>6, <2>2
    <3>2. b[i - Len(g)] = Len(g) + (i - Len(g))
      BY <1>5, <3>1 DEF Bytes
    <3>3. i \in Nat
      BY <1>6
    <3> HIDE DEF g, b
    <3> QED BY <1>6, <3>1, <3>2, <3>3
  <2> QED BY <2>1, <2>2
<1> HIDE DEF g, b
<1>8. Bytes(s)'
  BY <1>3, <1>7 DEF Bytes
<1>9. \A x \in Sess : x # s => Bytes(x)'
  BY <1>1, <1>4 DEF InputInv, Bytes
<1>10. Passed(s)' = Passed(s)
  <2>1. Len(<<>>) = 0 /\ Len(g \o b) + 0 = Len(g) + Len(b)
    BY <1>6
  <2> QED BY <1>3, <2>1 DEF Passed, g, b
<1>11. \A x \in Sess : x # s => Passed(x)' = Passed(x)
  BY <1>4 DEF Passed
<1>12. \A x \in Sess : Dead(x)' \/ ~Dead(x)
  BY <1>1, <1>3, <1>4 DEF Dead
<1> QED BY <1>1, <1>8, <1>9, <1>10, <1>11, <1>12, InputMoves

\* The connection is gone: nothing more comes to it.
LEMMA LostInput ==
    ASSUME Order, InputInv, NEW s \in Sess, DialFails(s) \/ TargetCloses(s)
    PROVE  InputInv'
<1>1. /\ UNCHANGED <<sending, nt, written, proxy, cut, down, known, got, buf>>
      /\ sock[s] # "none" /\ sock'[s] \in {"closed", "eof"} /\ \A x \in Sess : x # s => sock'[x] = sock[x]
  BY DEF DialFails, TargetCloses, proxyVars, linkVars, Order, Places, Types, AgentTypes
<1>2. \A x \in Sess : Bytes(x)'
  BY <1>1 DEF InputInv, Bytes
<1>3. \A x \in Sess : Passed(x)' = Passed(x) /\ (Dead(x)' \/ ~Dead(x))
  BY <1>1 DEF Passed, Dead
<1> QED BY <1>1, <1>2, <1>3, InputMoves

LEMMA LookUpInput ==
    ASSUME Order, InputInv, NEW s \in Sess, LookUp(s)
    PROVE  InputInv'
<1>1. /\ nt[s] = None /\ proxy[s] = "idle" /\ UNCHANGED <<sending, down, cut, written, known, sock, got, buf>>
      /\ \A x \in Sess : x # s => proxy'[x] = proxy[x] /\ nt'[x] = nt[x]
  BY DEF LookUp, Becomes, linkVars, agentVars, connVars, Order, Places, UserPlaces, Types, ProxyTypes
<1>2. written[s] = 0 /\ sock[s] = "none" /\ got[s] = <<>> /\ buf[s] = <<>>
  <2>1. written[s] = 0 /\ sock[s] = "none"
    BY <1>1 DEF InputInv, Order, OpenInv, Early
  <2> QED BY <2>1 DEF InputInv, Bytes
<1>3. \A x \in Sess : Bytes(x)'
  BY <1>1 DEF InputInv, Bytes
<1>4. \A x \in Sess : proxy'[x] \in Early => written'[x] = 0
  BY <1>1, <1>2 DEF InputInv
<1>5. ASSUME NEW x \in Sess, x # s PROVE Flow(x)'
  <2>1. Sent(x)' = Sent(x) /\ Passed(x)' = Passed(x) /\ (Dead(x)' <=> Dead(x)) /\ Flow(x)
    BY <1>1, <1>5 DEF Sent, Sending, Passed, Dead, InputInv
  <2> QED BY <1>1, <1>5, <2>1 DEF Flow
<1>6. ASSUME nt'[s] \in Streams PROVE Window(Pieces(down[nt'[s]], {s}), Passed(s)', Sent(s)')
  <2> DEFINE c == nt'[s]
             q == down[c]
             Q == Pieces(q, {s})
  <2>1. q \in Seq(Frames) /\ Q \in Seq(Seq(Nat))
    BY <1>6, PiecesTypes DEF Order, Places, Types, LinkTypes
  <2>2. ASSUME NEW k \in DOMAIN q PROVE q[k].sess # s
    <3>1. nt[q[k].sess] = c
      BY <1>6, DownFrames DEF Order
    <3>2. c # None
      BY <1>6, TunnelAssumption
    <3> QED BY <1>1, <3>1, <3>2
  <2>3. \A k \in DOMAIN Q : Q[k] = <<>>
    BY <2>2 DEF Pieces
  <2>4. Sent(s)' = 0
    <3>1. sending[c] # None => sending[c].sess # s
      BY <1>1, <1>6, FrameTypes, TunnelAssumption DEF Order, Places, LinkPlaces, FramesOf
    <3> QED BY <1>1, <1>2, <3>1 DEF Sent, Sending
  <2>5. Passed(s)' = 0
    BY <1>1, <1>2 DEF Passed
  <2> HIDE DEF Q
  <2>6. Chunks(Q, 0, 0)
    BY <2>1, <2>3, NoPieces
  <2>7. \A k \in DOMAIN Q : Len(Q[k]) <= 1
    BY <2>3
  <2>8. Window(Q, 0, 0)
    BY <2>6, <2>7 DEF Window
  <2> QED BY <2>4, <2>5, <2>8 DEF Q
<1>7. Flow(s)'
  BY <1>1, <1>6 DEF Flow
<1>8. ASSUME NEW x \in Streams, sending'[x] # None, sending'[x].kind = "data"
      PROVE  written'[sending'[x].sess] > 0 /\ sending'[x].data = <<written'[sending'[x].sess]>>
  BY <1>1, <1>8 DEF InputInv
<1> QED BY <1>3, <1>4, <1>5, <1>7, <1>8 DEF InputInv

LEMMA InputStep == Order /\ InputInv /\ [Next]_vars => InputInv'
<1> SUFFICES ASSUME Order, InputInv, [Next]_vars PROVE InputInv'
  OBVIOUS
<1>0. Types /\ UserPlaces
  BY DEF Order, Places
<1>1. CASE UNCHANGED vars
  BY <1>1, InputKept DEF vars, proxyVars, agentVars, connVars, linkVars
<1>2. ASSUME NEW t \in Streams, HandlerStep(t) PROVE InputInv'
  BY <1>2, InputKept DEF HandlerStep, TakeTunnelsMu, RegisterTunnel, Deliver, RecvFails, Sweep, Finish,
     proxyVars, agentVars, connVars, linkVars
<1>3. ASSUME NEW t \in Streams, Dial(t) PROVE InputInv'
  BY <1>3, InputKept DEF Dial, proxyVars, connVars, linkVars
<1>4. ASSUME NEW t \in Streams, Cut(t) PROVE InputInv'
  BY <1>0, <1>4, InputKept DEF Cut, proxyVars, agentVars, connVars, Types, LinkTypes
<1>5. ASSUME NEW t \in Streams, LoopEnds(t) PROVE InputInv'
  BY <1>5, ShutInput DEF LoopEnds, Drops, proxyVars, linkVars
<1>6. ASSUME NEW s \in Sess, RegisterSession(s) \/ GiveUp(s) \/ HangUp(s) \/ ReadEof(s) PROVE InputInv'
  <2>1. \A x \in Sess : proxy'[x] \in Early => proxy[x] \in Early
    BY <1>0, <1>6 DEF RegisterSession, GiveUp, HangUp, RemoveSession, ReadEof, Becomes, Types, ProxyTypes, Early
  <2> QED BY <1>6, <2>1, InputKept DEF RegisterSession, GiveUp, HangUp, RemoveSession, ReadEof,
          agentVars, connVars, linkVars
<1>7. ASSUME NEW s \in Sess, SendOpen(s) PROVE InputInv'
  <2> DEFINE f == Frame(s, "open", <<>>)
  <2>1. f \in Frames /\ f.sess = s /\ f.kind # "data"
    BY Singles DEF Frame, Frames, Kinds
  <2>2. nt[s] \in Streams
    BY <1>0, <1>7 DEF SendOpen, UserPlaces, Types, ProxyTypes
  <2>3. /\ StartSend(nt[s], f) /\ UNCHANGED <<nt, known, sock, buf, got, written>>
        /\ proxy[s] \in Early /\ \A x \in Sess : x # s => proxy'[x] = proxy[x]
    BY <1>0, <1>7 DEF SendOpen, Becomes, agentVars, connVars, Types, ProxyTypes, Early
  <2> HIDE DEF f
  <2> QED BY <2>1, <2>2, <2>3, StartSendInput
<1>8. ASSUME NEW s \in Sess, SendClose(s) PROVE InputInv'
  <2> DEFINE f == CloseFrame(s)
  <2>1. f \in Frames /\ f.sess = s /\ f.kind # "data"
    BY Singles DEF CloseFrame, Frame, Frames, Kinds
  <2>2. nt[s] \in Streams
    BY <1>0, <1>8 DEF SendClose, UserPlaces, Types, ProxyTypes
  <2>3. /\ StartSend(nt[s], f) /\ UNCHANGED <<nt, known, sock, buf, got, written>>
        /\ proxy'[s] = "closed" /\ \A x \in Sess : x # s => proxy'[x] = proxy[x]
    BY <1>0, <1>8 DEF SendClose, Becomes, agentVars, connVars, Types, ProxyTypes
  <2>4. proxy'[s] \notin Early
    BY <2>3 DEF Early
  <2> HIDE DEF f
  <2> QED BY <2>1, <2>2, <2>3, <2>4, StartSendInput
<1>9. ASSUME NEW s \in Sess, Write(s) PROVE InputInv'
  <2> DEFINE f == Frame(s, "data", <<written[s] + 1>>)
  <2>1. f \in Frames /\ f.sess = s /\ f.kind = "data" /\ f.data = <<written[s] + 1>>
    BY <1>0, Singles DEF Frame, Frames, Kinds, Types, ProxyTypes
  <2>2. nt[s] \in Streams
    BY <1>0, <1>9 DEF Write, UserPlaces, Types, ProxyTypes
  <2>3. /\ StartSend(nt[s], f) /\ UNCHANGED <<nt, known, sock, buf, got, proxy>>
        /\ written' = [written EXCEPT ![s] = written[s] + 1] /\ proxy[s] = "open"
    BY <1>9 DEF Write, agentVars, connVars
  <2>4. proxy'[s] \notin Early
    BY <2>3 DEF Early
  <2> HIDE DEF f
  <2> QED BY <2>1, <2>2, <2>3, <2>4, StartSendInput
<1>10. ASSUME NEW s \in Sess, PumpTakes(s) \/ PumpPuts(s) \/ Read(s) \/ Eat(s) \/ SendEof(s)
                              \/ (\E n \in 1..FrameMax : CopyUp(s, n))
       PROVE  InputInv'
  BY <1>10, InputKept DEF PumpTakes, PumpPuts, Read, Eat, SendEof, CopyUp, SendUp, proxyVars, agentVars,
     connVars, linkVars
<1>11. ASSUME NEW s \in Sess, CloseLocal(s) PROVE InputInv'
  <2>1. known \cap {s} \subseteq known /\ ShutAll(known \cap {s}) /\ Drops(known \cap {s})
    BY <1>0, <1>11, ClosedDrops DEF CloseLocal
  <2> QED BY <1>11, <2>1, ShutInput DEF CloseLocal, proxyVars, linkVars
<1> QED BY <1>1, <1>2, <1>3, <1>4, <1>5, <1>6, <1>7, <1>8, <1>9, <1>10, <1>11, SendInput, RecvOpenInput,
        RecvDataInput, RecvCloseInput, ConnectedInput, LostInput, LookUpInput
        DEF Next, LoopStep, OpenStep, ReadStep, ConnStep

(* The target gets the bytes the proxy wrote, from the first one on, in     *)
(* order and without a gap, although the first ones wait in a buffer while  *)
(* it is dialled, a close drops them, a tunnel that breaks leaves them to   *)
(* the dial, which flushes them late, and the next tunnel may come in       *)
(* between.                                                                 *)
THEOREM InputKeepsOrder == Spec => []InputInOrder
<1>1. Order /\ InputInv => InputInOrder
  <2> SUFFICES ASSUME Order, InputInv, NEW s \in Sess PROVE got[s] = [i \in 1..Len(got[s]) |-> i]
    BY DEF InputInOrder
  <2>1. got[s] \in Seq(Nat) /\ DOMAIN got[s] = 1..Len(got[s])
    BY InputTypes
  <2>2. \A i \in DOMAIN got[s] : got[s][i] = i
    BY DEF InputInv, Bytes
  <2> QED BY <2>1, <2>2
<1> QED BY <1>1, OrderInit, OrderStep, InputInit, InputStep, PTL DEF Spec
=============================================================================
