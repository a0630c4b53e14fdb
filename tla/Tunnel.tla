------------------------------- MODULE Tunnel -------------------------------
(***************************************************************************)
(* Port forwarding: a proxied connection of the console, a session of the  *)
(* Tunnel stream, and a TCP connection on the node.  Control plane:        *)
(* Tunnel, OpenTunnelSession and nodeTunnel in grpcserver/server.go,       *)
(* tunnelConn in api/panel.go; agent: transport/tunnel.go.                 *)
(*                                                                         *)
(* One node is modelled: nodes share nothing here but the mutex tunnelsMu. *)
(* A session id is drawn fresh for every session, so a session stands for  *)
(* its id on both sides.  Bytes are numbered from 1 in each direction.     *)
(*                                                                         *)
(* nodeTunnel.send keeps nt.mu while Send waits for the stream's window,   *)
(* and Tunnel keeps tunnelsMu while closeAll waits for nt.mu: "sending"    *)
(* and the phase "locked" are those two critical sections.  Sections that  *)
(* cannot wait inside are single steps.  A channel operation after the     *)
(* unlock that cannot block (deliver, remove) is joined to its section:    *)
(* whatever slips in between could as well have come before.               *)
(***************************************************************************)
EXTENDS Naturals, Sequences

CONSTANTS Streams,   \* Tunnel streams, numbered as the agent opens them
          Sess,      \* sessions
          None,      \* no stream
          MaxIn,     \* bound: the bytes the proxy writes to each session
          MaxOut,    \* bound: the bytes the target sends in each session
          FrameMax,  \* bytes the agent puts in a frame (32768 in the code)
          ReadMax,   \* bytes a reader of the session has room for
          DownCap,   \* frames a stream takes to the agent before Send waits
          UpCap,     \* frames it takes to the control plane
          ChCap,     \* capacity of a session's channel (128)
          OutCap,    \* capacity of the channel "out" (256)
          SockCap    \* bytes a target's socket takes before Write waits

Kinds == {"open", "data", "close"}
Frames == [sess : Sess, kind : Kinds, data : Seq(Nat)]

ASSUME TunnelAssumption ==
    /\ None \notin Streams \cup Frames
    /\ Streams \subseteq Nat
    /\ {MaxIn, MaxOut} \subseteq [Sess -> Nat]
    /\ {FrameMax, ReadMax, DownCap, UpCap, ChCap, OutCap, SockCap}
         \subseteq Nat \ {0}

VARIABLES tunnel,    \* where the Tunnel handler of a stream is
          current,   \* Server.tunnels[node]
          newest,    \* the stream the agent opened last
          overtaken, \* tunnels over which an older one registered late
          cut,       \* broken streams
          sending,   \* the frame in nt.send, which holds nt.mu
          nt,        \* the nodeTunnel a session was opened on
          reg,       \* the sessions in their nodeTunnel's map
          ch,        \* the session's channel
          pump,      \* the goroutine that moves ch to out
          hand,      \* the bytes that goroutine is about to put in out
          out,       \* the channel the reader reads
          proxy,     \* where the user of the session is
          written,   \* bytes the proxy has written
          bytesRead, \* bytes the proxy has read
          down,      \* frames on their way to the agent
          up,        \* frames on their way to the control plane
          recv,      \* streams the agent's receive loop runs on
          known,     \* tunnelState.conns
          sock,      \* the connection to the target
          buf,       \* tunnelSession.buf
          got,       \* bytes the target's socket has taken
          unread,    \* how many of them the target has not read yet
          produced,  \* bytes read from the target
          copier     \* the goroutine that reads the target

serverVars == <<tunnel, current, newest, overtaken, reg, ch>>
proxyVars == <<nt, proxy, written, bytesRead>>
pumpVars == <<pump, hand, out>>
connVars == <<sock, buf, got, unread, produced, copier>>
agentVars == <<recv, known, connVars>>
linkVars == <<cut, sending, down, up>>
vars == <<serverVars, proxyVars, pumpVars, agentVars, linkVars>>

Phases == {"unused", "called", "locked", "open", "ending", "swept", "done"}
Users == {"idle", "found", "registered", "opening", "open", "eof", "failing",
          "closing", "closed", "refused"}
Sockets == {"none", "dialing", "open", "eof", "closed"}
Frame(s, kind, data) == [sess |-> s, kind |-> kind, data |-> data]
CloseFrame(s) == Frame(s, "close", <<>>)

TypeOK ==
    /\ tunnel \in [Streams -> Phases]
    /\ {current, newest} \subseteq Streams \cup {None}
    /\ {overtaken, cut} \subseteq SUBSET Streams
    /\ sending \in [Streams -> Frames \cup {None}]
    /\ nt \in [Sess -> Streams \cup {None}]
    /\ reg \subseteq Sess
    /\ ch \in [Sess -> Seq(Frames)]
    /\ pump \in [Sess -> {"off", "range", "done"}]
    /\ hand \in [Sess -> Seq(Nat)]
    /\ out \in [Sess -> Seq(Seq(Nat))]
    /\ proxy \in [Sess -> Users]
    /\ {written, unread, produced} \subseteq [Sess -> Nat]
    /\ {bytesRead, buf, got} \subseteq [Sess -> Seq(Nat)]
    /\ {down, up} \subseteq [Streams -> Seq(Frames)]
    /\ recv \subseteq Streams
    /\ known \subseteq Sess
    /\ sock \in [Sess -> Sockets]
    /\ copier \in [Sess -> {"off", "reading", "ending", "closing"}]
    /\ \A s \in Sess : Len(ch[s]) <= ChCap /\ Len(out[s]) <= OutCap
    /\ \A t \in Streams : Len(down[t]) <= DownCap /\ Len(up[t]) <= UpCap

Init ==
    /\ tunnel = [t \in Streams |-> "unused"]
    /\ current = None
    /\ newest = None
    /\ overtaken = {}
    /\ cut = {}
    /\ sending = [t \in Streams |-> None]
    /\ nt = [s \in Sess |-> None]
    /\ reg = {}
    /\ ch = [s \in Sess |-> <<>>]
    /\ pump = [s \in Sess |-> "off"]
    /\ hand = [s \in Sess |-> <<>>]
    /\ out = [s \in Sess |-> <<>>]
    /\ proxy = [s \in Sess |-> "idle"]
    /\ written = [s \in Sess |-> 0]
    /\ bytesRead = [s \in Sess |-> <<>>]
    /\ down = [t \in Streams |-> <<>>]
    /\ up = [t \in Streams |-> <<>>]
    /\ recv = {}
    /\ known = {}
    /\ sock = [s \in Sess |-> "none"]
    /\ buf = [s \in Sess |-> <<>>]
    /\ got = [s \in Sess |-> <<>>]
    /\ unread = [s \in Sess |-> 0]
    /\ produced = [s \in Sess |-> 0]
    /\ copier = [s \in Sess |-> "off"]

\* nt.mu and tunnelsMu are free.
Free(t) == sending[t] = None
TunnelsFree == \A t \in Streams : tunnel[t] # "locked"

\* A channel send with a default branch: what does not fit is dropped.
Offer(q, x) == IF Len(q) < ChCap THEN Append(q, x) ELSE q

-----------------------------------------------------------------------------
(* The Tunnel handler.                                                      *)

Moves(t, phase) == tunnel' = [tunnel EXCEPT ![t] = phase]

TakeTunnelsMu(t) ==
    /\ tunnel[t] = "called"
    /\ TunnelsFree
    /\ Moves(t, "locked")
    /\ UNCHANGED <<current, newest, overtaken, reg, ch, proxyVars, pumpVars,
                   agentVars, linkVars>>

On(t) == {s \in reg : nt[s] = t}

CloseAll(t) ==
    /\ Free(t)
    /\ ch' = [s \in Sess |-> IF s \in On(t) THEN Offer(ch[s], CloseFrame(s))
                             ELSE ch[s]]
    /\ reg' = reg \ On(t)

\* Fault: tunnelsMu is kept until the old tunnel has removed itself.
RegisterAfterOld(t) ==
    /\ tunnel[t] = "locked"
    /\ current = None
    /\ current' = t
    /\ Moves(t, "open")
    /\ UNCHANGED <<newest, overtaken, reg, ch, proxyVars, pumpVars, agentVars,
                   linkVars>>

\* The tunnel that was there is closed before it is replaced, and nobody
\* looks which of the two the agent opened last.
RegisterTunnel(t) ==
    /\ tunnel[t] = "locked"
    /\ IF current = None THEN UNCHANGED <<reg, ch>> ELSE CloseAll(current)
    /\ current' = t
    /\ overtaken' = IF current = newest /\ t # newest
                    THEN overtaken \cup ({newest} \ {None}) ELSE overtaken
    /\ Moves(t, "open")
    /\ UNCHANGED <<newest, proxyVars, pumpVars, agentVars, linkVars>>

\* Fault: every frame is delivered by a goroutine of its own.
DeliverUnordered(t) ==
    /\ tunnel[t] = "open"
    /\ Free(t)
    /\ \E i \in 1..Len(up[t]) :
         LET f == up[t][i] IN
         /\ ch' = IF f.sess \in On(t) THEN [ch EXCEPT ![f.sess] = Offer(@, f)]
                  ELSE ch
         /\ up' = [up EXCEPT ![t] = SubSeq(@, 1, i - 1)
                                      \o SubSeq(@, i + 1, Len(@))]
    /\ UNCHANGED <<tunnel, current, newest, overtaken, reg, proxyVars, pumpVars,
                   agentVars, cut, sending, down>>

\* Recv returns a frame, deliver passes it on or drops it.
Deliver(t) ==
    /\ tunnel[t] = "open"
    /\ Free(t)
    /\ up[t] # <<>>
    /\ LET f == Head(up[t]) IN
         ch' = IF f.sess \in On(t) THEN [ch EXCEPT ![f.sess] = Offer(@, f)]
               ELSE ch
    /\ up' = [up EXCEPT ![t] = Tail(@)]
    /\ UNCHANGED <<tunnel, current, newest, overtaken, reg, proxyVars, pumpVars,
                   agentVars, cut, sending, down>>

RecvFails(t) ==
    /\ tunnel[t] = "open"
    /\ t \in cut
    /\ Moves(t, "ending")
    /\ up' = [up EXCEPT ![t] = <<>>]
    /\ UNCHANGED <<current, newest, overtaken, reg, ch, proxyVars, pumpVars,
                   agentVars, cut, sending, down>>

\* The deferred function: the tunnel removes itself, but not a successor ...
Sweep(t) ==
    /\ tunnel[t] = "ending"
    /\ TunnelsFree
    /\ current' = IF current = t THEN None ELSE current
    /\ Moves(t, "swept")
    /\ UNCHANGED <<newest, overtaken, reg, ch, proxyVars, pumpVars, agentVars,
                   linkVars>>

\* Fault: the handler returns without closing its sessions.
ReturnOnly(t) ==
    /\ tunnel[t] = "swept"
    /\ Moves(t, "done")
    /\ UNCHANGED <<current, newest, overtaken, reg, ch, proxyVars, pumpVars,
                   agentVars, linkVars>>

\* ... and closes its sessions.
Finish(t) ==
    /\ tunnel[t] = "swept"
    /\ CloseAll(t)
    /\ Moves(t, "done")
    /\ UNCHANGED <<current, newest, overtaken, proxyVars, pumpVars, agentVars,
                   linkVars>>

-----------------------------------------------------------------------------
(* nodeTunnel.send: stream.Send waits while the window is full and returns  *)
(* an error once the stream is known to be broken.                          *)

StartSend(t, f) ==
    /\ Free(t)
    /\ sending' = [sending EXCEPT ![t] = f]
    /\ UNCHANGED <<cut, down, up>>

\* OpenTunnelSession goes on once its first frame has been sent or not.
AfterSend(f, phase) ==
    IF f.kind = "open"
    THEN /\ proxy' = [proxy EXCEPT ![f.sess] = phase]
         /\ pump' = [pump EXCEPT ![f.sess] =
                       IF phase = "open" THEN "range" ELSE "off"]
    ELSE UNCHANGED <<proxy, pump>>

SendReturns(t) ==
    /\ sending[t] # None
    /\ Len(down[t]) < DownCap
    /\ tunnel[t] # "done"
    /\ down' = IF t \in cut THEN down
               ELSE [down EXCEPT ![t] = Append(@, sending[t])]
    /\ AfterSend(sending[t], "open")
    /\ sending' = [sending EXCEPT ![t] = None]
    /\ UNCHANGED <<serverVars, nt, written, bytesRead, hand, out, agentVars,
                   cut, up>>

\* Fault: Send does not notice that the handler has returned.
SendFailsOnCut(t) ==
    /\ sending[t] # None
    /\ t \in cut /\ tunnel[t] # "done"
    /\ AfterSend(sending[t], "failing")
    /\ sending' = [sending EXCEPT ![t] = None]
    /\ UNCHANGED <<serverVars, nt, written, bytesRead, hand, out, agentVars,
                   cut, down, up>>

SendFails(t) ==
    /\ sending[t] # None
    /\ t \in cut \/ tunnel[t] = "done"
    /\ AfterSend(sending[t], "failing")
    /\ sending' = [sending EXCEPT ![t] = None]
    /\ UNCHANGED <<serverVars, nt, written, bytesRead, hand, out, agentVars,
                   cut, down, up>>

-----------------------------------------------------------------------------
(* OpenTunnelSession and the connection made of it.                         *)

Becomes(s, phase) == proxy' = [proxy EXCEPT ![s] = phase]

LookUp(s) ==
    /\ proxy[s] = "idle"
    /\ TunnelsFree
    /\ nt' = [nt EXCEPT ![s] = current]
    /\ Becomes(s, IF current = None THEN "refused" ELSE "found")
    /\ UNCHANGED <<serverVars, written, bytesRead, pumpVars, agentVars,
                   linkVars>>

RegisterSession(s) ==
    /\ proxy[s] = "found"
    /\ Free(nt[s])
    /\ reg' = reg \cup {s}
    /\ Becomes(s, "registered")
    /\ UNCHANGED <<tunnel, current, newest, overtaken, ch, nt, written,
                   bytesRead, pumpVars, agentVars, linkVars>>

SendOpen(s) ==
    /\ proxy[s] = "registered"
    /\ StartSend(nt[s], Frame(s, "open", <<>>))
    /\ Becomes(s, "opening")
    /\ UNCHANGED <<serverVars, nt, written, bytesRead, pumpVars, agentVars>>

\* remove: the session leaves the map, and its channel gets a close frame.
RemoveSession(s, phase) ==
    /\ Free(nt[s])
    /\ reg' = reg \ {s}
    /\ ch' = IF s \in reg THEN [ch EXCEPT ![s] = Offer(@, CloseFrame(s))]
             ELSE ch
    /\ Becomes(s, phase)
    /\ UNCHANGED <<tunnel, current, newest, overtaken, nt, written, bytesRead,
                   pumpVars, agentVars, linkVars>>

\* Fault: a session whose open frame was not sent stays in the map.
GiveUpOnly(s) ==
    /\ proxy[s] = "failing"
    /\ Becomes(s, "refused")
    /\ UNCHANGED <<serverVars, nt, written, bytesRead, pumpVars, agentVars,
                   linkVars>>

GiveUp(s) == proxy[s] = "failing" /\ RemoveSession(s, "refused")

Write(s) ==
    /\ proxy[s] = "open"
    /\ written[s] < MaxIn[s]
    /\ StartSend(nt[s], Frame(s, "data", <<written[s] + 1>>))
    /\ written' = [written EXCEPT ![s] = @ + 1]
    /\ UNCHANGED <<serverVars, nt, proxy, bytesRead, pumpVars, agentVars>>

\* Read copies what there is room for; the rest of the frame is gone.
Read(s) ==
    /\ proxy[s] = "open"
    /\ out[s] # <<>>
    /\ LET data == Head(out[s])
           room == IF Len(data) < ReadMax THEN Len(data) ELSE ReadMax
       IN  bytesRead' = [bytesRead EXCEPT ![s] = @ \o SubSeq(data, 1, room)]
    /\ out' = [out EXCEPT ![s] = Tail(@)]
    /\ UNCHANGED <<serverVars, nt, proxy, written, pump, hand, agentVars,
                   linkVars>>

ReadEof(s) ==
    /\ proxy[s] = "open"
    /\ out[s] = <<>>
    /\ pump[s] = "done"
    /\ Becomes(s, "eof")
    /\ UNCHANGED <<serverVars, nt, written, bytesRead, pumpVars, agentVars,
                   linkVars>>

\* Close, once: closeFn removes the session and tells the agent.
HangUp(s) == proxy[s] \in {"open", "eof"} /\ RemoveSession(s, "closing")

SendClose(s) ==
    /\ proxy[s] = "closing"
    /\ StartSend(nt[s], CloseFrame(s))
    /\ Becomes(s, "closed")
    /\ UNCHANGED <<serverVars, nt, written, bytesRead, pumpVars, agentVars>>

\* The goroutine between the channels.
PumpTakes(s) ==
    /\ pump[s] = "range"
    /\ hand[s] = <<>>
    /\ ch[s] # <<>>
    /\ LET f == Head(ch[s]) IN
         /\ hand' = [hand EXCEPT ![s] = f.data]
         /\ pump' = [pump EXCEPT ![s] =
                       IF f.kind = "close" THEN "done" ELSE "range"]
    /\ ch' = [ch EXCEPT ![s] = Tail(@)]
    /\ UNCHANGED <<tunnel, current, newest, overtaken, reg, proxyVars, out,
                   agentVars, linkVars>>

PumpPuts(s) ==
    /\ hand[s] # <<>>
    /\ Len(out[s]) < OutCap
    /\ out' = [out EXCEPT ![s] = Append(@, hand[s])]
    /\ hand' = [hand EXCEPT ![s] = <<>>]
    /\ UNCHANGED <<serverVars, proxyVars, pump, agentVars, linkVars>>

-----------------------------------------------------------------------------
(* The agent.                                                               *)

\* openTunnel on a new connection; the one before it is broken.
Dial(t) ==
    /\ tunnel[t] = "unused"
    /\ \A u \in Streams : u < t <=> tunnel[u] # "unused"
    /\ \A u \in Streams : u < t => u \in cut
    /\ Moves(t, "called")
    /\ newest' = t
    /\ recv' = recv \cup {t}
    /\ UNCHANGED <<current, overtaken, reg, ch, proxyVars, pumpVars, known,
                   connVars, linkVars>>

\* The receive loop takes the next frame.
Takes(t, kind) ==
    /\ t \in recv
    /\ down[t] # <<>>
    /\ Head(down[t]).kind = kind
    /\ down' = [down EXCEPT ![t] = Tail(@)]
    /\ UNCHANGED <<cut, sending, up, recv, serverVars, proxyVars, pumpVars>>

RecvOpen(t) ==
    /\ Takes(t, "open")
    /\ LET s == Head(down[t]).sess IN
         /\ known' = known \cup {s}
         /\ sock' = [sock EXCEPT ![s] = "dialing"]
    /\ UNCHANGED <<buf, got, unread, produced, copier>>

\* Fault: what arrives before the target is connected is thrown away.
RecvDataUnbuffered(t) ==
    /\ Takes(t, "data")
    /\ LET s == Head(down[t]).sess
           data == Head(down[t]).data
           taken == IF s \in known /\ sock[s] = "open" THEN data ELSE <<>>
       IN  /\ unread[s] < SockCap
           /\ got' = [got EXCEPT ![s] = @ \o taken]
           /\ unread' = [unread EXCEPT ![s] = @ + Len(taken)]
    /\ UNCHANGED <<buf, known, sock, produced, copier>>

\* write: to the target, or to buf while it is being dialled.  The loop
\* waits in Write while the target's socket takes no more.
RecvData(t) ==
    /\ Takes(t, "data")
    /\ LET s == Head(down[t]).sess
           data == Head(down[t]).data
       IN  \/ /\ s \in known /\ sock[s] = "open"
              /\ unread[s] < SockCap
              /\ got' = [got EXCEPT ![s] = @ \o data]
              /\ unread' = [unread EXCEPT ![s] = @ + Len(data)]
              /\ UNCHANGED buf
           \/ /\ s \in known /\ sock[s] = "dialing"
              /\ buf' = [buf EXCEPT ![s] = @ \o data]
              /\ UNCHANGED <<got, unread>>
           \/ /\ s \notin known \/ sock[s] \in {"eof", "closed"}
              /\ UNCHANGED <<buf, got, unread>>
    /\ UNCHANGED <<known, sock, produced, copier>>

\* The sessions leave the map and their connections are closed; one that is
\* still being dialled has no connection yet.
ShutAll(S) ==
    LET connected == {s \in S : sock[s] \in {"open", "eof"}} IN
    /\ known' = known \ S
    /\ sock' = [s \in Sess |-> IF s \in connected THEN "closed" ELSE sock[s]]
    /\ unread' = [s \in Sess |-> IF s \in connected THEN 0 ELSE unread[s]]

\* close drops what the session has buffered as well.
CloseSession(s) ==
    /\ ShutAll(known \cap {s})
    /\ buf' = IF s \in known THEN [buf EXCEPT ![s] = <<>>] ELSE buf

RecvClose(t) ==
    /\ Takes(t, "close")
    /\ CloseSession(Head(down[t]).sess)
    /\ UNCHANGED <<got, produced, copier>>

\* Recv fails: closeAll, which leaves the buffers of sessions being dialled.
LoopEnds(t) ==
    /\ t \in recv \cap cut
    /\ recv' = recv \ {t}
    /\ ShutAll({s \in known : nt[s] = t})
    /\ UNCHANGED <<buf, got, produced, copier, serverVars, proxyVars, pumpVars,
                   linkVars>>

\* dialAndForward: the connection is stored, and what is buffered flushed,
\* even if the session has been closed or its tunnel is gone.
Connected(s) ==
    /\ sock[s] = "dialing"
    /\ sock' = [sock EXCEPT ![s] = "open"]
    /\ got' = [got EXCEPT ![s] = @ \o buf[s]]
    /\ unread' = [unread EXCEPT ![s] = Len(buf[s])]
    /\ buf' = [buf EXCEPT ![s] = <<>>]
    /\ copier' = [copier EXCEPT ![s] = "reading"]
    /\ UNCHANGED <<recv, known, produced, serverVars, proxyVars, pumpVars,
                   linkVars>>

DialFails(s) ==
    /\ sock[s] = "dialing"
    /\ sock' = [sock EXCEPT ![s] = "closed"]
    /\ copier' = [copier EXCEPT ![s] = "ending"]
    /\ UNCHANGED <<recv, known, buf, got, unread, produced, serverVars,
                   proxyVars, pumpVars, linkVars>>

\* The agent's Send waits for the stream's window and fails on a broken one.
SendUp(t, f) ==
    /\ \/ /\ t \notin cut
          /\ Len(up[t]) < UpCap
          /\ up' = [up EXCEPT ![t] = Append(@, f)]
       \/ /\ t \in cut
          /\ UNCHANGED up
    /\ UNCHANGED <<cut, sending, down>>

\* The goroutine reads some bytes from the target and sends them.
CopyUp(s, n) ==
    /\ copier[s] = "reading"
    /\ sock[s] = "open"
    /\ produced[s] + n <= MaxOut[s]
    /\ SendUp(nt[s], Frame(s, "data", [i \in 1..n |-> produced[s] + i]))
    /\ produced' = [produced EXCEPT ![s] = @ + n]
    /\ copier' = [copier EXCEPT ![s] =
                    IF nt[s] \in cut THEN "ending" ELSE "reading"]
    /\ UNCHANGED <<recv, known, sock, buf, got, unread, serverVars, proxyVars,
                   pumpVars>>

\* At the end of the target's output a close frame is sent ...
SendEof(s) ==
    /\ \/ copier[s] = "ending"
       \/ copier[s] = "reading" /\ sock[s] \in {"eof", "closed"}
    /\ SendUp(nt[s], CloseFrame(s))
    /\ copier' = [copier EXCEPT ![s] = "closing"]
    /\ UNCHANGED <<recv, known, sock, buf, got, unread, produced, serverVars,
                   proxyVars, pumpVars>>

\* ... and the session closed.
CloseLocal(s) ==
    /\ copier[s] = "closing"
    /\ CloseSession(s)
    /\ copier' = [copier EXCEPT ![s] = "off"]
    /\ UNCHANGED <<recv, got, produced, serverVars, proxyVars, pumpVars,
                   linkVars>>

-----------------------------------------------------------------------------
(* The target and the network.                                              *)

Eat(s) ==
    /\ unread[s] > 0
    /\ unread' = [unread EXCEPT ![s] = @ - 1]
    /\ UNCHANGED <<recv, known, sock, buf, got, produced, copier, serverVars,
                   proxyVars, pumpVars, linkVars>>

TargetCloses(s) ==
    /\ sock[s] = "open"
    /\ sock' = [sock EXCEPT ![s] = "eof"]
    /\ unread' = [unread EXCEPT ![s] = 0]
    /\ UNCHANGED <<recv, known, buf, got, produced, copier, serverVars,
                   proxyVars, pumpVars, linkVars>>

\* What the agent has not received by then is lost.
Cut(t) ==
    /\ tunnel[t] \notin {"unused", "done"}
    /\ t \notin cut
    /\ cut' = cut \cup {t}
    /\ down' = [down EXCEPT ![t] = <<>>]
    /\ UNCHANGED <<sending, up, serverVars, proxyVars, pumpVars,
                   agentVars>>

HandlerStep(t) ==
    \/ TakeTunnelsMu(t) \/ RegisterTunnel(t) \/ Deliver(t) \/ RecvFails(t)
    \/ Sweep(t) \/ Finish(t)

SendStep(t) == SendReturns(t) \/ SendFails(t)

OpenStep(s) == RegisterSession(s) \/ SendOpen(s) \/ GiveUp(s) \/ SendClose(s)

ReadStep(s) == PumpTakes(s) \/ PumpPuts(s) \/ Read(s) \/ ReadEof(s)

LoopStep(t) == RecvOpen(t) \/ RecvData(t) \/ RecvClose(t) \/ LoopEnds(t)

ConnStep(s) ==
    Connected(s) \/ DialFails(s) \/ SendEof(s) \/ CloseLocal(s)

Next ==
    \/ \E t \in Streams :
         HandlerStep(t) \/ SendStep(t) \/ LoopStep(t) \/ Dial(t) \/ Cut(t)
    \/ \E s \in Sess :
         \/ OpenStep(s) \/ ReadStep(s) \/ ConnStep(s) \/ Eat(s)
         \/ LookUp(s) \/ Write(s) \/ HangUp(s) \/ TargetCloses(s)
         \/ \E n \in 1..FrameMax : CopyUp(s, n)

Spec == Init /\ [][Next]_vars

\* Goroutines run, broken streams are noticed (keepalive), a dial ends within
\* its 5 seconds, readers read and targets take their input.  Nobody has to
\* open, write, answer or hang up.  Every step uses up something of which there
\* is only so much (phases, frames, bytes), so that a behaviour has finitely many
\* steps, and fairness to all of these together is fairness to each of them.
Unhindered ==
    \/ \E t \in Streams : HandlerStep(t) \/ SendStep(t) \/ LoopStep(t)
    \/ \E s \in Sess : OpenStep(s) \/ ReadStep(s) \/ ConnStep(s) \/ Eat(s)

FairSpec == Spec /\ WF_vars(Unhindered)

-----------------------------------------------------------------------------
(* Properties.                                                              *)

\* The bytes the target gets are the bytes the proxy wrote, in order and
\* without a gap, although the first ones are buffered while it is dialled,
\* a close may come in between, and a dial that ends after its tunnel broke
\* still flushes the buffer to the target.
InputInOrder ==
    \A s \in Sess : got[s] = [i \in 1..Len(got[s]) |-> i]

\* Whatever is dropped on the way back, what the reader gets is in order and
\* nothing is repeated.
OutputInOrder ==
    \A s \in Sess : \A i, j \in 1..Len(bytesRead[s]) :
        i < j => bytesRead[s][i] < bytesRead[s][j]

\* A tunnel that has been replaced takes nothing with it: while the tunnel
\* the agent opened last is served it is the one sessions are opened on,
\* unless the handler of an older one, late for the mutex, registered over it.
NewestServes ==
    (newest # None /\ newest \notin overtaken /\ tunnel[newest] = "open")
        => current = newest

\* Sessions are not opened on a tunnel whose handler has taken itself out.
RegisteredIsLive == current # None => tunnel[current] \in {"open", "ending"}

\* Every session in a map belongs to somebody who will still remove it, or
\* to a handler that will.
SessionsHaveOwner ==
    \A s \in reg : \/ proxy[s] \in {"registered", "opening", "open", "eof",
                                    "failing"}
                   \/ tunnel[nt[s]] # "done"

\* What is registered has a handler or a user that will still take it out,
\* and the agent's newest tunnel is registered while it is served.  One
\* overlap is excepted: an older tunnel whose handler gets the mutex after its
\* successor takes the successor's place, and when it removes itself the
\* successor, though served, is not registered any more.
RegistersAreTrue == NewestServes /\ RegisteredIsLive /\ SessionsHaveOwner

\* A session whose channel was full when it was closed: nothing will tell its
\* reader.
Stranded(s) == /\ s \notin reg
               /\ pump[s] = "range"
               /\ \A i \in 1..Len(ch[s]) : ch[s][i].kind # "close"

\* The reader of a session is told when the session's tunnel is gone, unless
\* the close frame found the channel full.
ReadersEnd ==
    \A s \in Sess :
        proxy[s] = "open" /\ tunnel[nt[s]] = "done"
            ~> proxy[s] # "open" \/ Stranded(s)

\* nt.mu is kept while Send waits for the agent, and tunnelsMu while closeAll
\* waits for nt.mu: as long as targets take their input and broken streams
\* are noticed, OpenTunnelSession still returns and a new tunnel still
\* registers.
OpenReturns ==
    \A s \in Sess :
        proxy[s] = "found" ~> proxy[s] \notin {"found", "registered", "opening"}

TunnelRegisters ==
    \A t \in Streams : tunnel[t] = "called" ~> tunnel[t] = "open"
=============================================================================
