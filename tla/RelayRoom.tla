------------------------------ MODULE RelayRoom ------------------------------
(***************************************************************************)
(* The emergency channel: one room of the relay (relay/src/room.ts), a     *)
(* Durable Object that the platform may put to sleep at any moment; the    *)
(* agent's outbound connection to it (agent/internal/relay/relay.go); and  *)
(* the commands of the console pages that share it                         *)
(* (web/src/api/relay.ts).                                                 *)
(*                                                                         *)
(* A handler of the room runs to its end before the next one: its awaits   *)
(* are of the synchronous storage.  A frame a page sends is handled by the *)
(* room in the step that sends it; a frame to the agent travels.  The      *)
(* clock is read only to see whether the last ping is older than           *)
(* AGENT_OFFLINE_MS.  What a page does with a result is RelayLink.         *)
(***************************************************************************)
EXTENDS Naturals, Sequences, FiniteSets, SequencesExt

CONSTANTS
    Pages,     \* console pages; one that is loaded again is a page of its own
    MaxSeq,    \* BOUND: commands a page sends
    MaxDials,  \* BOUND: connections the agent makes
    MaxSleeps, \* BOUND: times the room hibernates
    Limit      \* rows flushOffline reads (100 in the code)

ASSUME BoundsAssumption ==
    /\ IsFiniteSet(Pages)
    /\ MaxSeq \in [Pages -> Nat]
    /\ MaxDials \in Nat
    /\ MaxSleeps \in Nat
    /\ Limit \in Nat \ {0}

Conns == 1..MaxDials
Seqs == UNION {1..MaxSeq[p] : p \in Pages}
Command == {c \in [page : Pages, seq : Seqs] : c.seq <= MaxSeq[c.page]}
NoCommand == [page |-> 0, seq |-> 0]

VARIABLES
    listed,   \* getWebSockets("agent"), oldest first
    sock,     \* the room's end of each agent connection
    lastPing, \* lastAgentPing: "never" (0), "fresh", or "old" (over a minute)
    armed,    \* alarmScheduled, in memory
    alarm,    \* the alarm in storage
    offline,  \* the table of queued commands, by seq
    dials, sleeps,
    link,     \* the connection the agent's loop reads, 0 while it has none
    up,       \* bytes still pass on it
    down,     \* frames on the way to the agent, by connection
    running,  \* the command in handleFrame of a connection's reader
    seq,      \* the counter of each page
    ran,      \* commands in the order the agent started them
    left,     \* commands a flush left in the table
    kept,     \* commands a flush sent and could not delete
    missed    \* the alarm met a socket it had already closed

roomVars == <<listed, sock, lastPing, armed, alarm, offline, dials, sleeps>>
agentVars == <<link, up, down, running>>
history == <<ran, left, kept, missed>>
vars == <<roomVars, agentVars, seq, history>>

TypeOK ==
    /\ listed \in Seq(Conns)
    /\ sock \in [Conns -> {"new", "open", "closing", "gone"}]
    /\ lastPing \in {"never", "fresh", "old"}
    /\ armed \in BOOLEAN /\ alarm \in BOOLEAN /\ up \in BOOLEAN
    /\ offline \in [Seqs -> Command \cup {NoCommand}]
    /\ dials \in 0..MaxDials /\ sleeps \in 0..MaxSleeps
    /\ link \in 0..MaxDials
    /\ down \in [Conns -> Seq(Command)]
    /\ running \in [Conns -> Command \cup {NoCommand}]
    /\ seq \in [Pages -> Nat]
    /\ ran \in Seq(Command)
    /\ left \subseteq Command /\ kept \subseteq Command
    /\ missed \in BOOLEAN

Init ==
    /\ listed = <<>> /\ sock = [c \in Conns |-> "new"]
    /\ lastPing = "never" /\ armed = FALSE /\ alarm = FALSE
    /\ offline = [s \in Seqs |-> NoCommand]
    /\ dials = 0 /\ sleeps = 0
    /\ link = 0 /\ up = FALSE
    /\ down = [c \in Conns |-> <<>>]
    /\ running = [c \in Conns |-> NoCommand]
    /\ seq = [p \in Pages |-> 0]
    /\ ran = <<>> /\ left = {} /\ kept = {} /\ missed = FALSE

Listed(c) == \E i \in DOMAIN listed : listed[i] = c
Live(c) == link = c /\ up /\ Listed(c)   \* frames pass in both directions

-----------------------------------------------------------------------------
(* flushOffline: the first rows by seq are sent, and each is deleted after  *)
(* its send.  `done` rows get as far as their DELETE; safeSend swallows that *)
(* the socket has died, and the rows are deleted all the same.              *)
Rows == {s \in Seqs : offline[s] # NoCommand}
Rank(s, S) == Cardinality({t \in S : t <= s})
Flushed == {s \in Rows : Rank(s, Rows) <= Limit}
\* Fault: the rows are sent last first.
FlushedBackwards ==
    [i \in 1..Cardinality(Flushed) |->
        offline[CHOOSE s \in Flushed : Rank(s, Flushed) = Cardinality(Flushed) + 1 - i]]
FlushedFrames ==
    [i \in 1..Cardinality(Flushed) |->
        offline[CHOOSE s \in Flushed : Rank(s, Flushed) = i]]

\* Fault: the table is emptied whatever was sent.
RowsAfterFlushAll(done) == [s \in Seqs |-> NoCommand]
\* Fault: the rows that were sent stay.
RowsAfterFlushNone(done) == offline
Deleted(done) == {s \in Flushed : Rank(s, Flushed) <= done}
RowsAfterFlush(done) == [s \in Seqs |-> IF s \in Deleted(done) THEN NoCommand ELSE offline[s]]

(* Where a flush ends: after the last row, or in its catch, because the     *)
(* SELECT or the DELETE of the row just sent threw.                         *)
FlushEnds(tried, done) ==
    \/ done = Cardinality(Flushed) /\ tried = done
    \/ done = 0 /\ tried = 0
    \/ tried = done + 1

\* Fault: the flag in memory is set and the alarm is not.
ArmFlagOnly == armed' = TRUE /\ UNCHANGED alarm
ArmHeartbeatAlarm == armed' = TRUE /\ alarm' = (alarm \/ ~armed)

(* Run and dial of the agent meet fetch and attachAgent of the room: older  *)
(* sockets are closed but stay listed until their close is complete.  If    *)
(* the new one is dead before the flush no row is sent; one that dies later *)
(* is LinkBreaks.                                                           *)
AttachAgent ==
    LET c == dials + 1 IN
    /\ link = 0 /\ dials < MaxDials
    /\ dials' = c /\ link' = c
    /\ listed' = Append(listed, c)
    /\ sock' = [x \in Conns |-> IF x = c THEN "open"
                                ELSE IF Listed(x) THEN "closing" ELSE sock[x]]
    /\ lastPing' = "fresh"
    /\ ArmHeartbeatAlarm
    /\ \E tried, done, sent \in 0..Cardinality(Flushed) :
          /\ FlushEnds(tried, done) /\ sent \in {0, tried}
          /\ up' = (sent = tried)
          /\ down' = [down EXCEPT ![c] = SubSeq(FlushedFrames, 1, sent)]
          /\ offline' = RowsAfterFlush(done)
          /\ left' = left \cup {offline[s] : s \in Rows \ Deleted(done)}
          /\ kept' = kept \cup {FlushedFrames[i] : i \in (done + 1)..sent}
    /\ UNCHANGED <<sleeps, running, seq, ran, missed>>

(* The network fails without a word to either end.                          *)
LinkBreaks == up /\ up' = FALSE /\ UNCHANGED <<roomVars, link, down, running, seq, history>>

(* The agent's loop returns: a write failed or its socket was closed.  The  *)
(* goroutine that reads the old socket may still be in handleFrame.         *)
AgentHangsUp ==
    /\ link # 0
    /\ ~up \/ sock[link] \in {"closing", "gone"}
    /\ link' = 0 /\ up' = FALSE
    /\ UNCHANGED <<roomVars, down, running, seq, history>>

AgentTakes ==
    /\ link # 0 /\ up /\ running[link] = NoCommand /\ down[link] # <<>>
    /\ running' = [running EXCEPT ![link] = Head(down[link])]
    /\ down' = [down EXCEPT ![link] = Tail(@)]
    /\ ran' = Append(ran, Head(down[link]))
    /\ UNCHANGED <<roomVars, link, up, seq, left, kept, missed>>

(* sendResult: the room takes any frame of the agent for a sign of life and *)
(* sends the result to every page; a page knows it by its seq alone.        *)
AgentAnswers(c) ==
    /\ running[c] # NoCommand
    /\ running' = [running EXCEPT ![c] = NoCommand]
    /\ lastPing' = IF Live(c) THEN "fresh" ELSE lastPing
    /\ UNCHANGED <<listed, sock, armed, alarm, offline, dials, sleeps, link, up, down, seq, history>>

(* ping and telemetry.                                                      *)
AgentPings ==
    /\ link # 0 /\ Live(link) /\ lastPing # "fresh"
    /\ lastPing' = "fresh"
    /\ UNCHANGED <<listed, sock, armed, alarm, offline, dials, sleeps, agentVars, seq, history>>

(* A minute passes without a ping: not while an agent that pings every 30 s *)
(* is connected.                                                            *)
Silence ==
    /\ lastPing = "fresh" /\ ~(link # 0 /\ Live(link))
    /\ lastPing' = "old"
    /\ UNCHANGED <<listed, sock, armed, alarm, offline, dials, sleeps, agentVars, seq, history>>

(* webSocketClose and webSocketError: the socket leaves the list.           *)
SocketCloses(c) ==
    /\ sock[c] = "closing" \/ ~(link = c /\ up)
    /\ \E i \in DOMAIN listed : listed[i] = c /\ listed' = RemoveAt(listed, i)
    /\ sock' = [sock EXCEPT ![c] = "gone"]
    /\ UNCHANGED <<lastPing, armed, alarm, offline, dials, sleeps, agentVars, seq, history>>

(* The room hibernates: its fields start again, sockets and storage stay.   *)
Hibernate ==
    /\ sleeps < MaxSleeps /\ sleeps' = sleeps + 1
    /\ lastPing' = "never" /\ armed' = FALSE
    /\ UNCHANGED <<listed, sock, alarm, offline, dials, agentVars, seq, history>>

(* alarm: the oldest listed socket is closed if nothing was heard for a     *)
(* minute, and then no further alarm is set; else the next one is.          *)
\* Fault: the reverse comparison.
NotTimedOut == lastPing = "fresh"
TimedOut == lastPing # "fresh"
Alarm ==
    /\ alarm
    /\ IF listed # <<>> /\ TimedOut
       THEN /\ sock' = [sock EXCEPT ![listed[1]] = "closing"]
            /\ missed' = (missed \/ sock[listed[1]] = "closing")
            /\ armed' = FALSE /\ alarm' = FALSE
       ELSE /\ armed' = (listed # <<>>) /\ alarm' = (listed # <<>>)
            /\ UNCHANGED <<sock, missed>>
    /\ UNCHANGED <<listed, lastPing, offline, dials, sleeps, agentVars, seq, ran, left, kept>>

-----------------------------------------------------------------------------
(* execCommand, and the room's case 'command': to the first listed socket,  *)
(* whose failure to send is swallowed, or into the table, whose failure to   *)
(* take it is swallowed too.                                                *)
\* Fault: what is forwarded is queued as well.
ForwardAndQueue(cmd) ==
    /\ offline' = [offline EXCEPT ![cmd.seq] = cmd]
    /\ down' = IF listed # <<>> THEN [down EXCEPT ![listed[1]] = Append(@, cmd)] ELSE down
Forward(cmd) ==
    IF listed = <<>>
    THEN offline' \in {[offline EXCEPT ![cmd.seq] = cmd], offline} /\ UNCHANGED down
    ELSE /\ down' = IF sock[listed[1]] = "open" THEN [down EXCEPT ![listed[1]] = Append(@, cmd)] ELSE down
         /\ UNCHANGED offline

PageSends(p) ==
    LET cmd == [page |-> p, seq |-> seq[p] + 1] IN
    /\ seq[p] < MaxSeq[p]
    /\ seq' = [seq EXCEPT ![p] = cmd.seq]
    /\ Forward(cmd)
    /\ UNCHANGED <<listed, sock, lastPing, armed, alarm, dials, sleeps, link, up, running, history>>

-----------------------------------------------------------------------------
Next ==
    \/ AttachAgent \/ LinkBreaks \/ AgentHangsUp \/ AgentTakes \/ AgentPings
    \/ Silence \/ Hibernate \/ Alarm
    \/ \E c \in Conns : AgentAnswers(c) \/ SocketCloses(c)
    \/ \E p \in Pages : PageSends(p)

Spec == Init /\ [][Next]_vars

-----------------------------------------------------------------------------
(* The agent starts a command that came over the relay once, however often  *)
(* it reconnects and whatever the room kept for it, unless a flush sent the *)
(* row and could not delete it: the next connection brings it again.        *)
OncePerCommand == \A i, j \in DOMAIN ran : ran[i] = ran[j] => i = j \/ ran[i] \in kept

(* The commands of a page start in the order in which it sent them, unless  *)
(* one of them was left in the table by a flush: the next ones then pass it.*)
RunsInOrder ==
    \A i, j \in DOMAIN ran :
        i < j /\ ran[i].page = ran[j].page /\ ran[i].seq > ran[j].seq => ran[j] \in left

(* A queued command leaves the table only onto the wire of an open agent    *)
(* socket, or when another page's command of the same seq replaces it, or   *)
(* when the socket that is just attached is already dead: the send that     *)
(* fails is swallowed, and the row that was not sent is deleted.            *)
RowsLeaveOnTheWire ==
    [][\A s \in Seqs :
         LET cmd == offline[s] IN
         cmd # NoCommand /\ offline'[s] # cmd =>
            \/ offline'[s].page \in Pages \ {cmd.page}
            \/ \E c \in Conns : sock'[c] = "open" /\ \E i \in DOMAIN down'[c] : down'[c][i] = cmd
            \/ dials' # dials /\ ~up']_vars

(* The room closes the socket of an agent that is connected and pings only  *)
(* if it has slept since the last ping: the time of that ping is then gone. *)
HealthyAgentStays ==
    [][\A c \in Conns : Live(c) /\ sock[c] = "open" /\ sock'[c] = "closing" => lastPing = "never"]_vars

(* While an agent socket is open the next alarm is set, across sleeps and   *)
(* replacements, unless an alarm was spent on a socket closed before.       *)
Watched == (\E c \in Conns : sock[c] = "open") => alarm \/ missed
=============================================================================
