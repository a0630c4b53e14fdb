------------------------------ MODULE MCRelay -------------------------------
(***************************************************************************)
(* Two pages, one of which sends three commands, two connections of the    *)
(* agent, one hibernation, and a flush that reads two rows.                *)
(***************************************************************************)
EXTENDS RelayRoom

CONSTANTS p1, p2
MCPages == {p1, p2}
MCMaxSeq == [p \in MCPages |-> IF p = p1 THEN 3 ELSE 1]

(* Alarms are kept and the minute passes; nothing is asked of the agent,    *)
(* of the network or of the runtime's close events.                         *)
FairSpec == Spec /\ WF_vars(Alarm) /\ WF_vars(Silence)

(* An open socket whose agent is gone is closed, with no help from the      *)
(* network, unless an alarm was spent on a socket closed before.            *)
AbsenceIsNoticed ==
    \A c \in Conns : (sock[c] = "open" /\ ~Live(c)) ~> (sock[c] # "open" \/ missed)
=============================================================================
