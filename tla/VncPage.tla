------------------------------ MODULE VncPage -------------------------------
(***************************************************************************)
(* web/src/views/VncView.vue: starting and stopping a node's VNC server    *)
(* and the noVNC client (RFB) that shows it.  Each press runs a chain of   *)
(* awaits; two may run at once, since only a status query disables the     *)
(* buttons.  A question on the screen is modal.                            *)
(***************************************************************************)
EXTENDS Console

CONSTANTS MaxChains,  \* BOUND: presses under way at once
          MaxRfbs     \* BOUND: clients made

ASSUME ChainsAssumption == MaxChains \in Nat /\ MaxRfbs \in Nat

VARIABLE vnc

(* A chain is at the step it awaits: "ask" (new VNC password), "call",      *)
(* "sudo" (sudo password), "call2", "script" (manual instructions),         *)
(* "status1" (of handleVncResult) and "status2" (of the chain).             *)
Steps == {"idle", "ask", "call", "sudo", "call2", "script", "status1", "status2"}
NoChain == [op |-> "none", at |-> "idle", auto |-> FALSE]

VncInit ==
    vnc = [mounted |-> TRUE, running |-> FALSE, statusLoading |-> TRUE,
           connected |-> FALSE, connecting |-> FALSE,
           rfb |-> 0,                              \* the client the page refers to
           alive |-> {},                           \* clients not disconnected
           made |-> 0,
           chain |-> [i \in 1..MaxChains |->
                        IF i = 1 THEN [op |-> "refresh", at |-> "status2", auto |-> FALSE] ELSE NoChain],
           twice |-> FALSE]                        \* connect() met a client that is alive

VncModal == \E i \in 1..MaxChains : vnc.chain[i].at \in {"ask", "sudo", "script"}

\* Fault: connect() does not look whether the canvas is still there.
AnyCanvas(v) == TRUE
Canvas(v) == v.mounted
Connect(v) ==
    IF ~Canvas(v) \/ v.made = MaxRfbs THEN v
    ELSE [v EXCEPT !.connecting = TRUE, !.made = @ + 1, !.rfb = v.made + 1,
                   !.alive = @ \cup {v.made + 1},
                   !.twice = @ \/ v.rfb \in v.alive]

Disconnect(v) == [v EXCEPT !.alive = @ \ {v.rfb}, !.rfb = 0, !.connected = FALSE]

VncPress(op) ==
    /\ vnc.mounted /\ ~VncModal /\ (op # "refresh" => ~vnc.statusLoading)
    /\ \E i \in 1..MaxChains :
        /\ vnc.chain[i] = NoChain
        /\ vnc' = [vnc EXCEPT
              !.chain[i] = [op |-> op, auto |-> FALSE,
                            at |-> CASE op = "start" -> "ask" [] op = "stop" -> "call" [] OTHER -> "status2"],
              !.statusLoading = @ \/ op = "refresh"]

At(i, step) == vnc.chain[i].at = step

VncAsked(i) ==
    /\ At(i, "ask")
    /\ \/ vnc' = [vnc EXCEPT !.chain[i] = NoChain]
       \/ vnc' = [vnc EXCEPT !.chain[i].at = "call"]

(* The answer to vnc_start or vnc_stop; a call that fails ends the chain.   *)
VncAnswered(i) ==
    /\ At(i, "call")
    /\ \/ vnc' = [vnc EXCEPT !.chain[i] = NoChain]
       \/ vnc' = [vnc EXCEPT !.chain[i].at = "sudo"]
       \/ vnc' = [vnc EXCEPT !.chain[i].at = "status2", !.statusLoading = TRUE]

(* With a sudo password the page sends vnc_start, whichever button it was.  *)
VncSudo(i) ==
    /\ At(i, "sudo")
    /\ \/ vnc' = [vnc EXCEPT !.chain[i].at = "script"]
       \/ vnc' = [vnc EXCEPT !.chain[i].at = "call2"]

VncAnswered2(i) ==
    /\ At(i, "call2")
    /\ \/ vnc' = [vnc EXCEPT !.chain[i] = NoChain]
       \/ vnc' = [vnc EXCEPT !.chain[i].at = "script"]
       \/ vnc' = [vnc EXCEPT !.chain[i].at = "status2", !.statusLoading = TRUE]
       \/ vnc' = [vnc EXCEPT !.chain[i].at = "status1", !.chain[i].auto = TRUE, !.statusLoading = TRUE]

VncScript(i) ==
    /\ At(i, "script")
    /\ vnc' = [vnc EXCEPT !.chain[i].at = "status1", !.statusLoading = TRUE]

(* loadStatus within handleVncResult; only the automatic way connects.      *)
VncStatus1(i) ==
    /\ At(i, "status1")
    /\ \E running \in BOOLEAN :
        LET v == [vnc EXCEPT !.running = running, !.chain[i].at = "status2", !.statusLoading = TRUE]
        IN vnc' = IF vnc.chain[i].auto /\ running THEN Connect(v) ELSE v

VncStatus2(i) ==
    /\ At(i, "status2")
    /\ \E running \in BOOLEAN :
        LET v == [vnc EXCEPT !.running = running, !.chain[i] = NoChain, !.statusLoading = FALSE]
        IN vnc' = CASE vnc.chain[i].op = "start" /\ running -> Connect(v)
                    [] vnc.chain[i].op = "stop" /\ v.connected -> Disconnect(v)
                    [] OTHER -> v

(* Events of a client, the page's own or an orphan.                         *)
VncConnects(r) ==
    /\ r \in vnc.alive /\ ~vnc.connected
    /\ vnc' = [vnc EXCEPT !.connected = TRUE, !.connecting = FALSE]
VncDisconnects(r) ==
    /\ r \in vnc.alive
    /\ vnc' = [vnc EXCEPT !.alive = @ \ {r}, !.connected = FALSE, !.connecting = FALSE]

VncLeave ==
    /\ vnc.mounted /\ ~VncModal
    /\ vnc' = [Disconnect(vnc) EXCEPT !.mounted = FALSE]

VncNext ==
    \/ \E op \in {"start", "stop", "refresh"} : VncPress(op)
    \/ \E i \in 1..MaxChains :
          VncAsked(i) \/ VncAnswered(i) \/ VncSudo(i) \/ VncAnswered2(i) \/ VncScript(i)
          \/ VncStatus1(i) \/ VncStatus2(i)
    \/ \E r \in 1..MaxRfbs : VncConnects(r) \/ VncDisconnects(r)
    \/ VncLeave

(* The page says connected only while its own client is alive, and a page   *)
(* that was left has no client, unless it made one while another was alive. *)
VncShown == vnc.connected => vnc.rfb \in vnc.alive \/ vnc.twice
VncGone == ~vnc.mounted => vnc.alive = {} \/ vnc.twice
=============================================================================
