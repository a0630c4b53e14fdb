----------------------------- MODULE RelayLink ------------------------------
(***************************************************************************)
(* web/src/api/relay.ts: the one RelayClient of a page - its WebSocket to  *)
(* the relay, the timers that open it again, and the promises of the       *)
(* commands sent over it.  App.vue hands it the configuration every 30     *)
(* seconds, LoginView once after each login.                               *)
(***************************************************************************)
EXTENDS Console

CONSTANTS MaxSockets,   \* BOUND: sockets made
          MaxPromises   \* BOUND: commands sent

ASSUME SocketsAssumption == MaxSockets \in Nat /\ MaxPromises \in Nat

VARIABLE relay

RelayInit ==
    relay = [enabled |-> FALSE, connecting |-> FALSE, manualClose |-> FALSE, online |-> FALSE,
             ws |-> 0,                  \* the socket the client refers to
             sock |-> [w \in 1..MaxSockets |-> "new"],
             made |-> 0, retries |-> 0,
             seq |-> 0,
             pending |-> {},            \* the Map of promises, with their timers
             open |-> {},               \* promises neither resolved nor rejected
             early |-> FALSE]           \* a socket was made while an older one was closing

Dying == \E w \in 1..MaxSockets : relay.sock[w] = "closing"

\* Fault: connect() does not see the socket it already has.
HasNoSocket(r) == TRUE
NeedsSocket(r) == r.ws = 0
RelayConnect(r) ==
    IF ~r.enabled \/ r.connecting \/ ~NeedsSocket(r) \/ r.made = MaxSockets THEN r
    ELSE [r EXCEPT !.connecting = TRUE, !.manualClose = FALSE, !.made = @ + 1,
                   !.ws = r.made + 1, !.sock[r.made + 1] = "connecting",
                   !.early = @ \/ Dying]

(* setConfig: enabled connects, and disabled closes.                        *)
RelaySetConfig(on) ==
    relay' = IF on THEN RelayConnect([relay EXCEPT !.enabled = TRUE])
             ELSE [relay EXCEPT !.enabled = FALSE, !.manualClose = TRUE, !.ws = 0, !.online = FALSE,
                                !.sock = [w \in 1..MaxSockets |->
                                             IF w = relay.ws THEN "closing" ELSE relay.sock[w]]]

RelayOpens(w) ==
    /\ relay.sock[w] = "connecting"
    /\ relay' = [relay EXCEPT !.sock[w] = "open", !.online = TRUE, !.connecting = FALSE]

\* Fault: the promises are forgotten and not rejected.
ForgetAll(r) == [r EXCEPT !.pending = {}]
RejectAll(r) == [r EXCEPT !.pending = {}, !.open = @ \ r.pending]

(* onclose, of the socket in use or of one given up before.                 *)
RelayCloses(w) ==
    /\ relay.sock[w] \in {"connecting", "open", "closing"}
    /\ relay' = RejectAll([relay EXCEPT !.sock[w] = "closed", !.online = FALSE, !.connecting = FALSE,
                                        !.ws = 0,
                                        !.retries = IF relay.manualClose THEN @ ELSE @ + 1])

RelayRetries ==
    /\ relay.retries > 0
    /\ relay' = RelayConnect([relay EXCEPT !.retries = @ - 1])

(* execCommand: send throws while the socket is connecting; the entry then  *)
(* stays for its timer, and the promise is rejected.                        *)
RelayExec ==
    /\ relay.ws # 0 /\ relay.online /\ relay.seq < MaxPromises
    /\ relay' = [relay EXCEPT !.seq = @ + 1, !.pending = @ \cup {relay.seq + 1},
                              !.open = IF relay.sock[relay.ws] = "connecting" THEN @ ELSE @ \cup {relay.seq + 1}]

(* A result frame of any page's command reaches every open socket.          *)
RelayResult(s) ==
    /\ \E w \in 1..MaxSockets : relay.sock[w] = "open"
    /\ s \in relay.pending
    /\ relay' = [relay EXCEPT !.pending = @ \ {s}, !.open = @ \ {s}]

RelayTimesOut(s) ==
    /\ s \in relay.pending
    /\ relay' = [relay EXCEPT !.pending = @ \ {s}, !.open = @ \ {s}]

RelayNext ==
    \/ \E on \in BOOLEAN : RelaySetConfig(on)
    \/ \E w \in 1..MaxSockets : RelayOpens(w) \/ RelayCloses(w)
    \/ RelayRetries \/ RelayExec
    \/ \E s \in 1..MaxPromises : RelayResult(s) \/ RelayTimesOut(s)

(* There is one socket, the one the client refers to, and it is open while  *)
(* the client says so, unless one was made while an older was closing.      *)
RelayOneSocket ==
    relay.early \/
    /\ \A w \in 1..MaxSockets : relay.sock[w] \in {"connecting", "open"} => w = relay.ws
    /\ relay.online => relay.ws # 0 /\ relay.sock[relay.ws] = "open"

(* A command sent over the relay whose promise is open; and a client that   *)
(* is enabled but not online.                                               *)
RelayWaits == relay.open # {}
RelayIsOff == relay.enabled /\ ~relay.online /\ relay.made < MaxSockets
=============================================================================
