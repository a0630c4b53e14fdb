---------------------------- MODULE TerminalPage ----------------------------
(***************************************************************************)
(* web/src/views/TerminalView.vue: the page of a remote shell holds one    *)
(* WebSocket and opens the next one three seconds after it closed.         *)
(***************************************************************************)
EXTENDS Console

CONSTANT MaxShells  \* BOUND: sockets made

VARIABLE shell

(* connect: nothing once the page is closed, and nothing without a token.   *)
ShellConnect(s) ==
    IF s.closed THEN s
    ELSE IF ~s.token THEN [s EXCEPT !.gaveUp = TRUE]
    ELSE [s EXCEPT !.made = @ + 1, !.ws = s.made + 1, !.alive = @ \cup {s.made + 1}]

ShellInit ==
    shell = ShellConnect([closed |-> FALSE, token |-> TRUE, ws |-> 0, alive |-> {}, closing |-> {},
                          made |-> 0, timer |-> FALSE, gaveUp |-> FALSE])

\* Fault: onclose always makes the page try again.
OncloseRetries(s) == TRUE
\* Fault: a socket that closes is not followed by another.
NeverRetries(s) == FALSE
Retries(s) == ~s.closed

(* onclose, after a failure or as the end of ws.close().                    *)
ShellCloses(w) ==
    /\ w \in shell.alive \cup shell.closing
    /\ shell' = [shell EXCEPT !.alive = @ \ {w}, !.closing = @ \ {w}, !.timer = @ \/ Retries(shell)]

ShellError(w) ==   \* onerror closes whatever socket the page refers to
    /\ w \in shell.alive
    /\ shell' = [shell EXCEPT !.alive = @ \ {shell.ws}, !.closing = @ \cup ({shell.ws} \ {0})]

ShellTimer ==
    /\ shell.timer /\ shell.made < MaxShells
    /\ shell' = ShellConnect([shell EXCEPT !.timer = FALSE])

(* Another tab of the browser logs out, or in.                              *)
ShellToken == shell' = [shell EXCEPT !.token = ~@]

ShellLeave ==
    /\ ~shell.closed
    /\ shell' = [shell EXCEPT !.closed = TRUE, !.timer = FALSE, !.ws = 0,
                              !.alive = @ \ {shell.ws}, !.closing = @ \cup ({shell.ws} \ {0})]

ShellNext ==
    \/ \E w \in 1..MaxShells : ShellCloses(w) \/ ShellError(w)
    \/ ShellTimer \/ ShellToken \/ ShellLeave

(* The page never has two shells, and none, nor a timer that would open     *)
(* one, once it was left.                                                   *)
ShellGone ==
    /\ Cardinality(shell.alive) <= 1
    /\ shell.closed => shell.alive = {} /\ ~shell.timer

(* A page that was not left has no shell, and did find its token.           *)
ShellIsOff == shell.alive = {} /\ ~shell.closed /\ ~shell.gaveUp /\ shell.made < MaxShells
=============================================================================
