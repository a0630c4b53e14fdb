--------------------------- MODULE ContainersPage ---------------------------
(***************************************************************************)
(* web/src/views/ContainersView.vue: the containers of one node, their     *)
(* actions behind a modal question, and the drawer with a container's log. *)
(***************************************************************************)
EXTENDS Console

CONSTANTS Containers, Managed, MaxRequests  \* BOUND: lists, or logs, asked for at once

ASSUME ManagedAssumption == Managed \subseteq Containers
ASSUME RequestsAssumption == None \notin Containers /\ MaxRequests \in Nat

Verbs == {"start", "stop", "restart"}

VARIABLE containers  \* the component, and its open requests

CtrInit ==
    containers =
      [rows |-> None,              \* container states as last listed
       loads |-> 1, loading |-> TRUE, offline |-> FALSE,
       busy |-> None,
       box |-> {},                        \* the question on the screen
       acting |-> {},                     \* actions sent, not answered
       reloading |-> FALSE,               \* doAction awaits a load of its own
       log |-> [visible |-> FALSE, name |-> None, content |-> None, loading |-> FALSE],
       logs |-> [i \in 1..MaxRequests |-> None],
       crossed |-> FALSE]

Modal == containers.box # {} \/ containers.log.visible
Known == containers.rows # None

CtrRefresh ==
    /\ ~containers.loading /\ ~Modal /\ containers.loads < MaxRequests
    /\ containers' = [containers EXCEPT !.loading = TRUE, !.offline = FALSE, !.loads = @ + 1]

(* The end of a load; when it is doAction's own, the action is over.        *)
CtrListed(own) ==
    /\ IF own THEN containers.reloading ELSE containers.loads > 0
    /\ \E answer \in {"rows", "unreadable", "offline", "error"} :
       \E state \in [Containers -> {"running", "exited"}] :
        containers' = [containers EXCEPT
            !.loads = IF own THEN @ ELSE @ - 1,
            !.reloading = @ /\ ~own,
            !.busy = IF own THEN None ELSE @,
            !.loading = FALSE,
            !.rows = CASE answer = "rows" -> state
                       [] answer = "error" -> @
                       [] OTHER -> None,
            !.offline = @ \/ answer = "offline"]

\* Fault: the question is asked whatever is under way.
AnyTime(c) == TRUE
NotBusy(c) == containers.busy = None
CtrPress(c, verb) ==
    /\ Known /\ ~Modal /\ ~containers.loading /\ c \in Managed /\ containers.busy # c
    /\ verb = "start" => containers.rows[c] # "running"
    /\ verb = "stop" => containers.rows[c] = "running"
    /\ NotBusy(c)
    /\ containers' = [containers EXCEPT !.box = {[c |-> c, verb |-> verb]}]

CtrConfirm ==
    /\ containers.box # {}
    /\ \E yes \in BOOLEAN :
        containers' = IF yes
            THEN [containers EXCEPT !.box = {}, !.acting = @ \cup containers.box,
                                    !.busy = (CHOOSE b \in containers.box : TRUE).c]
            ELSE [containers EXCEPT !.box = {}]

(* docker_action; whatever its status, a promise that resolves is followed  *)
(* by a load, and one that rejects ends the action.                         *)
CtrActed ==
    \E a \in containers.acting, reply \in {"ok", "refused", "error"} :
        containers' = [containers EXCEPT
            !.acting = @ \ {a},
            !.loading = IF reply = "error" THEN @ ELSE TRUE,
            !.offline = IF reply = "error" THEN @ ELSE FALSE,
            !.reloading = reply # "error",
            !.busy = IF reply = "error" THEN None ELSE @]

CtrOpenLog(c) ==
    /\ Known /\ ~Modal /\ ~containers.loading
    /\ \E i \in 1..MaxRequests :
        /\ containers.logs[i] = None
        /\ containers' = [containers EXCEPT
              !.log = [visible |-> TRUE, name |-> c, content |-> None, loading |-> TRUE],
              !.logs[i] = c,
              !.crossed = \E j \in 1..MaxRequests : containers.logs[j] \notin {c, None}]

CtrCloseLog ==
    /\ containers.log.visible
    /\ containers' = [containers EXCEPT !.log.visible = FALSE]

CtrLogged(i) ==
    /\ containers.logs[i] # None
    /\ containers' = [containers EXCEPT !.logs[i] = None, !.log.loading = FALSE,
                                        !.log.content = containers.logs[i]]

CtrNext ==
    \/ CtrRefresh \/ CtrConfirm \/ CtrActed \/ CtrCloseLog
    \/ \E own \in BOOLEAN : CtrListed(own)
    \/ \E c \in Containers : CtrOpenLog(c) \/ \E v \in Verbs : CtrPress(c, v)
    \/ \E i \in 1..MaxRequests : CtrLogged(i)

(* The log on the screen is of the container in the title, unless that of   *)
(* another one was still on its way when the drawer was opened.             *)
CtrShown ==
    containers.log.visible =>
        containers.crossed \/ containers.log.content \in {None, containers.log.name}

(* One action at a time, whichever rows it is asked for in, and none on a   *)
(* container that is not managed.                                           *)
CtrAsked ==
    /\ Cardinality(containers.acting) <= 1
    /\ \A a \in containers.acting : a.c \in Managed /\ containers.busy = a.c
=============================================================================
