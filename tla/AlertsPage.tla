----------------------------- MODULE AlertsPage -----------------------------
(***************************************************************************)
(* web/src/views/AlertsView.vue, with what server/internal/api/alerts.go   *)
(* makes of its requests: rules are listed, created and edited in one      *)
(* dialog, deleted, and deployed to a node.  A rule is the node it is for; *)
(* one node stands for all.                                                *)
(***************************************************************************)
EXTENDS Console

CONSTANTS MaxRules,  \* BOUND: rules created
          MaxSaves   \* BOUND: requests, or lists, under way at once

Scopes == {"node", "global"}

ASSUME RulesAssumption == MaxRules \in Nat

VARIABLE alerts

(* The dialog's form: the rule it was filled from (0 is none), its node,    *)
(* and whether it has a name.                                               *)
NewForm == [of |-> 0, node |-> "global", named |-> FALSE]

AlertsInit ==
    alerts = [rules |-> [i \in 1..MaxRules |-> None],   \* the store
              made |-> 0,
              shown |-> [i \in 1..MaxRules |-> None],   \* the table
              loads |-> 1,
              dialog |-> FALSE, editing |-> 0, form |-> NewForm,
              asked |-> [k \in 1..MaxSaves |-> None],   \* requests under way
              box |-> None]                             \* the question: delete this rule? deploy it where?

Unmasked == ~alerts.dialog /\ alerts.box = None
InTable(i) == Unmasked /\ alerts.shown[i] # None /\ alerts.loads = 0   \* it is masked while it loads
Post(a, request) ==
    \E k \in 1..MaxSaves : alerts.asked[k] = None /\ alerts' = [a EXCEPT !.asked[k] = request]

AlertsRefresh == Unmasked /\ alerts.loads = 0 /\ alerts' = [alerts EXCEPT !.loads = 1]
AlertsListed ==
    /\ alerts.loads > 0
    /\ \E ok \in BOOLEAN :
        alerts' = [alerts EXCEPT !.loads = @ - 1, !.shown = IF ok THEN alerts.rules ELSE @]

\* Fault: the rule that was edited last is still the one to save.
StillEditing(a) == [a EXCEPT !.dialog = TRUE, !.form = NewForm]
OpenNew(a) == [a EXCEPT !.dialog = TRUE, !.form = NewForm, !.editing = 0]
AlertsCreate == Unmasked /\ alerts' = OpenNew(alerts)
AlertsEdit(i) ==
    /\ InTable(i)
    /\ alerts' = [alerts EXCEPT !.dialog = TRUE, !.editing = i,
                                !.form = [of |-> i, node |-> alerts.shown[i], named |-> TRUE]]
AlertsType ==
    /\ alerts.dialog
    /\ \E node \in Scopes : alerts' = [alerts EXCEPT !.form.node = node, !.form.named = TRUE]
AlertsCancel == alerts.dialog /\ alerts' = [alerts EXCEPT !.dialog = FALSE]

(* saveRule: nothing keeps it from being pressed twice.                     *)
AlertsSave ==
    /\ alerts.dialog /\ alerts.form.named
    /\ Post(alerts, [what |-> "save", id |-> alerts.editing, of |-> alerts.form.of, node |-> alerts.form.node])

(* A rule of one node is deployed there without a question.                 *)
AlertsPress(i, what) ==
    /\ InTable(i)
    /\ IF what = "deploy" /\ alerts.shown[i] # "global"
       THEN Post(alerts, [what |-> what, id |-> i])
       ELSE alerts' = [alerts EXCEPT !.box = [what |-> what, id |-> i]]
AlertsAnswerBox ==
    /\ alerts.box # None
    /\ LET closed == [alerts EXCEPT !.box = None] IN
       alerts' = closed \/ Post(closed, alerts.box)

\* Fault: an update takes the node of the form.
MovedTo(old, q) == q.node
Updated(old, q) == old
(* What the server makes of a request.                                      *)
Served(a, q) ==
    CASE q.what = "save" /\ q.id = 0 -> [a EXCEPT !.made = @ + 1, !.rules[a.made + 1] = q.node]
      [] q.what = "save" /\ q.id # 0 -> [a EXCEPT !.rules[q.id] = Updated(@, q)]
      [] q.what = "delete" -> [a EXCEPT !.rules[q.id] = None]
      [] q.what = "deploy" -> a
Possible(q) ==   \* 404 for a rule that is gone
    q.what = "save" => IF q.id = 0 THEN alerts.made < MaxRules ELSE alerts.rules[q.id] # None

(* A save that succeeds closes the dialog, whichever is open by then; after *)
(* an error nothing changes on the page, though the server may have done    *)
(* what it was asked.                                                       *)
AlertsAnswered(k) ==
    /\ alerts.asked[k] # None
    /\ LET q == alerts.asked[k]
           rest == [alerts EXCEPT !.asked[k] = None]
       IN
       \/ alerts' = rest
       \/ Possible(q) /\ alerts' = Served(rest, q)
       \/ /\ Possible(q) /\ q.what # "deploy" /\ alerts.loads < MaxSaves
          /\ alerts' = [Served(rest, q) EXCEPT !.loads = @ + 1, !.dialog = @ /\ q.what # "save"]

AlertsNext ==
    \/ AlertsRefresh \/ AlertsListed \/ AlertsCreate \/ AlertsType \/ AlertsCancel \/ AlertsSave
    \/ AlertsAnswerBox
    \/ \E i \in 1..MaxRules : AlertsEdit(i) \/ \E what \in {"delete", "deploy"} : AlertsPress(i, what)
    \/ \E k \in 1..MaxSaves : AlertsAnswered(k)

(* A rule never moves from one node to another, whatever the dialog says.   *)
AlertsKept ==
    [][\A i \in 1..MaxRules :
         alerts.rules[i] # None /\ alerts'.rules[i] # None => alerts'.rules[i] = alerts.rules[i]]_alerts

(* What is saved for a rule was read from that rule, and what was entered   *)
(* for a new one makes a new one, in whatever order dialogs are opened and  *)
(* closed and answers arrive.                                               *)
AlertsAsked ==
    \A k \in 1..MaxSaves :
        alerts.asked[k] # None /\ alerts.asked[k].what = "save" => alerts.asked[k].id = alerts.asked[k].of
=============================================================================
