------------------------------ MODULE VpnPages ------------------------------
(***************************************************************************)
(* The VPN jumps: web/src/components/NodeVpnPanel.vue deploys xray on a    *)
(* node and edits the node's entry in localStorage; NetworkView.vue, in    *)
(* another tab, lists the entries it read and removes them by their names. *)
(***************************************************************************)
EXTENDS Console

CONSTANTS Boxes, Names, Domains,
          MaxDeploys,  \* BOUND: deployments
          MaxChecks    \* BOUND: questions for the state of xray at once

OwnUuid == MaxDeploys + 1   \* one that the page made up

VpnForms == [name : Names, server : Domains \cup {None}, uuid : Nat]
ASSUME VpnAssumption == MaxDeploys \in Nat /\ Names # {} /\ None \notin VpnForms

VARIABLE vpn

(* loadJump: the saved entry, or an empty form.                             *)
Form(store, n) == IF store[n] # None THEN store[n] ELSE [name |-> CHOOSE x \in Names : TRUE, server |-> None, uuid |-> 0]
Panel(v, n) ==
    [v EXCEPT !.at = n, !.form = Form(v.store, n), !.saved = v.store[n] # None,
              !.xray = "checking", !.checks = 1, !.deploying = FALSE, !.box = FALSE, !.told = FALSE]

VpnInit ==
    \E n \in Boxes :
    vpn = Panel([store |-> [h \in Boxes |-> None],    \* localStorage
                 conf |-> [h \in Boxes |-> 0],         \* the UUID in the node's configuration, 0 is none
                 made |-> 0,
                 at |-> n, form |-> None, saved |-> FALSE, xray |-> "checking", checks |-> 0,
                 deploying |-> FALSE, box |-> FALSE, told |-> FALSE,
                 rows |-> [h \in Boxes |-> None]], n) \* the summary, as it read the entries

NoQuestion == ~vpn.box

VpnCheck == NoQuestion /\ vpn.checks < MaxChecks /\ vpn' = [vpn EXCEPT !.xray = "checking", !.checks = @ + 1]
VpnChecked ==
    /\ vpn.checks > 0
    /\ \E state \in {IF vpn.conf[vpn.at] # 0 THEN "running" ELSE "absent", "error"} :
        vpn' = [vpn EXCEPT !.checks = @ - 1, !.xray = state]

VpnDeploy == NoQuestion /\ ~vpn.deploying /\ vpn.checks < MaxChecks /\ vpn' = [vpn EXCEPT !.deploying = TRUE, !.told = FALSE]

(* The script of the agent writes a configuration with a new UUID each time.*)
Deployed(v) == [v EXCEPT !.made = @ + 1, !.conf[v.at] = v.made + 1]

(* The panel of another node, also while a deployment is under way, whose   *)
(* answer then reaches nobody; the script ends early or not at all.         *)
VpnOpen(n) ==
    /\ NoQuestion /\ n # vpn.at
    /\ \E v \in {vpn} \cup (IF vpn.deploying /\ vpn.made < MaxDeploys THEN {Deployed(vpn)} ELSE {}) :
        vpn' = Panel(v, n)

FillIn(form, uuid) == [form EXCEPT !.uuid = IF @ = 0 THEN uuid ELSE @]
VpnAnswered ==
    /\ vpn.deploying /\ ~vpn.box
    /\ \/ vpn' = [vpn EXCEPT !.deploying = FALSE]                               \* rejected
       \/ vpn' = [vpn EXCEPT !.box = TRUE]                                      \* no root rights
       \/ vpn' = [vpn EXCEPT !.deploying = FALSE, !.xray = "checking", !.checks = 1]
       \/ /\ vpn.made < MaxDeploys
          /\ LET v == Deployed(vpn) IN
             vpn' = [v EXCEPT !.form = FillIn(@, v.made), !.told = vpn.form.uuid = 0,
                              !.deploying = FALSE, !.xray = "checking", !.checks = 1]
(* The user may have run the script by hand.                                *)
VpnAnswerBox ==
    /\ vpn.box
    /\ \E v \in {vpn} \cup (IF vpn.made < MaxDeploys THEN {Deployed(vpn)} ELSE {}) :
        vpn' = [v EXCEPT !.box = FALSE, !.deploying = FALSE, !.xray = "checking", !.checks = 1]

VpnEdit ==
    /\ NoQuestion
    /\ \E x \in Names, d \in Domains : vpn' = [vpn EXCEPT !.form.name = x, !.form.server = d]

VpnGenerate == NoQuestion /\ vpn' = [vpn EXCEPT !.form.uuid = OwnUuid, !.told = FALSE]

VpnSave ==
    /\ NoQuestion /\ vpn.form.server # None /\ vpn.form.uuid # 0
    /\ vpn' = [vpn EXCEPT !.store[vpn.at] = vpn.form, !.saved = TRUE]
VpnClear ==
    /\ NoQuestion /\ vpn.saved
    /\ vpn' = [vpn EXCEPT !.store[vpn.at] = None, !.saved = FALSE, !.told = FALSE,
                          !.form = Form([h \in Boxes |-> None], vpn.at)]

(* Of a row only the name and the server matter.                            *)
Rows(store) ==
    [h \in Boxes |-> IF store[h] = None THEN None ELSE [name |-> store[h].name, server |-> store[h].server]]
VpnRefresh == vpn.rows # Rows(vpn.store) /\ vpn' = [vpn EXCEPT !.rows = Rows(vpn.store)]

\* Fault: a row is removed by its place in the list.
RowPlace(store, row, k) == [h \in Boxes |-> IF h = k THEN None ELSE store[h]]
WithoutRow(store, row, k) ==
    [h \in Boxes |-> IF store[h] # None /\ store[h].name = row.name /\ store[h].server = row.server
                      THEN None ELSE store[h]]
VpnRemove(k) ==
    /\ vpn.rows[k] # None
    /\ LET store == WithoutRow(vpn.store, vpn.rows[k], k)
       IN vpn' = [vpn EXCEPT !.store = store, !.rows = Rows(store)]

VpnNext ==
    \/ VpnCheck \/ VpnChecked \/ VpnDeploy \/ VpnAnswered \/ VpnAnswerBox
    \/ VpnEdit \/ VpnGenerate \/ VpnSave \/ VpnClear \/ VpnRefresh
    \/ \E n \in Boxes : VpnOpen(n) \/ VpnRemove(n)

(* A deployment that filled in the form filled in the UUID of the node's    *)
(* configuration.                                                           *)
VpnAsked == vpn.told => vpn.form.uuid = vpn.conf[vpn.at]

(* The entry of a node disappears only by its own panel, or with a row of   *)
(* the summary that shows its name and server; and one that was edited      *)
(* since the summary was read is not removed with the old row.              *)
VpnKept ==
    [][\A n \in Boxes :
         vpn.store[n] # None /\ vpn'.store[n] = None =>
            \/ vpn.at = n /\ vpn.saved /\ ~vpn'.saved
            \/ \E k \in Boxes : /\ vpn.rows[k] # None
                                 /\ vpn.rows[k].name = vpn.store[n].name
                                 /\ vpn.rows[k].server = vpn.store[n].server]_vpn
=============================================================================
