------------------------------ MODULE NodeMesh ------------------------------
(***************************************************************************)
(* web/src/components/NodeMeshPanel.vue: Tailscale and the frpc instances  *)
(* of one node.  Actions exclude each other by `busy`; the editor of an    *)
(* instance's frpc.ini does not take part in that.                         *)
(***************************************************************************)
EXTENDS Console

CONSTANTS Instances, MaxReads  \* BOUND: configurations being read at once

Actions == {"ts_login", "ts_down", "frp_up", "frp_down"}

ASSUME MeshAssumption == None \notin Actions \cup {"save"}

VARIABLE mesh

MeshInit ==
    mesh = [loading |-> TRUE, at |-> "tailscale",   \* load: the answer it waits for
            waits |-> {},                           \* which of "action" and "save" await that load
            known |-> FALSE, loggedIn |-> FALSE, listed |-> FALSE,
            busy |-> None, box |-> None,            \* the modal question, and the action that asks
            sent |-> {},                            \* actions not answered
            reads |-> [i \in 1..MaxReads |-> None],
            dialog |-> FALSE, inst |-> None,        \* the editor and its instance
            content |-> None,                       \* the instance whose file was read into it
            file |-> None,                          \* the instance a file was picked for
            editSaving |-> FALSE,
            saving |-> {},                          \* the save not answered: instance and content
            crossed |-> FALSE]                      \* an upload ended in another instance's editor

MeshModal == mesh.box # None \/ mesh.dialog

(* load: nothing if one is under way.                                       *)
MeshLoad(m) ==
    IF m.loading THEN m
    ELSE [m EXCEPT !.loading = TRUE, !.at = "tailscale", !.known = FALSE, !.listed = FALSE]

MeshRefresh == ~MeshModal /\ mesh' = MeshLoad(mesh) /\ mesh' # mesh

MeshTailscale ==
    /\ mesh.loading /\ mesh.at = "tailscale"
    /\ \E in \in BOOLEAN : mesh' = [mesh EXCEPT !.at = "frp", !.known = TRUE, !.loggedIn = in]
Done(m, who) ==   \* the finally of an action, of a save
    [m EXCEPT !.busy = IF "action" \in who THEN None ELSE @,
              !.editSaving = @ /\ "save" \notin who]
MeshFrp ==
    /\ mesh.loading /\ mesh.at = "frp"
    /\ mesh' = Done([mesh EXCEPT !.loading = FALSE, !.listed = TRUE, !.waits = {}], mesh.waits)

(* `await load()` of an action or a save: it is over at once if another     *)
(* load is under way.                                                       *)
Finish(m, who) ==
    IF m.loading THEN Done(m, {who}) ELSE [MeshLoad(m) EXCEPT !.waits = {who}]

\* Fault: busy is not looked at.
FreeAlways == TRUE
Free == mesh.busy = None
MeshAct(a) ==
    /\ Free /\ ~MeshModal /\ mesh.known
    /\ a = "ts_login" => ~mesh.loggedIn
    /\ a = "ts_down" => mesh.loggedIn
    /\ a \in {"frp_up", "frp_down"} => mesh.listed
    /\ mesh' = [mesh EXCEPT !.busy = a, !.sent = @ \cup {a}]

MeshActed(a) ==
    /\ a \in mesh.sent
    /\ LET m == [mesh EXCEPT !.sent = @ \ {a}] IN
       \/ mesh' = [m EXCEPT !.busy = None]     \* rejected, or no login link
       \/ mesh' = Finish(m, "action")
       \/ mesh.box = None /\ mesh' = [m EXCEPT !.box = a]
MeshAnswerBox ==
    /\ mesh.box # None
    /\ mesh' = Finish([mesh EXCEPT !.box = None], IF mesh.box = "save" THEN "save" ELSE "action")

MeshEdit(i) ==
    /\ mesh.listed /\ ~MeshModal
    /\ \E k \in 1..MaxReads : mesh.reads[k] = None /\ mesh' = [mesh EXCEPT !.reads[k] = i]

\* Fault: the instance is set when the button is pressed, not with the answer.
MeshReadInto(m, i) == [m EXCEPT !.content = i, !.dialog = TRUE, !.inst = IF @ = None THEN i ELSE @]
ReadInto(m, i) == [m EXCEPT !.inst = i, !.content = i, !.dialog = TRUE]
MeshRead(k) ==
    /\ mesh.reads[k] # None
    /\ LET m == [mesh EXCEPT !.reads[k] = None] IN
       mesh' = m \/ mesh' = ReadInto(m, mesh.reads[k])

Editing == mesh.dialog /\ mesh.box = None

MeshPick == Editing /\ mesh.file = None /\ mesh' = [mesh EXCEPT !.file = mesh.inst]
MeshFileRead ==
    /\ mesh.file # None
    /\ mesh' = [mesh EXCEPT !.content = mesh.file, !.file = None, !.crossed = @ \/ mesh.file # mesh.inst]

MeshSave ==
    /\ Editing /\ ~mesh.editSaving
    /\ mesh' = [mesh EXCEPT !.editSaving = TRUE,
                            !.saving = {[inst |-> mesh.inst, content |-> mesh.content]}]
(* Only success closes the editor, whichever it is by then.                 *)
MeshSaved ==
    /\ mesh.saving # {}
    /\ LET m == [mesh EXCEPT !.saving = {}] IN
       \/ mesh' = Done(m, {"save"})
       \/ mesh' = Finish(m, "save")
       \/ mesh.box = None /\ mesh' = [m EXCEPT !.box = "save"]
       \/ mesh' = Finish([m EXCEPT !.dialog = FALSE], "save")
MeshCancel == Editing /\ mesh' = [mesh EXCEPT !.dialog = FALSE]

MeshNext ==
    \/ MeshRefresh \/ MeshTailscale \/ MeshFrp \/ MeshAnswerBox
    \/ MeshPick \/ MeshFileRead \/ MeshSave \/ MeshSaved \/ MeshCancel
    \/ \E a \in Actions : MeshAct(a) \/ MeshActed(a)
    \/ \E i \in Instances : MeshEdit(i)
    \/ \E k \in 1..MaxReads : MeshRead(k)

(* One action of the panel at a time; and what is saved for an instance is  *)
(* its own file, edited, or one picked for it - unless a picked file was    *)
(* read into the editor of another instance.                                *)
MeshAsked ==
    /\ Cardinality(mesh.sent) <= 1
    /\ \A s \in mesh.saving : s.inst = s.content \/ mesh.crossed
=============================================================================
