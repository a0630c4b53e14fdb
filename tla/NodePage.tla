------------------------------ MODULE NodePage ------------------------------
(***************************************************************************)
(* web/src/views/NodeDetailView.vue: the page of one node, read again each *)
(* 15 seconds, and the upgrade of its agent: a binary is uploaded, the     *)
(* command sent, and four seconds later the page is read.                  *)
(***************************************************************************)
EXTENDS Console

CONSTANTS Binaries,
          MaxReloads  \* BOUND: loads under way at once

VARIABLE page

PageInit ==
    \E example \in BOOLEAN :  \* whether the example data has a node of this name
    page = [example |-> example,
            mounted |-> TRUE, timer |-> TRUE,
            node |-> None,                        \* "real", "mock", or no such node
            loading |-> TRUE,
            atNode |-> 1, atHistory |-> 0,        \* loads under way, by what they wait for
            dialog |-> FALSE,
            file |-> None,                        \* upgradeFile
            list |-> None,                        \* the file that el-upload shows
            blanked |-> FALSE,                    \* the page went away while the list showed a file
            upgrading |-> FALSE,
            step |-> "idle",                      \* what doUpgrade awaits
            sent |-> None,                        \* the binary it has uploaded
            asked |-> None]                       \* the one on the screen when it was pressed

Busy(p) == p.atNode + p.atHistory >= MaxReloads
Reload(p) == [p EXCEPT !.atNode = @ + 1]

\* Fault: the interval outlives the page.
TimerRuns(p) == p.timer \/ ~p.mounted
TimerTicks(p) == p.timer
PageTick == TimerTicks(page) /\ ~Busy(page) /\ page' = Reload(page)
PageRefresh == page.mounted /\ page.node # None /\ ~page.loading /\ ~page.dialog /\ ~Busy(page) /\ page' = Reload(page)

(* A failure shows the example node of that name, and without one the whole *)
(* page, with the forms of its panels and the dialog, makes way for         *)
(* "no such node".                                                          *)
PageNode ==
    /\ page.atNode > 0
    /\ \E ok \in BOOLEAN :
        page' = [page EXCEPT !.atNode = @ - 1, !.atHistory = @ + 1,
                             !.node = IF ok THEN "real" ELSE IF page.example THEN "mock" ELSE None,
                             !.list = IF ok \/ page.example THEN @ ELSE None,
                             !.blanked = @ \/ (~ok /\ ~page.example /\ page.list # None)]

(* The last answer of a load; it may be the one that doUpgrade waits for.   *)
PageHistory ==
    /\ page.atHistory > 0
    /\ \E own \in BOOLEAN :
        /\ own => page.step = "reload"
        /\ ~own /\ page.step = "reload" => page.atNode + page.atHistory > 1
        /\ page' = [page EXCEPT !.atHistory = @ - 1, !.loading = FALSE,
                                !.upgrading = @ /\ ~own, !.step = IF own THEN "idle" ELSE @]

Visible == page.mounted /\ page.node # None /\ page.step # "box"

(* The button is disabled while an upgrade runs.  The dialog keeps the file *)
(* it showed, and then takes no other (limit 1) until that is removed.      *)
PageOpenUpgrade ==
    /\ Visible /\ ~page.dialog /\ ~page.upgrading
    /\ page' = [page EXCEPT !.dialog = TRUE, !.file = None, !.blanked = FALSE]
PageCancelUpgrade == Visible /\ page.dialog /\ page' = [page EXCEPT !.dialog = FALSE]
PagePick(b) ==
    /\ Visible /\ page.dialog /\ page.list = None
    /\ page' = [page EXCEPT !.file = b, !.list = b]
PageRemove ==
    /\ Visible /\ page.dialog /\ page.list # None
    /\ page' = [page EXCEPT !.file = None, !.list = None]

\* Fault: the dialog's button does not wait for a file of this dialog.
AnyFile(p) == p.file # None \/ p.list # None
HasFile(p) == p.file # None
PageUpgrade ==
    /\ Visible /\ page.dialog /\ HasFile(page) /\ ~page.upgrading
    /\ page' = [page EXCEPT !.upgrading = TRUE, !.step = "upload", !.sent = page.file,
                              !.asked = IF page.blanked THEN page.file ELSE page.list]

Stop(p) == [p EXCEPT !.upgrading = FALSE, !.step = "idle"]
PageUploaded ==
    /\ page.step = "upload"
    /\ page' = Stop(page) \/ page' = [page EXCEPT !.step = "upgrade"]
PageUpgraded ==
    /\ page.step = "upgrade"
    /\ \/ page' = Stop(page)
       \/ \E step \in {"box", "wait"} : page' = [page EXCEPT !.step = step, !.dialog = FALSE]
PageAnswerBox == page.step = "box" /\ page' = [page EXCEPT !.step = "wait"]
PageWaited == page.step = "wait" /\ ~Busy(page) /\ page' = [Reload(page) EXCEPT !.step = "reload"]

PageLeave ==
    /\ page.mounted /\ page.step # "box"
    /\ page' = [page EXCEPT !.mounted = FALSE, !.timer = FALSE, !.dialog = FALSE]

PageNext ==
    \/ PageTick \/ PageRefresh \/ PageNode \/ PageHistory
    \/ PageOpenUpgrade \/ PageCancelUpgrade \/ PageRemove \/ PageUpgrade
    \/ PageUploaded \/ PageUpgraded \/ PageAnswerBox \/ PageWaited \/ PageLeave
    \/ \E b \in Binaries : PagePick(b)

(* The binary an upgrade sends is the one its dialog showed when it was     *)
(* pressed, and a dialog never hides what it would send, unless the page    *)
(* made way for "no such node" and came back.                               *)
PageAsked ==
    /\ page.sent = page.asked
    /\ page.node # None /\ page.file # None /\ ~page.blanked => page.list = page.file

(* A page that was left reads nothing, except once more for an upgrade that *)
(* was under way.                                                           *)
PageGone == [][~page.mounted /\ page'.atNode > page.atNode => page.step = "wait"]_page
=============================================================================
