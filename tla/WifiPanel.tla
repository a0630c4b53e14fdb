------------------------------ MODULE WifiPanel ------------------------------
(***************************************************************************)
(* web/src/components/WifiPanel.vue: the survey of a node's WiFi, read     *)
(* each minute; its charts (echarts: a DOM element keeps one instance, and *)
(* init returns it when there is one); switching to a network, and the     *)
(* form of the guard, which every survey overwrites.                       *)
(***************************************************************************)
EXTENDS Console

CONSTANTS Ssids,
          MaxScans,     \* BOUND: surveys, or switches, under way at once
          MaxEdits,     \* BOUND: edits of the form
          MaxCharts     \* BOUND: chart instances made

(* What a survey can find, of all channels of a band.                       *)
Found(band) ==
    CASE band = "2.4" -> {1, 6, 14} [] band = "5" -> {36, 100, 149} [] band = "6" -> {1, 37, 233}

\* Fault: the bars are those of the survey, in every band.
BarsOfSurvey(band, present) == present
(* buildChart: the channels that get a bar.                                 *)
Bars(band, present) ==
    IF present = {} THEN {}
    ELSE IF band = "2.4" THEN 1..13
    ELSE {ch \in present : IF band = "5" THEN ch \in 36..165 /\ (ch - 36) % 4 = 0
                           ELSE ch \in 1..233 /\ ch % 2 = 1} \ {42, 50, 58, 114, 122, 130}

VARIABLE radio

RadioInit ==
    \E band \in {"2.4", "5", "6"} :
    radio = [band |-> band,                          \* one chart stands for the three
             mounted |-> TRUE,
             report |-> None,                        \* the channels found
             current |-> None,
             loads |-> 1, later |-> 0,               \* surveys asked for; and setTimeouts that will
             form |-> 0,                             \* the form: what was surveyed is 0, each edit is a number
             edits |-> 0,
             saving |-> {},                          \* the configuration sent, not answered
             asked |-> 0,                            \* the form when the button was pressed
             box |-> None,                           \* the question: switch to this network?
             switching |-> None,                     \* the one whose button shows it
             switches |-> [i \in 1..MaxScans |-> None],
             el |-> 0, ref |-> 0, alive |-> {}, made |-> 0,   \* chart of the element, of the variable
             bars |-> {},
             emptied |-> FALSE]                      \* a survey without channels met the element

RadioTick == radio.mounted /\ radio.loads < MaxScans /\ radio' = [radio EXCEPT !.loads = @ + 1]
RadioTimeout ==
    /\ radio.later > 0 /\ radio.loads < MaxScans
    /\ radio' = [radio EXCEPT !.later = @ - 1, !.loads = @ + 1]

Dispose(r, chart) ==
    [r EXCEPT !.alive = @ \ {chart}, !.el = IF @ = chart THEN 0 ELSE @,
              !.bars = IF r.el = chart THEN {} ELSE @]

(* drawCharts, in a page that still has the element: a chart that is there  *)
(* is used again, and then disposed of as the former one.                   *)
Draw(r, present) ==
    LET c == IF r.el # 0 THEN [r EXCEPT !.bars = Bars(r.band, present)]
             ELSE [r EXCEPT !.made = @ + 1, !.el = r.made + 1, !.alive = @ \cup {r.made + 1},
                            !.bars = Bars(r.band, present)]
    IN IF ~r.mounted THEN r
       ELSE IF present = {} THEN [c EXCEPT !.emptied = TRUE]
       ELSE [Dispose(c, r.ref) EXCEPT !.ref = c.el]

RadioSurveyed ==
    /\ radio.loads > 0
    /\ \/ radio' = [radio EXCEPT !.loads = @ - 1]    \* failed: only the message changes
       \/ \E present \in SUBSET Found(radio.band), ssid \in Ssids \cup {None} :
            /\ radio.el = 0 => radio.made < MaxCharts
            /\ radio' = Draw([radio EXCEPT !.loads = @ - 1, !.report = present,
                                           !.current = ssid, !.form = 0], present)

Reported == radio.mounted /\ radio.report # None /\ radio.box = None

RadioEdit ==
    /\ Reported /\ radio.edits < MaxEdits
    /\ radio' = [radio EXCEPT !.edits = @ + 1, !.form = radio.edits + 1]

\* Fault: the button does not wait for the save before.
SaveAnyTime == TRUE
NotSaving == radio.saving = {}
RadioSave ==
    /\ Reported /\ NotSaving
    /\ radio' = [radio EXCEPT !.saving = @ \cup {radio.form}, !.asked = radio.form]
(* Any status but FAILED counts as saved.                                   *)
RadioSaved ==
    /\ radio.saving # {}
    /\ \E ok \in BOOLEAN :
        /\ ok => radio.later < MaxScans
        /\ radio' = [radio EXCEPT !.saving = {}, !.later = IF ok THEN @ + 1 ELSE @]

(* The answer to the question does not matter: the switch is sent.          *)
RadioPress(ssid) ==
    /\ Reported /\ ssid # radio.current /\ ssid # radio.switching
    /\ radio' = [radio EXCEPT !.box = ssid]
RadioConfirm ==
    /\ radio.box # None
    /\ \E i \in 1..MaxScans :
        /\ radio.switches[i] = None
        /\ radio' = [radio EXCEPT !.box = None, !.switching = radio.box, !.switches[i] = radio.box]
RadioSwitched(i) ==
    /\ radio.switches[i] # None
    /\ \E ok \in BOOLEAN :
        /\ ok => radio.later < MaxScans
        /\ radio' = [radio EXCEPT !.switches[i] = None, !.switching = None,
                                  !.later = IF ok THEN @ + 1 ELSE @]

\* Fault: the chart of the page is kept.
KeepChart(r) == r
DropChart(r) == Dispose(r, r.ref)
RadioLeave ==
    /\ radio.mounted /\ radio.box = None
    /\ radio' = [DropChart(radio) EXCEPT !.mounted = FALSE]

RadioNext ==
    \/ RadioTick \/ RadioTimeout \/ RadioSurveyed \/ RadioEdit \/ RadioSave \/ RadioSaved
    \/ RadioConfirm \/ RadioLeave
    \/ \E s \in Ssids : RadioPress(s)
    \/ \E i \in 1..MaxScans : RadioSwitched(i)

(* A chart that is drawn has a bar for each channel of the last survey,     *)
(* except channel 14 and those above 144, and in the 2.4 GHz band for the   *)
(* free ones too.                                                           *)
RadioShown ==
    radio.bars # {} =>
        /\ {ch \in radio.report : ch # 14 /\ (radio.band = "5" => ch <= 144)} \subseteq radio.bars
        /\ radio.band = "2.4" => 1..13 \subseteq radio.bars

(* One save at a time, of the form as it was when its button was pressed.   *)
RadioAsked == radio.saving \subseteq {radio.asked}

(* The panel leaves no chart, unless a survey found no channel.             *)
RadioGone == ~radio.mounted => radio.alive = {} \/ radio.emptied
=============================================================================
