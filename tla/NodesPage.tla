----------------------------- MODULE NodesPage ------------------------------
(***************************************************************************)
(* web/src/views/NodesView.vue: the list of nodes, their check boxes, and  *)
(* the dialog that runs a script on the selected ones.  A box holds the    *)
(* node object of the list it was ticked in and compares it by value: with *)
(* other telemetry the same node looks unticked and can be ticked again.   *)
(***************************************************************************)
EXTENDS Console, SequencesExt

CONSTANTS Nodes, Example,
          MaxVersions,  \* BOUND: different telemetry of a node
          MaxSelected,  \* BOUND: boxes ticked
          MaxBatches    \* BOUND: batches run

ASSUME NodesAssumption == Example \notin Nodes

VARIABLE nodes

NodesInit ==
    nodes = [rows |-> [n \in Nodes |-> None],   \* each node's telemetry, or None when it is offline
             demo |-> FALSE,                    \* the list is the example data
             loading |-> TRUE,
             selected |-> <<>>,
             reloaded |-> FALSE,                \* a list arrived while boxes were ticked
             dialog |-> FALSE, scripted |-> FALSE, running |-> FALSE,
             batches |-> 0,                     \* batches sent
             flight |-> {},                     \* those not answered
             targets |-> <<>>,                  \* nodes of the last one
             mixed |-> FALSE,                   \* its boxes were of several lists
             results |-> 0,                     \* the batch whose results are shown
             own |-> 0,                         \* the last batch of the dialog that is open
             early |-> FALSE]                   \* a dialog was closed before its answer

NodesRefresh == ~nodes.loading /\ ~nodes.dialog /\ nodes' = [nodes EXCEPT !.loading = TRUE]

NodesListed ==
    /\ nodes.loading
    /\ \/ \E rows \in [Nodes -> {None} \cup 1..MaxVersions] :
            nodes' = [nodes EXCEPT !.loading = FALSE, !.demo = FALSE, !.rows = rows,
                                   !.reloaded = nodes.selected # <<>> /\ (@ \/ nodes.demo \/ rows # nodes.rows)]
       \/ nodes' = [nodes EXCEPT !.loading = FALSE, !.demo = TRUE, !.reloaded = nodes.selected # <<>>]

(* The example data is one more node, which the server does not know.       *)
Listed == IF nodes.demo THEN {Example} ELSE {n \in Nodes : nodes.rows[n] # None}
Box(n) == [id |-> n, row |-> IF n = Example THEN 0 ELSE nodes.rows[n]]

\* Fault: a box that is ticked is not recognised.
NeverTicked(n) == FALSE
Ticked(n) == \E i \in DOMAIN nodes.selected : nodes.selected[i] = Box(n)
NodesToggle(n) ==
    /\ ~nodes.dialog /\ n \in Listed    \* the boxes of nodes that are offline are disabled
    /\ IF Ticked(n)
       THEN \E i \in DOMAIN nodes.selected :   \* the boxes differ: there is one
              LET rest == RemoveAt(nodes.selected, i)
              IN /\ nodes.selected[i] = Box(n)
                 /\ nodes' = [nodes EXCEPT !.selected = rest, !.reloaded = @ /\ rest # <<>>]
       ELSE /\ Len(nodes.selected) < MaxSelected
            /\ nodes' = [nodes EXCEPT !.selected = Append(@, Box(n))]

CanBatch == nodes.selected # <<>> /\ ~nodes.running
NodesOpenDialog ==
    /\ CanBatch /\ ~nodes.dialog
    /\ nodes' = [nodes EXCEPT !.dialog = TRUE, !.own = 0]

NodesType ==
    /\ nodes.dialog /\ ~nodes.running
    /\ nodes' = [nodes EXCEPT !.scripted = ~@]

NodesRun ==
    /\ nodes.dialog /\ nodes.scripted /\ ~nodes.running /\ nodes.batches < MaxBatches
    /\ nodes' = [nodes EXCEPT !.running = TRUE, !.results = 0,
                              !.batches = @ + 1, !.own = nodes.batches + 1,
                              !.flight = @ \cup {nodes.batches + 1},
                              !.mixed = nodes.reloaded,
                              !.targets = [i \in DOMAIN nodes.selected |-> nodes.selected[i].id]]

NodesAnswered ==
    \E b \in nodes.flight, ok \in BOOLEAN :
        nodes' = [nodes EXCEPT !.flight = @ \ {b}, !.running = FALSE, !.results = IF ok THEN b ELSE @]

(* The button 关闭 also forgets the script and the selection; the cross in  *)
(* the corner only closes.                                                  *)
NodesClose(button) ==
    /\ nodes.dialog
    /\ nodes' = [nodes EXCEPT !.dialog = FALSE, !.results = 0, !.early = @ \/ nodes.running,
                              !.scripted = @ /\ ~button,
                              !.selected = IF button THEN <<>> ELSE @,
                              !.reloaded = @ /\ ~button]

NodesNext ==
    \/ NodesRefresh \/ NodesListed \/ NodesOpenDialog \/ NodesType \/ NodesRun \/ NodesAnswered
    \/ \E n \in Nodes \cup {Example} : NodesToggle(n)
    \/ \E button \in BOOLEAN : NodesClose(button)

(* The results in the dialog are those of a batch run from it, unless one   *)
(* was closed before its answer.                                            *)
NodesShown == nodes.dialog /\ nodes.results # 0 => nodes.results = nodes.own \/ nodes.early

(* One batch at a time; and a batch names no node twice, and the server's   *)
(* nodes or the example, unless the list was replaced while boxes were      *)
(* ticked.                                                                  *)
NodesAsked ==
    /\ Cardinality(nodes.flight) <= 1
    /\ nodes.running => nodes.mixed \/
         \A i, j \in DOMAIN nodes.targets :
             i # j => nodes.targets[i] # nodes.targets[j] /\ Example \notin {nodes.targets[i], nodes.targets[j]}
=============================================================================
