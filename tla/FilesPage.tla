----------------------------- MODULE FilesPage ------------------------------
(***************************************************************************)
(* web/src/views/FilesView.vue: the file browser of one node.  A load asks *)
(* for the node's name and then for the directory that is current by then; *)
(* a second load may start while one is under way, because the button 上级 *)
(* is not disabled.                                                        *)
(***************************************************************************)
EXTENDS Console

CONSTANTS
    DirNames,  \* names of directories
    MaxDepth,  \* BOUND: depth of the tree
    MaxLoads   \* BOUND: loads under way at once

Paths == UNION {[1..n -> DirNames] : n \in 0..MaxDepth}
Root == <<>>
Parent(p) == SubSeq(p, 1, Len(p) - 1)

ASSUME LoadsAssumption == None \notin Paths /\ MaxDepth \in Nat /\ MaxLoads \in Nat

VARIABLE files  \* the component: its refs, and the loads whose promise is open

FilesTypeOK == files \in
    [path : Paths, entries : Paths \cup {None}, loading : BOOLEAN, offline : BOOLEAN,
     loads : [1..MaxLoads -> [stage : {"idle", "node", "list"}, of : Paths]], crossed : BOOLEAN]

Idle(f) == \A i \in 1..MaxLoads : f.loads[i].stage = "idle"

(* load: the path and the busy flag are set before the first await.  crossed*)
(* records that another directory was being read at that moment.            *)
FilesLoad(f, i, p) ==
    [f EXCEPT !.path = p, !.loading = TRUE, !.offline = FALSE,
              !.loads[i] = [stage |-> "node", of |-> p],
              !.crossed = ~Idle(f) /\ (@ \/ \E j \in 1..MaxLoads :
                               f.loads[j].stage = "list" /\ f.loads[j].of # p)]

FilesInit ==
    files = FilesLoad([path |-> Root, entries |-> None, loading |-> FALSE, offline |-> FALSE,
                       loads |-> [i \in 1..MaxLoads |-> [stage |-> "idle", of |-> Root]],
                       crossed |-> FALSE], 1, Root)

Load(p) == \E i \in 1..MaxLoads : files.loads[i].stage = "idle" /\ files' = FilesLoad(files, i, p)

FilesRefresh == ~files.loading /\ Load(files.path)
FilesGoUp == files.path # Root /\ Load(Parent(files.path))
FilesOpen ==   \* the rows are masked while loading; a row carries its own path
    /\ ~files.loading /\ files.entries # None /\ Len(files.entries) < MaxDepth
    /\ \E d \in DirNames : Load(Append(files.entries, d))

FilesNodeAnswers(i) ==
    /\ files.loads[i].stage = "node"
    /\ files' = [files EXCEPT !.loads[i] = [stage |-> "list", of |-> files.path]]

\* Fault: the entries of a directory that cannot be read are not cleared.
KeepOnFailure(i, ok) == IF ok THEN files.loads[i].of ELSE files.entries
EntriesAfter(i, ok) == IF ok THEN files.loads[i].of ELSE None

FilesListAnswers(i) ==
    /\ files.loads[i].stage = "list"
    /\ \E ok, away \in BOOLEAN :
        /\ away => ~ok
        /\ files' = [files EXCEPT !.loads[i].stage = "idle", !.loading = FALSE,
                                  !.entries = EntriesAfter(i, ok), !.offline = @ \/ away]

FilesNext ==
    \/ FilesRefresh \/ FilesGoUp \/ FilesOpen
    \/ \E i \in 1..MaxLoads : FilesNodeAnswers(i) \/ FilesListAnswers(i)

(* Once every load is answered the entries are those of the path in the     *)
(* title, or none, unless a load began while another directory was read.    *)
FilesShown == Idle(files) => files.crossed \/ files.entries \in {files.path, None}
=============================================================================
