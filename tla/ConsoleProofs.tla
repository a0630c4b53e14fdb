--------------------------- MODULE ConsoleProofs ----------------------------
(***************************************************************************)
(* Proofs about the pages of the web console, for any sets of nodes,       *)
(* containers, rules, ..., and any bounds: each page by an invariant of    *)
(* its own, and the console by all of them.                                *)
(***************************************************************************)
EXTENDS MCConsole, FiniteSetTheorems, TLAPS

-----------------------------------------------------------------------------
(* The shell (TerminalPage).                                                *)

\* A set within a set of one has at most one element.
LEMMA AtMostOne ==
    ASSUME NEW S, NEW x, S \subseteq {x}
    PROVE  IsFiniteSet(S) /\ Cardinality(S) <= 1
<1>1. CASE S = {}
  BY <1>1, FS_EmptySet
<1>2. CASE S = {x}
  <2>1. IsFiniteSet({x}) /\ Cardinality({x}) = 1
    BY FS_Singleton
  <2> QED BY <1>2, <2>1
<1> QED BY <1>1, <1>2

ShellInv ==
    /\ shell \in [closed : BOOLEAN, token : BOOLEAN, ws : Nat, alive : SUBSET Nat, closing : SUBSET Nat,
                  made : Nat, timer : BOOLEAN, gaveUp : BOOLEAN]
    /\ IF shell.closed
       THEN shell.alive = {} /\ ~shell.timer
       ELSE /\ shell.alive \cup shell.closing \subseteq {shell.ws}
            /\ shell.alive \cap shell.closing = {}
            /\ shell.timer => shell.alive \cup shell.closing = {}

\* A page starts with one socket, being opened.
LEMMA ShellStarts == ShellInit => ShellInv
<1> SUFFICES ASSUME ShellInit PROVE ShellInv
  OBVIOUS
<1> DEFINE s == [closed |-> FALSE, token |-> TRUE, ws |-> 0, alive |-> {}, closing |-> {},
                 made |-> 0, timer |-> FALSE, gaveUp |-> FALSE]
<1>1. shell = [s EXCEPT !.made = @ + 1, !.ws = s.made + 1, !.alive = @ \cup {s.made + 1}]
  BY DEF ShellInit, ShellConnect
<1>2. 0 + 1 = 1 /\ 1 \in Nat /\ {} \cup {1} = {1} /\ {1} \in SUBSET Nat
  OBVIOUS
<1> QED BY <1>1, <1>2 DEF ShellInv

\* A socket is made only when the former one has closed.
LEMMA ShellKeeps == ShellInv /\ ShellNext => ShellInv'
<1> SUFFICES ASSUME ShellInv, ShellNext PROVE ShellInv'
  OBVIOUS
<1> USE DEF ShellInv
<1>1. ASSUME NEW w \in 1..MaxShells, ShellCloses(w) PROVE ShellInv'
  BY <1>1 DEF ShellCloses, Retries
<1>2. ASSUME NEW w \in 1..MaxShells, ShellError(w) PROVE ShellInv'
  BY <1>2 DEF ShellError
<1>3. CASE ShellTimer
  <2>1. shell.timer /\ ~shell.closed /\ shell.made + 1 \in Nat
    BY <1>3 DEF ShellTimer
  <2>2. CASE ~shell.token
    <3>1. shell' = [shell EXCEPT !.timer = FALSE, !.gaveUp = TRUE]
      BY <2>1, <2>2, <1>3 DEF ShellTimer, ShellConnect
    <3> QED BY <2>1, <3>1
  <2>3. CASE shell.token
    <3>1. shell' = [shell EXCEPT !.timer = FALSE, !.made = @ + 1, !.ws = shell.made + 1,
                                 !.alive = @ \cup {shell.made + 1}]
      BY <2>1, <2>3, <1>3 DEF ShellTimer, ShellConnect
    <3> QED BY <2>1, <3>1
  <2> QED BY <2>2, <2>3
<1>4. CASE ShellToken
  BY <1>4 DEF ShellToken
<1>5. CASE ShellLeave
  BY <1>5 DEF ShellLeave
<1> QED BY <1>1, <1>2, <1>3, <1>4, <1>5 DEF ShellNext

\* What the invariant says of the sockets of the shell, left or not.
LEMMA ShellIsGone == ShellInv => ShellGone
  BY AtMostOne DEF ShellInv, ShellGone

-----------------------------------------------------------------------------
(* The link to the relay (RelayLink).                                       *)

Sockets == [1..MaxSockets -> {"new", "connecting", "open", "closing", "closed"}]

RelayTypes ==
    relay \in [enabled : BOOLEAN, connecting : BOOLEAN, manualClose : BOOLEAN, online : BOOLEAN,
               ws : 0..MaxSockets,
               sock : Sockets,
               made : 0..MaxSockets, retries : Nat, seq : 0..MaxPromises,
               pending : SUBSET (1..MaxPromises), open : SUBSET (1..MaxPromises), early : BOOLEAN]

RelayInv ==
    /\ RelayTypes
    /\ RelayOneSocket
    /\ relay.early \/ relay.ws = 0 \/ ~Dying

\* The link starts without a socket.
LEMMA RelayStarts == RelayInit => RelayInv
<1> SUFFICES ASSUME RelayInit PROVE RelayInv
  OBVIOUS
<1>1. /\ 0 \in 0..MaxSockets /\ 0 \in 0..MaxPromises
      /\ [w \in 1..MaxSockets |-> "new"] \in Sockets
  BY SocketsAssumption DEF Sockets
<1>2. RelayTypes
  BY <1>1 DEF RelayInit, RelayTypes
<1> QED BY <1>2 DEF RelayInit, RelayInv, RelayOneSocket

\* connect makes a socket only beside closing ones.
LEMMA RelayConnects ==
    ASSUME RelayInv, NEW on \in BOOLEAN, NEW n \in Nat,
           relay' = RelayConnect([relay EXCEPT !.enabled = on, !.retries = n])
    PROVE  RelayInv'
<1>0. relay.sock \in Sockets
  BY DEF RelayInv, RelayTypes
<1> DEFINE r == [relay EXCEPT !.enabled = on, !.retries = n]
<1>1. CASE relay' = r
  BY <1>1 DEF RelayInv, RelayTypes, RelayOneSocket, Dying
<1>2. CASE relay' # r
  <2> DEFINE k == relay.made + 1
  <2>1. relay.ws = 0 /\ k \in 1..MaxSockets
        /\ relay' = [relay EXCEPT !.enabled = on, !.retries = n, !.connecting = TRUE,
                                  !.manualClose = FALSE, !.made = k, !.ws = k, !.sock[k] = "connecting",
                                  !.early = relay.early \/ Dying]
    BY <1>2, SocketsAssumption DEF RelayInv, RelayTypes, RelayConnect, NeedsSocket
  <2>2. k \in 0..MaxSockets /\ [relay.sock EXCEPT ![k] = "connecting"] \in Sockets
        /\ (relay.early \/ Dying) \in BOOLEAN
    BY <2>1, <1>0 DEF Sockets
  <2> HIDE DEF k
  <2>3. RelayTypes'
    BY <2>1, <2>2 DEF RelayInv, RelayTypes
  <2>4. relay'.ws = k /\ (relay'.early <=> relay.early \/ Dying) /\ relay'.online = relay.online
    BY <2>1 DEF RelayInv, RelayTypes
  <2>6. relay'.sock = [relay.sock EXCEPT ![k] = "connecting"]
    BY <2>1 DEF RelayInv, RelayTypes
  <2>7. \A v \in 1..MaxSockets : relay'.sock[v] = IF v = k THEN "connecting" ELSE relay.sock[v]
    BY <2>6, <1>0 DEF Sockets
  <2>5. ~relay.online \/ relay.early
    BY <2>1 DEF RelayInv, RelayOneSocket
  <2>8. CASE relay.early \/ Dying
    BY <2>3, <2>4, <2>8 DEF RelayInv, RelayOneSocket
  <2>9. CASE ~relay.early /\ ~Dying
    BY <2>1, <2>3, <2>4, <2>5, <2>7, <2>9 DEF RelayInv, RelayOneSocket, Dying
  <2> QED BY <2>8, <2>9
<1> QED BY <1>1, <1>2

\* Every step of the link keeps the invariant.
LEMMA RelayKeeps == RelayInv /\ RelayNext => RelayInv'
<1> SUFFICES ASSUME RelayInv, RelayNext PROVE RelayInv'
  OBVIOUS
<1>0. relay.sock \in Sockets
  BY DEF RelayInv, RelayTypes
<1>1. ASSUME NEW on \in BOOLEAN, RelaySetConfig(on) PROVE RelayInv'
  <2>1. CASE on
    <3>1. relay' = RelayConnect([relay EXCEPT !.enabled = TRUE, !.retries = relay.retries])
      BY <1>1, <2>1 DEF RelaySetConfig, RelayInv, RelayTypes
    <3> QED BY <3>1, RelayConnects DEF RelayInv, RelayTypes
  <2>2. CASE ~on
    <3>0. 0 \in 0..MaxSockets
          /\ [w \in 1..MaxSockets |-> IF w = relay.ws THEN "closing" ELSE relay.sock[w]] \in Sockets
      BY <1>0, SocketsAssumption DEF Sockets
    <3>1. RelayTypes'
      BY <1>1, <2>2, <3>0 DEF RelaySetConfig, RelayInv, RelayTypes
    <3>2. /\ relay'.ws = 0 /\ ~relay'.online /\ relay'.early = relay.early
          /\ \A v \in 1..MaxSockets : relay'.sock[v] = IF v = relay.ws THEN "closing" ELSE relay.sock[v]
      BY <1>1, <2>2 DEF RelaySetConfig, RelayInv, RelayTypes
    <3> QED BY <3>1, <3>2 DEF RelayInv, RelayOneSocket
  <2> QED BY <2>1, <2>2
<1>2. ASSUME NEW w \in 1..MaxSockets, RelayOpens(w) PROVE RelayInv'
  <2>0. [relay.sock EXCEPT ![w] = "open"] \in Sockets
    BY <1>0 DEF Sockets
  <2>1. RelayTypes'
    BY <1>2, <2>0 DEF RelayOpens, RelayInv, RelayTypes
  <2>2. /\ relay'.ws = relay.ws /\ relay'.early = relay.early
        /\ relay.sock[w] = "connecting"
        /\ \A v \in 1..MaxSockets : relay'.sock[v] = IF v = w THEN "open" ELSE relay.sock[v]
    BY <1>2, <1>0 DEF RelayOpens, RelayInv, RelayTypes, Sockets
  <2> QED BY <2>1, <2>2 DEF RelayInv, RelayOneSocket, Dying
<1>3. ASSUME NEW w \in 1..MaxSockets, RelayCloses(w) PROVE RelayInv'
  <2>1. /\ (IF relay.manualClose THEN relay.retries ELSE relay.retries + 1) \in Nat
        /\ [relay.sock EXCEPT ![w] = "closed"] \in Sockets /\ 0 \in 0..MaxSockets
        /\ relay.open \ relay.pending \in SUBSET (1..MaxPromises)
    BY <1>0, SocketsAssumption DEF RelayInv, RelayTypes, Sockets
  <2>2. RelayTypes'
    BY <1>3, <2>1 DEF RelayCloses, RejectAll, RelayInv, RelayTypes
  <2>3. /\ relay'.ws = 0 /\ relay'.early = relay.early /\ ~relay'.online
        /\ \A v \in 1..MaxSockets : relay'.sock[v] = IF v = w THEN "closed" ELSE relay.sock[v]
        /\ relay.sock[w] \in {"connecting", "open", "closing"}
    BY <1>3, <1>0 DEF RelayCloses, RejectAll, RelayInv, RelayTypes, Sockets
  <2> QED BY <2>2, <2>3 DEF RelayInv, RelayOneSocket, Dying
<1>4. CASE RelayRetries
  <2>1. relay.retries - 1 \in Nat
    BY <1>4 DEF RelayRetries, RelayInv, RelayTypes
  <2>2. relay' = RelayConnect([relay EXCEPT !.enabled = relay.enabled, !.retries = relay.retries - 1])
    BY <1>4 DEF RelayRetries, RelayInv, RelayTypes
  <2> QED BY <2>1, <2>2, RelayConnects DEF RelayInv, RelayTypes
<1>5. CASE RelayExec
  <2>1. relay.seq + 1 \in 1..MaxPromises /\ relay.seq + 1 \in 0..MaxPromises
    BY <1>5, SocketsAssumption DEF RelayExec, RelayInv, RelayTypes
  <2>2. RelayTypes'
    BY <1>5, <2>1 DEF RelayExec, RelayInv, RelayTypes
  <2>3. /\ relay'.ws = relay.ws /\ relay'.sock = relay.sock
        /\ relay'.early = relay.early /\ relay'.online = relay.online
    BY <1>5 DEF RelayExec, RelayInv, RelayTypes
  <2> QED BY <2>2, <2>3 DEF RelayInv, RelayOneSocket, Dying
<1>6. ASSUME NEW s \in 1..MaxPromises, RelayResult(s) \/ RelayTimesOut(s) PROVE RelayInv'
  <2>1. relay' = [relay EXCEPT !.pending = @ \ {s}, !.open = @ \ {s}]
    BY <1>6 DEF RelayResult, RelayTimesOut
  <2>2. RelayTypes'
    BY <2>1 DEF RelayInv, RelayTypes
  <2>3. /\ relay'.ws = relay.ws /\ relay'.sock = relay.sock
        /\ relay'.early = relay.early /\ relay'.online = relay.online
    BY <2>1 DEF RelayInv, RelayTypes
  <2> QED BY <2>2, <2>3 DEF RelayInv, RelayOneSocket, Dying
<1> QED BY <1>1, <1>2, <1>3, <1>4, <1>5, <1>6 DEF RelayNext

-----------------------------------------------------------------------------
(* The file browser (FilesPage).                                            *)

Loads == [1..MaxLoads -> [stage : {"idle", "node", "list"}, of : Paths]]

FilesInv ==
    /\ FilesTypeOK
    /\ FilesShown
    /\ files.crossed \/ \A i \in 1..MaxLoads :
           files.loads[i].stage = "list" => files.loads[i].of = files.path

\* The root and the parents of directories are directories.
LEMMA PathTypes == Root \in Paths /\ \A p \in Paths : p # Root => Parent(p) \in Paths
<1>1. Root \in Paths
  <2>1. Root \in [1..0 -> DirNames] /\ 0 \in 0..MaxDepth
    BY LoadsAssumption DEF Root
  <2> QED BY <2>1 DEF Paths
<1>2. ASSUME NEW p \in Paths, p # Root PROVE Parent(p) \in Paths
  <2>1. PICK n \in 0..MaxDepth : p \in [1..n -> DirNames]
    BY <1>2 DEF Paths
  <2>2. n \in Nat /\ p \in Seq(DirNames) /\ Len(p) = n
    BY <2>1, LoadsAssumption
  <2>3. n # 0
    BY <1>2, <2>1, <2>2 DEF Root
  <2>4. n - 1 \in 0..MaxDepth
    BY <2>1, <2>2, <2>3, LoadsAssumption
  <2>5. SubSeq(p, 1, n - 1) = [j \in 1..(n - 1) |-> p[j]]
    BY <2>2, <2>3
  <2>6. \A j \in 1..(n - 1) : p[j] \in DirNames
    BY <2>1, <2>2
  <2>7. Parent(p) \in [1..(n - 1) -> DirNames]
    BY <2>2, <2>5, <2>6 DEF Parent
  <2> QED BY <2>4, <2>7 DEF Paths
<1> QED BY <1>1, <1>2

\* A directory of a directory is one, as deep as the model goes.
LEMMA DeeperPaths ==
    ASSUME NEW p \in Paths, Len(p) < MaxDepth, NEW d \in DirNames
    PROVE  Append(p, d) \in Paths
<1>1. PICK n \in 0..MaxDepth : p \in [1..n -> DirNames]
  BY DEF Paths
<1>2. n \in Nat /\ p \in Seq(DirNames) /\ Len(p) = n
  BY <1>1, LoadsAssumption
<1>3. n + 1 \in 0..MaxDepth
  BY <1>1, <1>2, LoadsAssumption
<1>4. Append(p, d) \in Seq(DirNames) /\ Len(Append(p, d)) = n + 1
  BY <1>2
<1>5. \A q \in Seq(DirNames) : q \in [1..Len(q) -> DirNames]
  OBVIOUS
<1>6. Append(p, d) \in [1..(n + 1) -> DirNames]
  BY <1>4, <1>5
<1> QED BY <1>3, <1>6 DEF Paths

\* A load that is started is of the directory that is shown.
LEMMA FilesLoads ==
    ASSUME FilesTypeOK, files.crossed \/ \A j \in 1..MaxLoads :
               files.loads[j].stage = "list" => files.loads[j].of = files.path,
           NEW p \in Paths, NEW i \in 1..MaxLoads, NEW g, g = FilesLoad(files, i, p),
           files.loads[i].stage = "idle"
    PROVE  /\ g \in [path : Paths, entries : Paths \cup {None}, loading : BOOLEAN, offline : BOOLEAN,
                     loads : Loads, crossed : BOOLEAN]
           /\ ~Idle(g)
           /\ g.crossed \/ \A j \in 1..MaxLoads : g.loads[j].stage = "list" => g.loads[j].of = g.path
<1> DEFINE cross == ~Idle(files) /\ (files.crossed \/ \E j \in 1..MaxLoads :
                               files.loads[j].stage = "list" /\ files.loads[j].of # p)
<1>1. cross \in BOOLEAN
  OBVIOUS
<1>2. g = [files EXCEPT !.path = p, !.loading = TRUE, !.offline = FALSE,
                        !.loads[i] = [stage |-> "node", of |-> p], !.crossed = cross]
  BY DEF FilesLoad
<1>3. (cross <=> FALSE) => \A j \in 1..MaxLoads : files.loads[j].stage = "list" => files.loads[j].of = p
  BY DEF Idle
<1> HIDE DEF cross
<1> DEFINE l == [files.loads EXCEPT ![i] = [stage |-> "node", of |-> p]]
<1>8. files \in [path : Paths, entries : Paths \cup {None}, loading : BOOLEAN, offline : BOOLEAN,
                 loads : Loads, crossed : BOOLEAN]
  BY DEF FilesTypeOK, Loads
<1>9. l \in Loads
  BY <1>8 DEF Loads
<1>10. g = [files EXCEPT !.path = p, !.loading = TRUE, !.offline = FALSE, !.loads = l, !.crossed = cross]
  BY <1>2
<1>4. g \in [path : Paths, entries : Paths \cup {None}, loading : BOOLEAN, offline : BOOLEAN,
             loads : Loads, crossed : BOOLEAN]
  BY <1>1, <1>8, <1>9, <1>10
<1>5. g.path = p /\ g.crossed = cross
  BY <1>2 DEF FilesTypeOK
<1>6. \A j \in 1..MaxLoads : g.loads[j] = IF j = i THEN [stage |-> "node", of |-> p] ELSE files.loads[j]
  BY <1>8, <1>10 DEF Loads
<1>7. ~Idle(g)
  BY <1>6 DEF Idle
<1> QED BY <1>1, <1>3, <1>4, <1>5, <1>6, <1>7

\* The browser starts at the root, which it loads.
LEMMA FilesStarts == FilesInit => FilesInv
<1> SUFFICES ASSUME FilesInit PROVE FilesInv
  OBVIOUS
<1> DEFINE f == [path |-> Root, entries |-> None, loading |-> FALSE, offline |-> FALSE,
                 loads |-> [i \in 1..MaxLoads |-> [stage |-> "idle", of |-> Root]], crossed |-> FALSE]
<1>1. files = [f EXCEPT !.path = Root, !.loading = TRUE, !.offline = FALSE,
                        !.loads[1] = [stage |-> "node", of |-> Root], !.crossed = FALSE]
  BY DEF FilesInit, FilesLoad, Idle
<1>2. FilesTypeOK
  BY <1>1, PathTypes DEF FilesTypeOK
<1>3. files.path = Root /\ files.entries = None
  BY <1>1
<1>4. \A j \in 1..MaxLoads : files.loads[j].stage \in {"idle", "node"}
  BY <1>1
<1> QED BY <1>2, <1>3, <1>4 DEF FilesInv, FilesShown

\* Every step of the browser keeps the invariant.
LEMMA FilesKeeps == FilesInv /\ FilesNext => FilesInv'
<1> SUFFICES ASSUME FilesInv, FilesNext PROVE FilesInv'
  OBVIOUS
<1>0. ASSUME NEW p \in Paths, Load(p) PROVE FilesInv'
  <2>1. PICK i \in 1..MaxLoads : files.loads[i].stage = "idle" /\ files' = FilesLoad(files, i, p)
    BY <1>0 DEF Load
  <2> QED BY <2>1, FilesLoads DEF FilesInv, FilesTypeOK, FilesShown, Loads
<1>1. CASE FilesRefresh
  BY <1>0, <1>1 DEF FilesRefresh, FilesInv, FilesTypeOK
<1>2. CASE FilesGoUp
  <2>1. Parent(files.path) \in Paths
    BY <1>2, PathTypes DEF FilesGoUp, FilesInv, FilesTypeOK
  <2> QED BY <1>0, <1>2, <2>1 DEF FilesGoUp
<1>3. CASE FilesOpen
  <2>1. files.entries \in Paths /\ Len(files.entries) < MaxDepth
    BY <1>3 DEF FilesOpen, FilesInv, FilesTypeOK
  <2>2. PICK d \in DirNames : Load(Append(files.entries, d))
    BY <1>3 DEF FilesOpen
  <2>3. Append(files.entries, d) \in Paths
    BY <2>1, DeeperPaths
  <2> QED BY <1>0, <2>2, <2>3
<1>4. ASSUME NEW i \in 1..MaxLoads, FilesNodeAnswers(i) PROVE FilesInv'
  BY <1>4 DEF FilesNodeAnswers, FilesInv, FilesTypeOK, FilesShown, Idle
<1>5. ASSUME NEW i \in 1..MaxLoads, FilesListAnswers(i) PROVE FilesInv'
  <2>1. PICK ok, away \in BOOLEAN :
            files' = [files EXCEPT !.loads[i].stage = "idle", !.loading = FALSE,
                                   !.entries = EntriesAfter(i, ok), !.offline = @ \/ away]
    BY <1>5 DEF FilesListAnswers
  <2>2. EntriesAfter(i, ok) \in {files.loads[i].of, None} /\ EntriesAfter(i, ok) \in Paths \cup {None}
    BY DEF EntriesAfter, FilesInv, FilesTypeOK
  <2>3. FilesTypeOK'
    <3>1. [files.loads EXCEPT ![i].stage = "idle"] \in Loads
      BY DEF FilesInv, FilesTypeOK, Loads
    <3> QED BY <2>1, <2>2, <3>1 DEF FilesInv, FilesTypeOK, Loads
  <2>4. /\ files'.path = files.path /\ files'.crossed = files.crossed
        /\ files'.entries = EntriesAfter(i, ok)
    BY <2>1 DEF FilesInv, FilesTypeOK
  <2>5. \A j \in 1..MaxLoads : /\ files'.loads[j].of = files.loads[j].of
                               /\ files'.loads[j].stage = IF j = i THEN "idle" ELSE files.loads[j].stage
    BY <2>1 DEF FilesInv, FilesTypeOK
  <2>6. files.loads[i].stage = "list"
    BY <1>5 DEF FilesListAnswers
  <2>7. CASE files.crossed
    BY <2>3, <2>4, <2>7 DEF FilesInv, FilesShown
  <2>8. CASE ~files.crossed
    BY <2>2, <2>3, <2>4, <2>5, <2>6, <2>8 DEF FilesInv, FilesShown
  <2> QED BY <2>7, <2>8
<1> QED BY <1>1, <1>2, <1>3, <1>4, <1>5 DEF FilesNext

-----------------------------------------------------------------------------
(* The containers (ContainersPage).                                         *)

CtrRows == [Containers -> {"running", "exited"}] \cup {None}
CtrQuestions == [c : Containers, verb : Verbs]
CtrLogs == [visible : BOOLEAN, name : Containers \cup {None}, content : Containers \cup {None}, loading : BOOLEAN]

CtrTypes ==
    containers \in [rows : CtrRows, loads : Nat, loading : BOOLEAN, offline : BOOLEAN,
                    busy : Containers \cup {None}, box : SUBSET CtrQuestions, acting : SUBSET CtrQuestions,
                    reloading : BOOLEAN, log : CtrLogs,
                    logs : [1..MaxRequests -> Containers \cup {None}], crossed : BOOLEAN]

\* The action is asked about, sent, or over but for the list read after it.
OneAction ==
    /\ \E q : containers.box \subseteq {q} /\ \A q2 \in containers.box : q2.c \in Managed
    /\ \/ containers.acting = {} /\ ~containers.reloading /\ containers.busy = None
       \/ containers.acting = {} /\ containers.reloading /\ containers.busy # None /\ containers.box = {}
       \/ /\ \E q \in CtrQuestions : containers.acting = {q} /\ containers.busy = q.c /\ q.c \in Managed
          /\ ~containers.reloading /\ containers.box = {}

\* Only logs of the container in the title are on their way.
OneLog ==
    containers.crossed \/
    /\ containers.log.content \in {None, containers.log.name}
    /\ \A i \in 1..MaxRequests : containers.logs[i] \in {None, containers.log.name}

CtrInv == CtrTypes /\ OneAction /\ OneLog

\* The page starts with nothing asked.
LEMMA CtrStarts == CtrInit => CtrInv
<1> SUFFICES ASSUME CtrInit PROVE CtrInv
  OBVIOUS
<1>1. CtrTypes
  BY DEF CtrInit, CtrTypes, CtrRows, CtrQuestions, CtrLogs
<1>2. OneAction
  BY DEF CtrInit, OneAction
<1>3. OneLog
  BY DEF CtrInit, OneLog
<1> QED BY <1>1, <1>2, <1>3 DEF CtrInv

\* The properties of the page follow.
LEMMA CtrHolds == CtrInv => CtrShown /\ CtrAsked
<1> SUFFICES ASSUME CtrInv PROVE CtrShown /\ CtrAsked
  OBVIOUS
<1>1. CtrShown
  BY DEF CtrInv, OneLog, CtrShown
<1>2. \E q : containers.acting \subseteq {q}
  BY DEF CtrInv, OneAction
<1>3. Cardinality(containers.acting) <= 1
  BY <1>2, AtMostOne
<1> QED BY <1>1, <1>3 DEF CtrInv, OneAction, CtrAsked

\* Every step of the page keeps the invariant.
LEMMA CtrKeeps == CtrInv /\ CtrNext => CtrInv'
<1> SUFFICES ASSUME CtrInv, CtrNext PROVE CtrInv'
  OBVIOUS
<1>1. CASE CtrRefresh
  <2>1. containers.loads + 1 \in Nat
    BY DEF CtrInv, CtrTypes
  <2>2. CtrTypes'
    BY <1>1, <2>1 DEF CtrRefresh, CtrInv, CtrTypes
  <2>3. /\ containers'.box = containers.box /\ containers'.acting = containers.acting
        /\ containers'.reloading = containers.reloading /\ containers'.busy = containers.busy
        /\ containers'.log = containers.log /\ containers'.logs = containers.logs
        /\ containers'.crossed = containers.crossed
    BY <1>1 DEF CtrRefresh, CtrInv, CtrTypes
  <2> QED BY <2>2, <2>3 DEF CtrInv, OneAction, OneLog
<1>2. ASSUME NEW own \in BOOLEAN, CtrListed(own) PROVE CtrInv'
  <2>1. PICK answer \in {"rows", "unreadable", "offline", "error"}, state \in [Containers -> {"running", "exited"}] :
          containers' = [containers EXCEPT
            !.loads = IF own THEN @ ELSE @ - 1,
            !.reloading = @ /\ ~own,
            !.busy = IF own THEN None ELSE @,
            !.loading = FALSE,
            !.rows = CASE answer = "rows" -> state
                       [] answer = "error" -> @
                       [] OTHER -> None,
            !.offline = @ \/ answer = "offline"]
    BY <1>2 DEF CtrListed
  <2>2. /\ (IF own THEN containers.loads ELSE containers.loads - 1) \in Nat
        /\ (CASE answer = "rows" -> state [] answer = "error" -> containers.rows [] OTHER -> None) \in CtrRows
        /\ (IF own THEN None ELSE containers.busy) \in Containers \cup {None}
    BY <1>2 DEF CtrListed, CtrInv, CtrTypes, CtrRows
  <2>3. CtrTypes'
    BY <2>1, <2>2 DEF CtrInv, CtrTypes
  <2>4. /\ containers'.box = containers.box /\ containers'.acting = containers.acting
        /\ containers'.reloading = (containers.reloading /\ ~own)
        /\ containers'.busy = IF own THEN None ELSE containers.busy
        /\ containers'.log = containers.log /\ containers'.logs = containers.logs
        /\ containers'.crossed = containers.crossed
    BY <2>1 DEF CtrInv, CtrTypes
  <2>5. OneLog'
    BY <2>4 DEF CtrInv, OneLog
  <2>6. CASE own
    <3>1. containers.reloading /\ containers.acting = {} /\ containers.box = {}
      BY <1>2, <2>6 DEF CtrListed, CtrInv, OneAction
    <3> QED BY <2>3, <2>4, <2>5, <2>6, <3>1 DEF CtrInv, OneAction
  <2>7. CASE ~own
    BY <2>3, <2>4, <2>5, <2>7 DEF CtrInv, OneAction
  <2> QED BY <2>6, <2>7
<1>3. ASSUME NEW c \in Containers, NEW verb \in Verbs, CtrPress(c, verb) PROVE CtrInv'
  <2> DEFINE q == [c |-> c, verb |-> verb]
  <2>1. containers' = [containers EXCEPT !.box = {q}] /\ containers.busy = None /\ c \in Managed
    BY <1>3 DEF CtrPress, NotBusy
  <2>2. q \in CtrQuestions /\ q.c \in Managed
    BY <2>1 DEF CtrQuestions
  <2>3. containers.acting = {} /\ ~containers.reloading
    BY <2>1, RequestsAssumption DEF CtrInv, OneAction, CtrQuestions
  <2> HIDE DEF q
  <2>4. CtrTypes'
    BY <2>1, <2>2 DEF CtrInv, CtrTypes
  <2>5. /\ containers'.box = {q} /\ containers'.acting = containers.acting
        /\ containers'.reloading = containers.reloading /\ containers'.busy = containers.busy
        /\ containers'.log = containers.log /\ containers'.logs = containers.logs
        /\ containers'.crossed = containers.crossed
    BY <2>1 DEF CtrInv, CtrTypes
  <2>6. OneAction'
    BY <2>1, <2>2, <2>3, <2>5 DEF OneAction
  <2> QED BY <2>4, <2>5, <2>6 DEF CtrInv, OneLog
<1>4. CASE CtrConfirm
  <2>1. PICK yes \in BOOLEAN :
          containers' = IF yes
            THEN [containers EXCEPT !.box = {}, !.acting = @ \cup containers.box,
                                    !.busy = (CHOOSE q2 \in containers.box : TRUE).c]
            ELSE [containers EXCEPT !.box = {}]
    BY <1>4 DEF CtrConfirm
  <2>2. PICK q \in CtrQuestions : containers.box = {q} /\ q.c \in Managed
    BY <1>4 DEF CtrConfirm, CtrInv, CtrTypes, OneAction
  <2>3. containers.acting = {} /\ ~containers.reloading
    BY <2>2 DEF CtrInv, OneAction
  <2>4. (CHOOSE q2 \in containers.box : TRUE) = q /\ q.c \in Containers
    BY <2>2 DEF CtrQuestions
  <2>5. \/ containers' = [containers EXCEPT !.box = {}, !.acting = {q}, !.busy = q.c]
        \/ containers' = [containers EXCEPT !.box = {}]
    BY <2>1, <2>2, <2>3, <2>4
  <2>6. CtrTypes'
    <3>1. {q} \in SUBSET CtrQuestions
      BY <2>2
    <3> QED BY <2>4, <2>5, <3>1 DEF CtrInv, CtrTypes
  <2>7. /\ containers'.box = {} /\ containers'.reloading = containers.reloading
        /\ containers'.log = containers.log /\ containers'.logs = containers.logs
        /\ containers'.crossed = containers.crossed
    BY <2>5 DEF CtrInv, CtrTypes
  <2>8. \/ containers'.acting = {q} /\ containers'.busy = q.c
        \/ containers'.acting = containers.acting /\ containers'.busy = containers.busy
    BY <2>5 DEF CtrInv, CtrTypes
  <2>9. OneAction'
    BY <2>2, <2>3, <2>7, <2>8 DEF CtrInv, OneAction
  <2> QED BY <2>6, <2>7, <2>9 DEF CtrInv, OneLog
<1>5. CASE CtrActed
  <2>1. PICK act \in containers.acting, reply \in {"ok", "refused", "error"} :
          containers' = [containers EXCEPT
            !.acting = @ \ {act},
            !.loading = IF reply = "error" THEN @ ELSE TRUE,
            !.offline = IF reply = "error" THEN @ ELSE FALSE,
            !.reloading = reply # "error",
            !.busy = IF reply = "error" THEN None ELSE @]
    BY <1>5 DEF CtrActed
  <2>2. containers.acting = {act} /\ containers.busy = act.c /\ act.c \in Containers /\ containers.box = {}
    BY <2>1 DEF CtrInv, OneAction, CtrQuestions
  <2>3. /\ (IF reply = "error" THEN containers.loading ELSE TRUE) \in BOOLEAN
        /\ (IF reply = "error" THEN containers.offline ELSE FALSE) \in BOOLEAN
        /\ (IF reply = "error" THEN None ELSE containers.busy) \in Containers \cup {None}
        /\ containers.acting \ {act} \in SUBSET CtrQuestions
    BY DEF CtrInv, CtrTypes
  <2>4. CtrTypes'
    BY <2>1, <2>3 DEF CtrInv, CtrTypes
  <2>5. /\ containers'.box = containers.box /\ containers'.acting = containers.acting \ {act}
        /\ containers'.reloading = (reply # "error")
        /\ containers'.busy = IF reply = "error" THEN None ELSE containers.busy
        /\ containers'.log = containers.log /\ containers'.logs = containers.logs
        /\ containers'.crossed = containers.crossed
    BY <2>1 DEF CtrInv, CtrTypes
  <2>6. OneAction'
    BY <2>2, <2>5, RequestsAssumption DEF OneAction
  <2> QED BY <2>4, <2>5, <2>6 DEF CtrInv, OneLog
<1>6. ASSUME NEW c \in Containers, CtrOpenLog(c) PROVE CtrInv'
  <2> DEFINE cross == \E j \in 1..MaxRequests : containers.logs[j] \notin {c, None}
             log == [visible |-> TRUE, name |-> c, content |-> None, loading |-> TRUE]
  <2>1. PICK i \in 1..MaxRequests :
          containers' = [containers EXCEPT !.log = log, !.logs[i] = c, !.crossed = cross]
    BY <1>6 DEF CtrOpenLog
  <2>2. log \in CtrLogs /\ cross \in BOOLEAN /\ log.content = None /\ log.name = c
    BY DEF CtrLogs
  <2>3. ~cross => \A j \in 1..MaxRequests : containers.logs[j] \in {c, None}
    OBVIOUS
  <2> HIDE DEF cross, log
  <2>4. CtrTypes'
    BY <2>1, <2>2 DEF CtrInv, CtrTypes
  <2>5. /\ containers'.box = containers.box /\ containers'.acting = containers.acting
        /\ containers'.reloading = containers.reloading /\ containers'.busy = containers.busy
        /\ containers'.log = log /\ containers'.crossed = cross
        /\ \A j \in 1..MaxRequests : containers'.logs[j] = IF j = i THEN c ELSE containers.logs[j]
    BY <2>1 DEF CtrInv, CtrTypes
  <2>6. OneAction'
    BY <2>5 DEF CtrInv, OneAction
  <2>7. OneLog'
    BY <2>2, <2>3, <2>5 DEF OneLog
  <2> QED BY <2>4, <2>6, <2>7 DEF CtrInv
<1>7. CASE CtrCloseLog
  <2>1. CtrTypes'
    <3>1. [containers.log EXCEPT !.visible = FALSE] \in CtrLogs
      BY DEF CtrInv, CtrTypes, CtrLogs
    <3> QED BY <1>7, <3>1 DEF CtrCloseLog, CtrInv, CtrTypes
  <2>2. /\ containers'.box = containers.box /\ containers'.acting = containers.acting
        /\ containers'.reloading = containers.reloading /\ containers'.busy = containers.busy
        /\ containers'.log.content = containers.log.content /\ containers'.log.name = containers.log.name
        /\ containers'.logs = containers.logs /\ containers'.crossed = containers.crossed
    BY <1>7 DEF CtrCloseLog, CtrInv, CtrTypes, CtrLogs
  <2> QED BY <2>1, <2>2 DEF CtrInv, OneAction, OneLog
<1>8. ASSUME NEW i \in 1..MaxRequests, CtrLogged(i) PROVE CtrInv'
  <2>1. containers' = [containers EXCEPT !.logs[i] = None, !.log.loading = FALSE, !.log.content = containers.logs[i]]
    BY <1>8 DEF CtrLogged
  <2>2. CtrTypes'
    <3>1. [containers.log EXCEPT !.loading = FALSE, !.content = containers.logs[i]] \in CtrLogs
      BY DEF CtrInv, CtrTypes, CtrLogs
    <3>2. containers' = [containers EXCEPT !.logs[i] = None, !.log = [@ EXCEPT !.loading = FALSE, !.content = containers.logs[i]]]
      BY <2>1 DEF CtrInv, CtrTypes
    <3> QED BY <3>2, <3>1 DEF CtrInv, CtrTypes
  <2>3. /\ containers'.box = containers.box /\ containers'.acting = containers.acting
        /\ containers'.reloading = containers.reloading /\ containers'.busy = containers.busy
        /\ containers'.log.content = containers.logs[i] /\ containers'.log.name = containers.log.name
        /\ containers'.crossed = containers.crossed
        /\ \A j \in 1..MaxRequests : containers'.logs[j] = IF j = i THEN None ELSE containers.logs[j]
    BY <2>1 DEF CtrInv, CtrTypes, CtrLogs
  <2> QED BY <2>2, <2>3 DEF CtrInv, OneAction, OneLog
<1> QED BY <1>1, <1>2, <1>3, <1>4, <1>5, <1>6, <1>7, <1>8 DEF CtrNext

-----------------------------------------------------------------------------
(* The remote desktop (VncPage).                                            *)

Chains == [1..MaxChains -> [op : {"none", "refresh", "start", "stop"}, at : Steps, auto : BOOLEAN]]

VncTypes ==
    vnc \in [mounted : BOOLEAN, running : BOOLEAN, statusLoading : BOOLEAN, connected : BOOLEAN,
             connecting : BOOLEAN, rfb : 0..MaxRfbs, alive : SUBSET (1..MaxRfbs), made : 0..MaxRfbs,
             chain : Chains, twice : BOOLEAN]

\* A client that is alive is the page's own, and a page that was left has none.
OneClient ==
    vnc.twice \/
    /\ vnc.alive \subseteq {vnc.rfb}
    /\ vnc.connected => vnc.rfb \in vnc.alive
    /\ ~vnc.mounted => vnc.alive = {}

VncInv == VncTypes /\ OneClient

\* The page starts without a client.
LEMMA VncStarts == VncInit => VncInv
<1> SUFFICES ASSUME VncInit PROVE VncInv
  OBVIOUS
<1>1. 0 \in 0..MaxRfbs
  BY ChainsAssumption
<1>2. [i \in 1..MaxChains |->
          IF i = 1 THEN [op |-> "refresh", at |-> "status2", auto |-> FALSE] ELSE NoChain] \in Chains
  BY DEF Chains, NoChain, Steps
<1>3. VncTypes
  BY <1>1, <1>2 DEF VncInit, VncTypes
<1> QED BY <1>3 DEF VncInit, VncInv, OneClient

\* The properties of the page follow.
LEMMA VncHolds == VncInv => VncShown /\ VncGone
  BY DEF VncInv, OneClient, VncShown, VncGone

\* A step that changes neither the clients nor the page.
LEMMA VncElsewhere ==
    ASSUME VncInv, NEW c \in Chains, NEW run \in BOOLEAN, NEW load \in BOOLEAN,
           vnc' = [vnc EXCEPT !.chain = c, !.running = run, !.statusLoading = load]
    PROVE  VncInv'
<1>1. VncTypes'
  BY DEF VncInv, VncTypes
<1>2. /\ vnc'.alive = vnc.alive /\ vnc'.rfb = vnc.rfb /\ vnc'.connected = vnc.connected
      /\ vnc'.mounted = vnc.mounted /\ vnc'.twice = vnc.twice
  BY DEF VncInv, VncTypes
<1> QED BY <1>1, <1>2 DEF VncInv, OneClient

\* connect makes a client when the page has none.
LEMMA VncMakes ==
    ASSUME VncInv, NEW c \in Chains, NEW run \in BOOLEAN, NEW load \in BOOLEAN,
           vnc' = Connect([vnc EXCEPT !.chain = c, !.running = run, !.statusLoading = load])
    PROVE  VncInv'
<1> DEFINE v == [vnc EXCEPT !.chain = c, !.running = run, !.statusLoading = load]
           k == vnc.made + 1
<1>1. CASE ~vnc.mounted \/ vnc.made = MaxRfbs
  <2>1. vnc' = v
    BY <1>1 DEF Connect, Canvas, VncInv, VncTypes
  <2> QED BY <2>1, VncElsewhere
<1>2. CASE vnc.mounted /\ vnc.made # MaxRfbs
  <2>1. k \in 1..MaxRfbs /\ k \in 0..MaxRfbs /\ vnc.alive \cup {k} \in SUBSET (1..MaxRfbs)
        /\ (vnc.twice \/ vnc.rfb \in vnc.alive) \in BOOLEAN
    BY <1>2, ChainsAssumption DEF VncInv, VncTypes
  <2>2. vnc' = [vnc EXCEPT !.chain = c, !.running = run, !.statusLoading = load,
                           !.connecting = TRUE, !.made = k, !.rfb = k, !.alive = @ \cup {k},
                           !.twice = vnc.twice \/ vnc.rfb \in vnc.alive]
    BY <1>2 DEF Connect, Canvas, VncInv, VncTypes
  <2> HIDE DEF k
  <2>3. VncTypes'
    BY <2>1, <2>2 DEF VncInv, VncTypes
  <2>4. /\ vnc'.alive = vnc.alive \cup {k} /\ vnc'.rfb = k /\ vnc'.connected = vnc.connected
        /\ vnc'.mounted = vnc.mounted /\ (vnc'.twice <=> vnc.twice \/ vnc.rfb \in vnc.alive)
    BY <2>2 DEF VncInv, VncTypes
  <2>5. CASE vnc.twice \/ vnc.rfb \in vnc.alive
    BY <2>3, <2>4, <2>5 DEF VncInv, OneClient
  <2>6. CASE ~vnc.twice /\ vnc.rfb \notin vnc.alive
    BY <1>2, <2>3, <2>4, <2>6 DEF VncInv, OneClient
  <2> QED BY <2>5, <2>6
<1> QED BY <1>1, <1>2 DEF VncInv, VncTypes

\* Disconnect, of the page that stays or is left.
LEMMA VncDrops ==
    ASSUME VncInv, NEW c \in Chains, NEW run \in BOOLEAN, NEW load \in BOOLEAN, NEW m \in BOOLEAN,
           vnc' = [vnc EXCEPT !.chain = c, !.running = run, !.statusLoading = load, !.mounted = m,
                              !.alive = @ \ {vnc.rfb}, !.rfb = 0, !.connected = FALSE]
    PROVE  VncInv'
<1>1. VncTypes'
  <2>1. 0 \in 0..MaxRfbs /\ vnc.alive \ {vnc.rfb} \in SUBSET (1..MaxRfbs)
    BY ChainsAssumption DEF VncInv, VncTypes
  <2> QED BY <2>1 DEF VncInv, VncTypes
<1>2. /\ vnc'.alive = vnc.alive \ {vnc.rfb} /\ ~vnc'.connected /\ vnc'.twice = vnc.twice
  BY DEF VncInv, VncTypes
<1> QED BY <1>1, <1>2 DEF VncInv, OneClient

\* Every step of the page keeps the invariant.
LEMMA VncKeeps == VncInv /\ VncNext => VncInv'
<1> SUFFICES ASSUME VncInv, VncNext PROVE VncInv'
  OBVIOUS
<1>0. /\ vnc.chain \in Chains /\ vnc.running \in BOOLEAN /\ vnc.statusLoading \in BOOLEAN
      /\ vnc.mounted \in BOOLEAN
  BY DEF VncInv, VncTypes
<1>1. ASSUME NEW op \in {"start", "stop", "refresh"}, VncPress(op) PROVE VncInv'
  <2> DEFINE p == [op |-> op, auto |-> FALSE,
                   at |-> CASE op = "start" -> "ask" [] op = "stop" -> "call" [] OTHER -> "status2"]
  <2>1. PICK i \in 1..MaxChains :
          vnc' = [vnc EXCEPT !.chain[i] = p, !.statusLoading = @ \/ op = "refresh"]
    BY <1>1 DEF VncPress
  <2>2. [vnc.chain EXCEPT ![i] = p] \in Chains /\ (vnc.statusLoading \/ op = "refresh") \in BOOLEAN
    BY <1>0 DEF Chains, Steps
  <2> HIDE DEF p
  <2>3. vnc' = [vnc EXCEPT !.chain = [vnc.chain EXCEPT ![i] = p], !.running = vnc.running,
                           !.statusLoading = vnc.statusLoading \/ op = "refresh"]
    BY <2>1 DEF VncInv, VncTypes
  <2> QED BY <1>0, <2>2, <2>3, VncElsewhere
<1>2. ASSUME NEW i \in 1..MaxChains,
             VncAsked(i) \/ VncAnswered(i) \/ VncSudo(i) \/ VncAnswered2(i) \/ VncScript(i)
      PROVE  VncInv'
  <2>1. \E c \in Chains, load \in BOOLEAN : vnc' = [vnc EXCEPT !.chain = c, !.statusLoading = load]
    <3>1. /\ [vnc.chain EXCEPT ![i] = NoChain] \in Chains
          /\ \A s \in Steps : [vnc.chain EXCEPT ![i].at = s] \in Chains
          /\ \A s \in Steps : [vnc.chain EXCEPT ![i].at = s, ![i].auto = TRUE] \in Chains
      BY <1>0 DEF Chains, NoChain, Steps
    <3> DEFINE To(s) == [vnc.chain EXCEPT ![i].at = s]
               auto == [vnc.chain EXCEPT ![i].at = "status1", ![i].auto = TRUE]
               none == [vnc.chain EXCEPT ![i] = NoChain]
    <3>2. /\ [vnc EXCEPT !.chain[i] = NoChain] = [vnc EXCEPT !.chain = none, !.statusLoading = vnc.statusLoading]
          /\ \A s : [vnc EXCEPT !.chain[i].at = s]
                      = [vnc EXCEPT !.chain = To(s), !.statusLoading = vnc.statusLoading]
          /\ \A s : [vnc EXCEPT !.chain[i].at = s, !.statusLoading = TRUE]
                      = [vnc EXCEPT !.chain = To(s), !.statusLoading = TRUE]
          /\ [vnc EXCEPT !.chain[i].at = "status1", !.chain[i].auto = TRUE, !.statusLoading = TRUE]
                      = [vnc EXCEPT !.chain = auto, !.statusLoading = TRUE]
      BY DEF VncInv, VncTypes
    <3>3. \/ vnc' = [vnc EXCEPT !.chain[i] = NoChain]
          \/ \E s \in Steps : vnc' = [vnc EXCEPT !.chain[i].at = s]
          \/ \E s \in Steps : vnc' = [vnc EXCEPT !.chain[i].at = s, !.statusLoading = TRUE]
          \/ vnc' = [vnc EXCEPT !.chain[i].at = "status1", !.chain[i].auto = TRUE, !.statusLoading = TRUE]
      <4>1. CASE VncAsked(i) BY <4>1 DEF VncAsked, Steps
      <4>2. CASE VncAnswered(i) BY <4>2 DEF VncAnswered, Steps
      <4>3. CASE VncSudo(i) BY <4>3 DEF VncSudo, Steps
      <4>4. CASE VncAnswered2(i) BY <4>4 DEF VncAnswered2, Steps
      <4>5. CASE VncScript(i) BY <4>5 DEF VncScript, Steps
      <4> QED BY <1>2, <4>1, <4>2, <4>3, <4>4, <4>5
    <3>4. none \in Chains /\ auto \in Chains /\ \A s \in Steps : To(s) \in Chains
      BY <3>1 DEF Steps
    <3>5. CASE vnc' = [vnc EXCEPT !.chain[i] = NoChain]
      BY <1>0, <3>2, <3>4, <3>5
    <3>6. CASE \E s \in Steps : vnc' = [vnc EXCEPT !.chain[i].at = s]
      <4>1. PICK s \in Steps : vnc' = [vnc EXCEPT !.chain[i].at = s]
        BY <3>6
      <4>2. vnc' = [vnc EXCEPT !.chain = To(s), !.statusLoading = vnc.statusLoading]
        BY <3>2, <4>1
      <4> HIDE DEF To
      <4> QED BY <1>0, <3>4, <4>2
    <3>7. CASE \E s \in Steps : vnc' = [vnc EXCEPT !.chain[i].at = s, !.statusLoading = TRUE]
      BY <3>2, <3>4, <3>7
    <3>8. CASE vnc' = [vnc EXCEPT !.chain[i].at = "status1", !.chain[i].auto = TRUE, !.statusLoading = TRUE]
      BY <3>2, <3>4, <3>8
    <3> QED BY <3>3, <3>5, <3>6, <3>7, <3>8
  <2>2. PICK c \in Chains, load \in BOOLEAN :
          vnc' = [vnc EXCEPT !.chain = c, !.running = vnc.running, !.statusLoading = load]
    BY <2>1 DEF VncInv, VncTypes
  <2> QED BY <1>0, <2>2, VncElsewhere
<1>3. ASSUME NEW i \in 1..MaxChains, VncStatus1(i) PROVE VncInv'
  <2> DEFINE c == [vnc.chain EXCEPT ![i].at = "status2"]
  <2>1. c \in Chains
    BY <1>0 DEF Chains, Steps
  <2>2. PICK running \in BOOLEAN :
          LET v == [vnc EXCEPT !.running = running, !.chain[i].at = "status2", !.statusLoading = TRUE]
          IN vnc' = IF vnc.chain[i].auto /\ running THEN Connect(v) ELSE v
    BY <1>3 DEF VncStatus1
  <2>3. [vnc EXCEPT !.running = running, !.chain[i].at = "status2", !.statusLoading = TRUE]
          = [vnc EXCEPT !.chain = c, !.running = running, !.statusLoading = TRUE]
    BY DEF VncInv, VncTypes
  <2> HIDE DEF c
  <2> QED BY <2>1, <2>2, <2>3, VncElsewhere, VncMakes
<1>4. ASSUME NEW i \in 1..MaxChains, VncStatus2(i) PROVE VncInv'
  <2> DEFINE c == [vnc.chain EXCEPT ![i] = NoChain]
  <2>1. c \in Chains
    BY <1>0 DEF Chains, NoChain, Steps
  <2>2. PICK running \in BOOLEAN :
          LET v == [vnc EXCEPT !.running = running, !.chain[i] = NoChain, !.statusLoading = FALSE]
          IN vnc' = CASE vnc.chain[i].op = "start" /\ running -> Connect(v)
                      [] vnc.chain[i].op = "stop" /\ v.connected -> Disconnect(v)
                      [] OTHER -> v
    BY <1>4 DEF VncStatus2
  <2> DEFINE v == [vnc EXCEPT !.chain = c, !.running = running, !.statusLoading = FALSE]
  <2>3. [vnc EXCEPT !.running = running, !.chain[i] = NoChain, !.statusLoading = FALSE] = v
    BY DEF VncInv, VncTypes
  <2>4. vnc' = Connect(v) \/ vnc' = Disconnect(v) \/ vnc' = v
    BY <2>2, <2>3
  <2>5. Disconnect(v) = [vnc EXCEPT !.chain = c, !.running = running, !.statusLoading = FALSE,
                                    !.mounted = vnc.mounted,
                                    !.alive = @ \ {vnc.rfb}, !.rfb = 0, !.connected = FALSE]
    BY DEF Disconnect, VncInv, VncTypes
  <2> HIDE DEF c
  <2> QED BY <1>0, <2>1, <2>4, <2>5, VncElsewhere, VncMakes, VncDrops
<1>5. ASSUME NEW r \in 1..MaxRfbs, VncConnects(r) PROVE VncInv'
  <2>1. VncTypes'
    BY <1>5 DEF VncConnects, VncInv, VncTypes
  <2>2. /\ vnc'.alive = vnc.alive /\ vnc'.rfb = vnc.rfb /\ r \in vnc.alive
        /\ vnc'.mounted = vnc.mounted /\ vnc'.twice = vnc.twice
    BY <1>5 DEF VncConnects, VncInv, VncTypes
  <2> QED BY <2>1, <2>2 DEF VncInv, OneClient
<1>6. ASSUME NEW r \in 1..MaxRfbs, VncDisconnects(r) PROVE VncInv'
  <2>1. vnc.alive \ {r} \in SUBSET (1..MaxRfbs)
    BY DEF VncInv, VncTypes
  <2>2. VncTypes'
    BY <1>6, <2>1 DEF VncDisconnects, VncInv, VncTypes
  <2>3. /\ vnc'.alive = vnc.alive \ {r} /\ vnc'.rfb = vnc.rfb /\ ~vnc'.connected
        /\ vnc'.mounted = vnc.mounted /\ vnc'.twice = vnc.twice
    BY <1>6 DEF VncDisconnects, VncInv, VncTypes
  <2> QED BY <2>2, <2>3 DEF VncInv, OneClient
<1>7. CASE VncLeave
  <2>1. vnc' = [vnc EXCEPT !.chain = vnc.chain, !.running = vnc.running,
                           !.statusLoading = vnc.statusLoading, !.mounted = FALSE,
                           !.alive = @ \ {vnc.rfb}, !.rfb = 0, !.connected = FALSE]
    BY <1>7 DEF VncLeave, Disconnect, VncInv, VncTypes
  <2> QED BY <1>0, <2>1, VncDrops
<1> QED BY <1>1, <1>2, <1>3, <1>4, <1>5, <1>6, <1>7 DEF VncNext

-----------------------------------------------------------------------------
(* The list of nodes (NodesPage).                                           *)

AllNodes == Nodes \cup {Example}
TickBoxes == [id : AllNodes, row : {None, 0} \cup 1..MaxVersions]

NodesTypes ==
    nodes \in [rows : [Nodes -> {None} \cup 1..MaxVersions], demo : BOOLEAN, loading : BOOLEAN,
               selected : Seq(TickBoxes), reloaded : BOOLEAN, dialog : BOOLEAN, scripted : BOOLEAN,
               running : BOOLEAN, batches : Nat, flight : SUBSET Nat, targets : Seq(AllNodes),
               mixed : BOOLEAN, results : Nat, own : Nat, early : BOOLEAN]

\* The sequence without its element i.
LEMMA RemovesOne ==
    ASSUME NEW S, NEW s \in Seq(S), NEW i \in DOMAIN s
    PROVE  /\ RemoveAt(s, i) \in Seq(S)
           /\ Len(RemoveAt(s, i)) = Len(s) - 1
           /\ \A j \in 1..(Len(s) - 1) : RemoveAt(s, i)[j] = s[IF j < i THEN j ELSE j + 1]
<1>1. i \in 1..Len(s) /\ Len(s) \in Nat
  OBVIOUS
<1> DEFINE front == SubSeq(s, 1, i - 1)
           back == SubSeq(s, i + 1, Len(s))
<1>2. front \in Seq(S) /\ Len(front) = i - 1 /\ \A j \in 1..(i - 1) : front[j] = s[j]
  BY <1>1
<1>3. back \in Seq(S) /\ Len(back) = Len(s) - i /\ \A j \in 1..(Len(s) - i) : back[j] = s[i + j]
  BY <1>1
<1> HIDE DEF front, back
<1>4. RemoveAt(s, i) = front \o back
  BY DEF RemoveAt, front, back
<1>5. front \o back \in Seq(S) /\ Len(front \o back) = Len(s) - 1
  BY <1>1, <1>2, <1>3
<1>6. ASSUME NEW j \in 1..(Len(s) - 1)
      PROVE (front \o back)[j] = s[IF j < i THEN j ELSE j + 1]
  <2>1. (front \o back)[j] = IF j <= Len(front) THEN front[j] ELSE back[j - Len(front)]
    BY <1>1, <1>2, <1>3
  <2>2. CASE j < i
    BY <2>1, <2>2, <1>1, <1>2
  <2>3. CASE ~(j < i)
    BY <2>1, <2>3, <1>1, <1>2, <1>3
  <2> QED BY <2>2, <2>3
<1> QED BY <1>4, <1>5, <1>6

OneBatch == nodes.flight = IF nodes.running THEN {nodes.batches} ELSE {}

OwnResults ==
    nodes.early \/
    /\ nodes.running => nodes.dialog /\ nodes.own = nodes.batches
    /\ nodes.dialog /\ nodes.results # 0 => nodes.results = nodes.own
    /\ ~nodes.dialog => nodes.results = 0

TickedOnce == \A i, j \in DOMAIN nodes.selected : i # j => nodes.selected[i] # nodes.selected[j]
OfThisList ==
    nodes.reloaded \/
    \A i \in DOMAIN nodes.selected :
        nodes.selected[i].id \in Listed /\ nodes.selected[i] = Box(nodes.selected[i].id)

NamedOnce ==
    nodes.running => nodes.mixed \/
      \A i, j \in DOMAIN nodes.targets :
          i # j => nodes.targets[i] # nodes.targets[j] /\ Example \notin {nodes.targets[i], nodes.targets[j]}

NodesInv == NodesTypes /\ OneBatch /\ OwnResults /\ TickedOnce /\ OfThisList /\ NamedOnce

\* The list starts with nothing ticked.
LEMMA NodesStarts == NodesInit => NodesInv
<1> SUFFICES ASSUME NodesInit PROVE NodesInv
  OBVIOUS
<1>1. <<>> \in Seq(TickBoxes) /\ <<>> \in Seq(AllNodes) /\ {} \in SUBSET Nat
  OBVIOUS
<1>2. NodesTypes
  BY <1>1 DEF NodesInit, NodesTypes
<1>3. DOMAIN nodes.selected = {} /\ ~nodes.running /\ nodes.flight = {} /\ ~nodes.dialog /\ nodes.results = 0
  BY DEF NodesInit
<1> QED BY <1>2, <1>3 DEF NodesInv, OneBatch, OwnResults, TickedOnce, OfThisList, NamedOnce

\* The properties of the list follow.
LEMMA NodesHolds == NodesInv => NodesShown /\ NodesAsked
<1> SUFFICES ASSUME NodesInv PROVE NodesShown /\ NodesAsked
  OBVIOUS
<1>1. NodesShown
  BY DEF NodesInv, OwnResults, NodesShown
<1>2. Cardinality(nodes.flight) <= 1
  <2>1. CASE nodes.running
    <3>1. nodes.flight = {nodes.batches}
      BY <2>1 DEF NodesInv, OneBatch
    <3>2. Cardinality({nodes.batches}) = 1
      BY FS_Singleton
    <3> QED BY <3>1, <3>2
  <2>2. CASE ~nodes.running
    BY <2>2, FS_EmptySet DEF NodesInv, OneBatch
  <2> QED BY <2>1, <2>2
<1> QED BY <1>1, <1>2 DEF NodesInv, NamedOnce, NodesAsked

\* Every step of the list keeps the invariant.
LEMMA NodesKeeps == NodesInv /\ NodesNext => NodesInv'
<1> SUFFICES ASSUME NodesInv, NodesNext PROVE NodesInv'
  OBVIOUS
<1>0. /\ nodes.selected \in Seq(TickBoxes) /\ nodes.rows \in [Nodes -> {None} \cup 1..MaxVersions]
      /\ nodes.batches \in Nat /\ nodes.flight \in SUBSET Nat
      /\ nodes.running \in BOOLEAN /\ nodes.reloaded \in BOOLEAN /\ nodes.early \in BOOLEAN
      /\ nodes.demo \in BOOLEAN /\ nodes.mixed \in BOOLEAN /\ nodes.scripted \in BOOLEAN
  BY DEF NodesInv, NodesTypes
<1>1. CASE NodesRefresh
  <2>1. NodesTypes'
    BY <1>1 DEF NodesRefresh, NodesInv, NodesTypes
  <2>2. nodes' = [nodes EXCEPT !.loading = TRUE]
    BY <1>1 DEF NodesRefresh
  <2>3. /\ nodes'.flight = nodes.flight /\ nodes'.running = nodes.running /\ nodes'.batches = nodes.batches
        /\ nodes'.early = nodes.early /\ nodes'.dialog = nodes.dialog /\ nodes'.own = nodes.own
        /\ nodes'.results = nodes.results /\ nodes'.selected = nodes.selected
        /\ nodes'.reloaded = nodes.reloaded /\ nodes'.rows = nodes.rows /\ nodes'.demo = nodes.demo
        /\ nodes'.mixed = nodes.mixed /\ nodes'.targets = nodes.targets
    BY <2>2 DEF NodesInv, NodesTypes
  <2> QED BY <2>1, <2>3
          DEF NodesInv, OneBatch, OwnResults, TickedOnce, OfThisList, NamedOnce, Listed, Box
<1>2. CASE NodesListed
  <2>1. PICK rows \in [Nodes -> {None} \cup 1..MaxVersions], demo \in BOOLEAN, re \in BOOLEAN :
          /\ nodes' = [nodes EXCEPT !.loading = FALSE, !.demo = demo, !.rows = rows, !.reloaded = re]
          /\ re \/ nodes.selected = <<>> \/ (~nodes.reloaded /\ demo = nodes.demo /\ rows = nodes.rows)
    <3>1. CASE nodes' = [nodes EXCEPT !.loading = FALSE, !.demo = TRUE, !.reloaded = nodes.selected # <<>>]
      <4>1. nodes' = [nodes EXCEPT !.loading = FALSE, !.demo = TRUE, !.rows = nodes.rows,
                                   !.reloaded = nodes.selected # <<>>]
        BY <3>1 DEF NodesInv, NodesTypes
      <4> QED BY <4>1, <1>0
    <3>2. CASE \E rows \in [Nodes -> {None} \cup 1..MaxVersions] :
                 nodes' = [nodes EXCEPT !.loading = FALSE, !.demo = FALSE, !.rows = rows,
                   !.reloaded = nodes.selected # <<>> /\ (@ \/ nodes.demo \/ rows # nodes.rows)]
      <4>1. PICK rows \in [Nodes -> {None} \cup 1..MaxVersions] :
              nodes' = [nodes EXCEPT !.loading = FALSE, !.demo = FALSE, !.rows = rows,
                   !.reloaded = nodes.selected # <<>> /\ (@ \/ nodes.demo \/ rows # nodes.rows)]
        BY <3>2
      <4> DEFINE re == nodes.selected # <<>> /\ (nodes.reloaded \/ nodes.demo \/ rows # nodes.rows)
      <4>2. nodes' = [nodes EXCEPT !.loading = FALSE, !.demo = FALSE, !.rows = rows, !.reloaded = re]
        BY <4>1 DEF NodesInv, NodesTypes
      <4>3. re \in BOOLEAN
        OBVIOUS
      <4>4. re \/ nodes.selected = <<>> \/ (~nodes.reloaded /\ FALSE = nodes.demo /\ rows = nodes.rows)
        BY <1>0
      <4> HIDE DEF re
      <4> QED BY <4>2, <4>3, <4>4
    <3> QED BY <1>2, <3>1, <3>2 DEF NodesListed
  <2>2. NodesTypes'
    BY <2>1 DEF NodesInv, NodesTypes
  <2>3. /\ nodes'.flight = nodes.flight /\ nodes'.running = nodes.running /\ nodes'.batches = nodes.batches
        /\ nodes'.early = nodes.early /\ nodes'.dialog = nodes.dialog /\ nodes'.own = nodes.own
        /\ nodes'.results = nodes.results /\ nodes'.selected = nodes.selected
        /\ nodes'.reloaded = re /\ nodes'.rows = rows /\ nodes'.demo = demo
        /\ nodes'.mixed = nodes.mixed /\ nodes'.targets = nodes.targets
    BY <2>1 DEF NodesInv, NodesTypes
  <2>4. OfThisList'
    <3>1. CASE re
      BY <2>3, <3>1 DEF OfThisList
    <3>2. CASE nodes.selected = <<>>
      BY <2>3, <3>2 DEF OfThisList
    <3>3. CASE ~nodes.reloaded /\ demo = nodes.demo /\ rows = nodes.rows
      BY <2>3, <3>3 DEF NodesInv, OfThisList, Listed, Box
    <3> QED BY <2>1, <3>1, <3>2, <3>3
  <2> QED BY <2>2, <2>3, <2>4 DEF NodesInv, OneBatch, OwnResults, TickedOnce, NamedOnce
<1>3. CASE NodesOpenDialog
  <2>1. NodesTypes'
    BY <1>3 DEF NodesOpenDialog, NodesInv, NodesTypes
  <2>2. /\ nodes' = [nodes EXCEPT !.dialog = TRUE, !.own = 0] /\ ~nodes.running /\ ~nodes.dialog
    BY <1>3 DEF NodesOpenDialog, CanBatch
  <2>3. /\ nodes'.flight = nodes.flight /\ nodes'.running = nodes.running /\ nodes'.batches = nodes.batches
        /\ nodes'.early = nodes.early /\ nodes'.dialog /\ nodes'.own = 0
        /\ nodes'.results = nodes.results /\ nodes'.selected = nodes.selected
        /\ nodes'.reloaded = nodes.reloaded /\ nodes'.rows = nodes.rows /\ nodes'.demo = nodes.demo
        /\ nodes'.mixed = nodes.mixed /\ nodes'.targets = nodes.targets
    BY <2>2 DEF NodesInv, NodesTypes
  <2> QED BY <2>1, <2>2, <2>3
          DEF NodesInv, OneBatch, OwnResults, TickedOnce, OfThisList, NamedOnce, Listed, Box
<1>4. CASE NodesType
  <2>1. NodesTypes'
    BY <1>4, <1>0 DEF NodesType, NodesInv, NodesTypes
  <2>2. nodes' = [nodes EXCEPT !.scripted = ~@]
    BY <1>4 DEF NodesType
  <2>3. /\ nodes'.flight = nodes.flight /\ nodes'.running = nodes.running /\ nodes'.batches = nodes.batches
        /\ nodes'.early = nodes.early /\ nodes'.dialog = nodes.dialog /\ nodes'.own = nodes.own
        /\ nodes'.results = nodes.results /\ nodes'.selected = nodes.selected
        /\ nodes'.reloaded = nodes.reloaded /\ nodes'.rows = nodes.rows /\ nodes'.demo = nodes.demo
        /\ nodes'.mixed = nodes.mixed /\ nodes'.targets = nodes.targets
    BY <2>2 DEF NodesInv, NodesTypes
  <2> QED BY <2>1, <2>3
          DEF NodesInv, OneBatch, OwnResults, TickedOnce, OfThisList, NamedOnce, Listed, Box
<1>5. CASE NodesRun
  <2> DEFINE k == nodes.batches + 1
             ids == [i \in DOMAIN nodes.selected |-> nodes.selected[i].id]
  <2>0. DOMAIN nodes.selected = 1..Len(nodes.selected) /\ Len(nodes.selected) \in Nat
    BY <1>0
  <2>1. k \in Nat /\ nodes.flight \cup {k} \in SUBSET Nat
    BY <1>0
  <2>2. ids \in Seq(AllNodes)
    <3>1. \A i \in 1..Len(nodes.selected) : nodes.selected[i].id \in AllNodes
      <4>1. \A i \in 1..Len(nodes.selected) : nodes.selected[i] \in TickBoxes
        BY <1>0, <2>0
      <4> QED BY <4>1 DEF TickBoxes
    <3> QED BY <3>1, <2>0
  <2>3. nodes' = [nodes EXCEPT !.running = TRUE, !.results = 0, !.batches = k, !.own = k,
                               !.flight = @ \cup {k}, !.mixed = nodes.reloaded, !.targets = ids]
    BY <1>5 DEF NodesRun, NodesInv, NodesTypes
  <2>4. nodes.dialog /\ ~nodes.running
    BY <1>5 DEF NodesRun
  <2>5. ~nodes.reloaded =>
          \A i, j \in DOMAIN ids : i # j => ids[i] # ids[j] /\ Example \notin {ids[i], ids[j]}
    <3> SUFFICES ASSUME ~nodes.reloaded, NEW i \in DOMAIN nodes.selected, NEW j \in DOMAIN nodes.selected,
                        i # j
                 PROVE  ids[i] # ids[j] /\ Example \notin {ids[i], ids[j]}
      OBVIOUS
    <3>1. /\ nodes.selected[i] = Box(ids[i]) /\ ids[i] \in Listed
          /\ nodes.selected[j] = Box(ids[j]) /\ ids[j] \in Listed
      BY DEF NodesInv, OfThisList
    <3>2. ids[i] # ids[j]
      BY <3>1 DEF NodesInv, TickedOnce
    <3> HIDE DEF ids
    <3>3. CASE nodes.demo
      BY <3>1, <3>2, <3>3 DEF Listed
    <3>4. CASE ~nodes.demo
      BY <3>1, <3>2, <3>4, NodesAssumption DEF Listed
    <3> QED BY <3>3, <3>4
  <2> HIDE DEF k, ids
  <2>6. NodesTypes'
    BY <2>1, <2>2, <2>3, <1>0 DEF NodesInv, NodesTypes
  <2>7. /\ nodes'.flight = nodes.flight \cup {k} /\ nodes'.running /\ nodes'.batches = k
        /\ nodes'.early = nodes.early /\ nodes'.dialog = nodes.dialog /\ nodes'.own = k
        /\ nodes'.results = 0 /\ nodes'.selected = nodes.selected
        /\ nodes'.reloaded = nodes.reloaded /\ nodes'.rows = nodes.rows /\ nodes'.demo = nodes.demo
        /\ nodes'.mixed = nodes.reloaded /\ nodes'.targets = ids
    BY <2>3 DEF NodesInv, NodesTypes
  <2>8. OneBatch'
    BY <2>4, <2>7 DEF NodesInv, OneBatch
  <2>9. OwnResults'
    BY <2>4, <2>7 DEF NodesInv, OwnResults
  <2>10. NamedOnce'
    BY <2>5, <2>7, <1>0 DEF NamedOnce
  <2> QED BY <2>6, <2>7, <2>8, <2>9, <2>10 DEF NodesInv, TickedOnce, OfThisList, Listed, Box
<1>6. CASE NodesAnswered
  <2>1. PICK batch \in nodes.flight, ok \in BOOLEAN :
          nodes' = [nodes EXCEPT !.flight = @ \ {batch}, !.running = FALSE, !.results = IF ok THEN batch ELSE @]
    BY <1>6 DEF NodesAnswered
  <2> DEFINE r == IF ok THEN batch ELSE nodes.results
  <2>2. r \in Nat /\ nodes.flight \ {batch} \in SUBSET Nat
    BY <1>0 DEF NodesInv, NodesTypes
  <2>3. nodes' = [nodes EXCEPT !.flight = @ \ {batch}, !.running = FALSE, !.results = r]
    BY <2>1 DEF NodesInv, NodesTypes
  <2>4. nodes.running /\ batch = nodes.batches /\ nodes.flight = {batch}
    BY DEF NodesInv, OneBatch
  <2>5. r = batch \/ r = nodes.results
    OBVIOUS
  <2> HIDE DEF r
  <2>6. NodesTypes'
    BY <2>2, <2>3 DEF NodesInv, NodesTypes
  <2>7. /\ nodes'.flight = nodes.flight \ {batch} /\ ~nodes'.running /\ nodes'.batches = nodes.batches
        /\ nodes'.early = nodes.early /\ nodes'.dialog = nodes.dialog /\ nodes'.own = nodes.own
        /\ nodes'.results = r /\ nodes'.selected = nodes.selected
        /\ nodes'.reloaded = nodes.reloaded /\ nodes'.rows = nodes.rows /\ nodes'.demo = nodes.demo
        /\ nodes'.mixed = nodes.mixed /\ nodes'.targets = nodes.targets
    BY <2>3 DEF NodesInv, NodesTypes
  <2>8. OneBatch'
    BY <2>4, <2>7 DEF OneBatch
  <2>9. OwnResults'
    BY <2>4, <2>5, <2>7 DEF NodesInv, OwnResults
  <2> QED BY <2>6, <2>7, <2>8, <2>9 DEF NodesInv, TickedOnce, OfThisList, NamedOnce, Listed, Box
<1>7. ASSUME NEW n \in AllNodes, NodesToggle(n) PROVE NodesInv'
  <2>0. Box(n) \in TickBoxes /\ Box(n).id = n /\ n \in Listed
    BY <1>7, <1>0 DEF NodesToggle, Box, TickBoxes, AllNodes
  <2>1. ASSUME NEW q \in Seq(TickBoxes), NEW re \in BOOLEAN,
               nodes' = [nodes EXCEPT !.selected = q, !.reloaded = re],
               \A i, j \in DOMAIN q : i # j => q[i] # q[j],
               re \/ \A i \in DOMAIN q : q[i].id \in Listed /\ q[i] = Box(q[i].id)
        PROVE NodesInv'
    <3>1. NodesTypes'
      BY <2>1 DEF NodesInv, NodesTypes
    <3>2. /\ nodes'.flight = nodes.flight /\ nodes'.running = nodes.running /\ nodes'.batches = nodes.batches
          /\ nodes'.early = nodes.early /\ nodes'.dialog = nodes.dialog /\ nodes'.own = nodes.own
          /\ nodes'.results = nodes.results /\ nodes'.selected = q
          /\ nodes'.reloaded = re /\ nodes'.rows = nodes.rows /\ nodes'.demo = nodes.demo
          /\ nodes'.mixed = nodes.mixed /\ nodes'.targets = nodes.targets
      BY <2>1 DEF NodesInv, NodesTypes
    <3>3. OfThisList'
      <4>1. Listed' = Listed /\ \A x : Box(x)' = Box(x)
        BY <3>2 DEF Listed, Box
      <4>2. CASE re
        BY <3>2, <4>2 DEF OfThisList
      <4>3. CASE ~re
        BY <2>1, <3>2, <4>1, <4>3 DEF OfThisList
      <4> QED BY <4>2, <4>3
    <3> QED BY <2>1, <3>1, <3>2, <3>3 DEF NodesInv, OneBatch, OwnResults, TickedOnce, NamedOnce
  <2>2. CASE Ticked(n)
    <3>1. PICK i \in DOMAIN nodes.selected :
            LET rest == RemoveAt(nodes.selected, i)
            IN /\ nodes.selected[i] = Box(n)
               /\ nodes' = [nodes EXCEPT !.selected = rest, !.reloaded = @ /\ rest # <<>>]
      BY <1>7, <2>2 DEF NodesToggle
    <3> DEFINE rest == RemoveAt(nodes.selected, i)
               Place(j) == IF j < i THEN j ELSE j + 1
    <3>2. /\ rest \in Seq(TickBoxes) /\ Len(rest) = Len(nodes.selected) - 1
          /\ \A j \in 1..(Len(nodes.selected) - 1) : rest[j] = nodes.selected[Place(j)]
      BY <1>0, RemovesOne
    <3>3. nodes' = [nodes EXCEPT !.selected = rest, !.reloaded = nodes.reloaded /\ rest # <<>>]
      BY <3>1 DEF NodesInv, NodesTypes
    <3> HIDE DEF rest
    <3>4. DOMAIN rest = 1..(Len(nodes.selected) - 1) /\ DOMAIN nodes.selected = 1..Len(nodes.selected)
          /\ Len(nodes.selected) \in Nat
      BY <1>0, <3>2
    <3>5. \A j, k \in DOMAIN rest :
            /\ Place(j) \in DOMAIN nodes.selected
            /\ j # k => Place(j) # Place(k)
      BY <3>4
    <3> HIDE DEF Place
    <3>6. \A j, k \in DOMAIN rest : j # k => rest[j] # rest[k]
      BY <3>2, <3>4, <3>5 DEF NodesInv, TickedOnce
    <3>7. nodes.reloaded \/ \A j \in DOMAIN rest : rest[j].id \in Listed /\ rest[j] = Box(rest[j].id)
      BY <3>2, <3>4, <3>5 DEF NodesInv, OfThisList
    <3>8. (nodes.reloaded /\ rest # <<>>)
            \/ \A j \in DOMAIN rest : rest[j].id \in Listed /\ rest[j] = Box(rest[j].id)
      BY <3>7
    <3>9. (nodes.reloaded /\ rest # <<>>) \in BOOLEAN
      OBVIOUS
    <3> QED BY <2>1, <3>2, <3>3, <3>6, <3>8, <3>9
  <2>3. CASE ~Ticked(n)
    <3> DEFINE q == Append(nodes.selected, Box(n))
    <3>1. nodes' = [nodes EXCEPT !.selected = q, !.reloaded = nodes.reloaded]
      BY <1>7, <2>3 DEF NodesToggle, NodesInv, NodesTypes
    <3>2. /\ q \in Seq(TickBoxes) /\ DOMAIN q = 1..(Len(nodes.selected) + 1)
          /\ Len(nodes.selected) \in Nat /\ DOMAIN nodes.selected = 1..Len(nodes.selected)
          /\ \A i \in 1..(Len(nodes.selected) + 1) :
               q[i] = IF i = Len(nodes.selected) + 1 THEN Box(n) ELSE nodes.selected[i]
      BY <1>0, <2>0
    <3> HIDE DEF q
    <3>3. \A i \in DOMAIN nodes.selected : nodes.selected[i] # Box(n)
      BY <2>3 DEF Ticked
    <3>4. \A i, j \in DOMAIN q : i # j => q[i] # q[j]
      BY <3>2, <3>3 DEF NodesInv, TickedOnce
    <3>5. nodes.reloaded \/ \A i \in DOMAIN q : q[i].id \in Listed /\ q[i] = Box(q[i].id)
      BY <2>0, <3>2 DEF NodesInv, OfThisList
    <3> QED BY <1>0, <2>1, <3>1, <3>2, <3>4, <3>5
  <2> QED BY <2>2, <2>3
<1>8. ASSUME NEW button \in BOOLEAN, NodesClose(button) PROVE NodesInv'
  <2> DEFINE q == IF button THEN <<>> ELSE nodes.selected
             re == nodes.reloaded /\ ~button
             script == nodes.scripted /\ ~button
             early == nodes.early \/ nodes.running
  <2>1. nodes' = [nodes EXCEPT !.dialog = FALSE, !.results = 0, !.early = early,
                               !.scripted = script, !.selected = q, !.reloaded = re]
    BY <1>8 DEF NodesClose, NodesInv, NodesTypes
  <2>2. q \in Seq(TickBoxes) /\ re \in BOOLEAN /\ script \in BOOLEAN /\ early \in BOOLEAN
    BY <1>0
  <2>3. re \/ q = <<>> \/ (q = nodes.selected /\ ~nodes.reloaded)
    BY <1>0
  <2>4. (early <=> nodes.early \/ nodes.running) /\ (q = <<>> \/ q = nodes.selected)
    OBVIOUS
  <2> HIDE DEF q, re, script, early
  <2>5. NodesTypes'
    BY <2>1, <2>2 DEF NodesInv, NodesTypes
  <2>6. /\ nodes'.flight = nodes.flight /\ nodes'.running = nodes.running /\ nodes'.batches = nodes.batches
        /\ nodes'.early = early /\ ~nodes'.dialog /\ nodes'.own = nodes.own
        /\ nodes'.results = 0 /\ nodes'.selected = q
        /\ nodes'.reloaded = re /\ nodes'.rows = nodes.rows /\ nodes'.demo = nodes.demo
        /\ nodes'.mixed = nodes.mixed /\ nodes'.targets = nodes.targets
    BY <2>1 DEF NodesInv, NodesTypes
  <2>7. OwnResults'
    BY <2>4, <2>6 DEF NodesInv, OwnResults
  <2>8. TickedOnce'
    BY <2>4, <2>6 DEF NodesInv, TickedOnce
  <2>9. OfThisList'
    <3>1. CASE re
      BY <2>6, <3>1 DEF OfThisList
    <3>2. CASE q = <<>>
      BY <2>6, <3>2 DEF OfThisList
    <3>3. CASE q = nodes.selected /\ ~nodes.reloaded
      BY <2>6, <3>3 DEF NodesInv, OfThisList, Listed, Box
    <3> QED BY <2>3, <3>1, <3>2, <3>3
  <2> QED BY <2>5, <2>6, <2>7, <2>8, <2>9 DEF NodesInv, OneBatch, NamedOnce
<1> QED BY <1>1, <1>2, <1>3, <1>4, <1>5, <1>6, <1>7, <1>8 DEF NodesNext, AllNodes

-----------------------------------------------------------------------------
(* Tailscale and frpc of a node (NodeMesh).                                 *)

Editable == Instances \cup {None}
MeshStates ==
    [loading : BOOLEAN, at : {"tailscale", "frp"}, waits : SUBSET {"action", "save"},
     known : BOOLEAN, loggedIn : BOOLEAN, listed : BOOLEAN,
     busy : Actions \cup {None}, box : Actions \cup {"save", None}, sent : SUBSET Actions,
     reads : [1..MaxReads -> Editable], dialog : BOOLEAN, inst : Editable, content : Editable,
     file : Editable, editSaving : BOOLEAN,
     saving : SUBSET [inst : Editable, content : Editable], crossed : BOOLEAN]

\* No action is under way, whatever `busy` says.
NoAction(m) == m.sent = {} /\ m.box \notin Actions /\ "action" \notin m.waits

\* `busy` is the one action, which is being answered, asks its question or waits for the load.
BusyWithOne(m) ==
    /\ m.sent # {} => m.sent = {m.busy} /\ m.box \notin Actions /\ "action" \notin m.waits
    /\ m.box \in Actions => m.busy # None /\ "action" \notin m.waits
    /\ "action" \in m.waits => m.busy # None
OwnContent(m) ==
    m.crossed \/
    /\ m.inst = m.content
    /\ \A s \in m.saving : s.inst = s.content

MeshGood(m) == m \in MeshStates /\ BusyWithOne(m) /\ OwnContent(m)
MeshInv == MeshGood(mesh)

\* The panel starts with its first load.
LEMMA MeshStarts == MeshInit => MeshInv
<1> SUFFICES ASSUME MeshInit PROVE MeshInv
  OBVIOUS
<1>1. mesh \in MeshStates
  BY DEF MeshInit, MeshStates, Editable
<1>2. BusyWithOne(mesh) /\ OwnContent(mesh)
  BY MeshAssumption DEF MeshInit, BusyWithOne, OwnContent
<1> QED BY <1>1, <1>2 DEF MeshInv, MeshGood

\* The property of the panel follows.
LEMMA MeshHolds == MeshInv => MeshAsked
<1> SUFFICES ASSUME MeshInv PROVE MeshAsked
  OBVIOUS
<1>1. Cardinality(mesh.sent) <= 1
  <2>1. Cardinality({mesh.busy}) = 1 /\ Cardinality({}) = 0
    BY FS_Singleton, FS_EmptySet
  <2>2. mesh.sent = {} \/ mesh.sent = {mesh.busy}
    BY DEF MeshInv, MeshGood, BusyWithOne
  <2> QED BY <2>1, <2>2
<1> QED BY <1>1 DEF MeshInv, MeshGood, OwnContent, MeshAsked

\* What a step leaves alone of what the invariant reads.
SameWork(m, k) ==
    /\ k.sent = m.sent /\ k.box = m.box /\ k.waits = m.waits /\ k.busy = m.busy
    /\ k.inst = m.inst /\ k.content = m.content /\ k.saving = m.saving /\ k.crossed = m.crossed
\* The invariant reads nothing else.
LEMMA MeshSame ==
    ASSUME NEW m, NEW k, MeshGood(m), k \in MeshStates, SameWork(m, k)
    PROVE  MeshGood(k)
BY DEF MeshGood, SameWork, BusyWithOne, OwnContent

\* A load changes nothing of the work under way.
LEMMA MeshLoads == ASSUME NEW m, MeshGood(m) PROVE MeshGood(MeshLoad(m)) /\ SameWork(m, MeshLoad(m))
<1>1. MeshLoad(m) \in MeshStates
  BY DEF MeshGood, MeshLoad, MeshStates
<1>2. SameWork(m, MeshLoad(m))
  BY DEF MeshGood, MeshLoad, MeshStates, SameWork
<1> QED BY <1>1, <1>2, MeshSame

\* The end of an action, when none is under way, or of a save.
LEMMA MeshDone ==
    ASSUME NEW m, MeshGood(m), NEW who \in SUBSET {"action", "save"},
           "action" \in who => NoAction(m)
    PROVE  MeshGood(Done(m, who))
<1> DEFINE k == Done(m, who)
           busy == IF "action" \in who THEN None ELSE m.busy
           editing == m.editSaving /\ "save" \notin who
<1>1. busy \in Actions \cup {None} /\ editing \in BOOLEAN
  BY DEF MeshGood, MeshStates
<1>2. k = [m EXCEPT !.busy = busy, !.editSaving = editing]
  BY DEF Done, MeshGood, MeshStates
<1>3. "action" \in who \/ busy = m.busy
  OBVIOUS
<1> HIDE DEF k, busy, editing
<1>4. k \in MeshStates
  BY <1>1, <1>2 DEF MeshGood, MeshStates
<1>5. /\ k.sent = m.sent /\ k.box = m.box /\ k.waits = m.waits /\ k.busy = busy
      /\ k.inst = m.inst /\ k.content = m.content /\ k.saving = m.saving /\ k.crossed = m.crossed
  BY <1>2 DEF MeshGood, MeshStates
<1>6. BusyWithOne(k)
  BY <1>3, <1>5 DEF MeshGood, BusyWithOne, NoAction
<1>7. OwnContent(k)
  BY <1>5 DEF MeshGood, OwnContent
<1> QED BY <1>4, <1>6, <1>7 DEF MeshGood, k

\* The load at the end of an action, or of a save.
LEMMA MeshFinishes ==
    ASSUME NEW m, MeshGood(m), NEW who \in {"action", "save"},
           who = "action" => NoAction(m) /\ m.busy # None
    PROVE  MeshGood(Finish(m, who))
<1>1. CASE m.loading
  BY <1>1, MeshDone DEF Finish
<1>2. CASE ~m.loading
  <2> DEFINE l == MeshLoad(m)
             k == [l EXCEPT !.waits = {who}]
  <2>1. MeshGood(l) /\ SameWork(m, l)
    BY MeshLoads
  <2> HIDE DEF l
  <2>2. k \in MeshStates
    BY <2>1 DEF MeshGood, MeshStates
  <2>3. /\ k.sent = l.sent /\ k.box = l.box /\ k.waits = {who} /\ k.busy = l.busy
        /\ k.inst = l.inst /\ k.content = l.content /\ k.saving = l.saving /\ k.crossed = l.crossed
    BY <2>1 DEF MeshGood, MeshStates
  <2> HIDE DEF k
  <2>4. BusyWithOne(k)
    BY <2>1, <2>3 DEF MeshGood, BusyWithOne, NoAction, SameWork
  <2>5. OwnContent(k)
    BY <2>1, <2>3 DEF MeshGood, OwnContent
  <2>6. Finish(m, who) = k
    BY <1>2 DEF Finish, l, k
  <2> QED BY <2>2, <2>4, <2>5, <2>6 DEF MeshGood
<1> QED BY <1>1, <1>2

\* Every step of the panel keeps the invariant.
LEMMA MeshKeeps == MeshInv /\ MeshNext => MeshInv'
<1> SUFFICES ASSUME MeshInv, MeshNext PROVE MeshGood(mesh')
  BY DEF MeshInv
<1>0. MeshGood(mesh) /\ mesh \in MeshStates
  BY DEF MeshInv, MeshGood
<1>1. CASE MeshRefresh
  BY <1>0, <1>1, MeshLoads DEF MeshRefresh
<1>2. CASE MeshTailscale
  <2>0. PICK in \in BOOLEAN : mesh' = [mesh EXCEPT !.at = "frp", !.known = TRUE, !.loggedIn = in]
    BY <1>2 DEF MeshTailscale
  <2>1. mesh' \in MeshStates
    BY <1>0, <2>0 DEF MeshStates
  <2>2. SameWork(mesh, mesh')
    BY <1>0, <2>0 DEF MeshStates, SameWork
  <2> QED BY <1>0, <2>1, <2>2, MeshSame
<1>3. CASE MeshFrp
  <2> DEFINE m == [mesh EXCEPT !.loading = FALSE, !.listed = TRUE, !.waits = {}]
  <2>1. m \in MeshStates
    BY <1>0 DEF MeshStates
  <2>2. /\ mesh.sent = m.sent /\ mesh.box = m.box /\ m.waits = {} /\ mesh.busy = m.busy
        /\ mesh.inst = m.inst /\ mesh.content = m.content /\ mesh.saving = m.saving
        /\ mesh.crossed = m.crossed
    BY <1>0 DEF MeshStates
  <2>3. mesh' = Done(m, mesh.waits) /\ mesh.waits \in SUBSET {"action", "save"}
    BY <1>0, <1>3 DEF MeshFrp, MeshStates
  <2> HIDE DEF m
  <2>4. MeshGood(m)
    BY <1>0, <2>1, <2>2 DEF MeshGood, BusyWithOne, OwnContent
  <2>5. "action" \in mesh.waits => NoAction(m)
    BY <1>0, <2>2 DEF MeshGood, BusyWithOne, NoAction
  <2> QED BY <2>3, <2>4, <2>5, MeshDone
<1>4. CASE MeshAnswerBox
  <2> DEFINE m == [mesh EXCEPT !.box = None]
  <2>1. m \in MeshStates
    BY <1>0 DEF MeshStates
  <2>2. /\ mesh.sent = m.sent /\ m.box = None /\ m.waits = mesh.waits /\ mesh.busy = m.busy
        /\ mesh.inst = m.inst /\ mesh.content = m.content /\ mesh.saving = m.saving
        /\ mesh.crossed = m.crossed
    BY <1>0 DEF MeshStates
  <2>3. /\ mesh' = Finish(m, IF mesh.box = "save" THEN "save" ELSE "action")
        /\ mesh.box \in Actions \cup {"save"}
    BY <1>0, <1>4 DEF MeshAnswerBox, MeshStates
  <2> HIDE DEF m
  <2>4. MeshGood(m)
    BY <1>0, <2>1, <2>2, MeshAssumption DEF MeshGood, BusyWithOne, OwnContent
  <2>5. mesh.box # "save" => NoAction(m) /\ m.busy # None
    BY <1>0, <2>2, <2>3, MeshAssumption DEF MeshGood, BusyWithOne, NoAction
  <2> QED BY <2>3, <2>4, <2>5, MeshFinishes
<1>5. CASE MeshPick
  <2>1. mesh' \in MeshStates
    BY <1>0, <1>5 DEF MeshPick, MeshStates
  <2>2. SameWork(mesh, mesh')
    BY <1>0, <1>5 DEF MeshPick, MeshStates, SameWork
  <2> QED BY <1>0, <2>1, <2>2, MeshSame
<1>6. CASE MeshFileRead
  <2> DEFINE cross == mesh.crossed \/ mesh.file # mesh.inst
  <2>1. cross \in BOOLEAN
    BY <1>0 DEF MeshStates
  <2>2. mesh' = [mesh EXCEPT !.content = mesh.file, !.file = None, !.crossed = cross]
    BY <1>0, <1>6 DEF MeshFileRead, MeshStates
  <2>3. cross <=> mesh.crossed \/ mesh.file # mesh.inst
    OBVIOUS
  <2> HIDE DEF cross
  <2>4. mesh' \in MeshStates
    BY <1>0, <2>1, <2>2 DEF MeshStates, Editable
  <2>5. /\ mesh'.sent = mesh.sent /\ mesh'.box = mesh.box /\ mesh'.waits = mesh.waits
        /\ mesh'.busy = mesh.busy /\ mesh'.inst = mesh.inst /\ mesh'.content = mesh.file
        /\ mesh'.saving = mesh.saving /\ mesh'.crossed = cross
    BY <1>0, <2>2 DEF MeshStates
  <2>6. BusyWithOne(mesh')
    BY <1>0, <2>5 DEF MeshGood, BusyWithOne
  <2>7. OwnContent(mesh')
    BY <1>0, <2>3, <2>5 DEF MeshGood, OwnContent
  <2> QED BY <2>4, <2>6, <2>7 DEF MeshGood
<1>7. CASE MeshSave
  <2> DEFINE save == [inst |-> mesh.inst, content |-> mesh.content]
  <2>1. save \in [inst : Editable, content : Editable]
    BY <1>0 DEF MeshStates
  <2>2. mesh' = [mesh EXCEPT !.editSaving = TRUE, !.saving = {save}]
    BY <1>7 DEF MeshSave
  <2>3. save.inst = mesh.inst /\ save.content = mesh.content
    OBVIOUS
  <2> HIDE DEF save
  <2>4. mesh' \in MeshStates
    BY <1>0, <2>1, <2>2 DEF MeshStates
  <2>5. /\ mesh'.sent = mesh.sent /\ mesh'.box = mesh.box /\ mesh'.waits = mesh.waits
        /\ mesh'.busy = mesh.busy /\ mesh'.inst = mesh.inst /\ mesh'.content = mesh.content
        /\ mesh'.saving = {save} /\ mesh'.crossed = mesh.crossed
    BY <1>0, <2>2 DEF MeshStates
  <2>6. BusyWithOne(mesh')
    BY <1>0, <2>5 DEF MeshGood, BusyWithOne
  <2>7. OwnContent(mesh')
    BY <1>0, <2>3, <2>5 DEF MeshGood, OwnContent
  <2> QED BY <2>4, <2>6, <2>7 DEF MeshGood
<1>8. CASE MeshSaved
  <2> DEFINE m == [mesh EXCEPT !.saving = {}]
             d == [m EXCEPT !.dialog = FALSE]
             box == [m EXCEPT !.box = "save"]
  <2>1. MeshGood(m)
    <3>1. m \in MeshStates
      BY <1>0 DEF MeshStates
    <3>2. /\ m.sent = mesh.sent /\ m.box = mesh.box /\ m.waits = mesh.waits
          /\ m.busy = mesh.busy /\ m.inst = mesh.inst /\ m.content = mesh.content
          /\ m.saving = {} /\ m.crossed = mesh.crossed
      BY <1>0 DEF MeshStates
    <3> HIDE DEF m
    <3> QED BY <1>0, <3>1, <3>2 DEF MeshGood, BusyWithOne, OwnContent
  <2>2. m.box = mesh.box
    BY <1>0 DEF MeshStates
  <2>3. \/ mesh' = Done(m, {"save"}) \/ mesh' = Finish(m, "save") \/ mesh' = Finish(d, "save")
        \/ mesh.box = None /\ mesh' = box
    BY <1>8 DEF MeshSaved
  <2> HIDE DEF m
  <2>4. MeshGood(d)
    <3>1. d \in MeshStates
      BY <2>1 DEF MeshGood, MeshStates
    <3>2. SameWork(m, d)
      BY <2>1 DEF MeshGood, MeshStates, SameWork
    <3> QED BY <2>1, <3>1, <3>2, MeshSame
  <2>5. mesh.box = None => MeshGood(box)
    <3> SUFFICES ASSUME mesh.box = None PROVE MeshGood(box)
      OBVIOUS
    <3>1. box \in MeshStates
      BY <2>1 DEF MeshGood, MeshStates
    <3>2. /\ box.sent = m.sent /\ box.box = "save" /\ box.waits = m.waits
          /\ box.busy = m.busy /\ box.inst = m.inst /\ box.content = m.content
          /\ box.saving = m.saving /\ box.crossed = m.crossed
      BY <2>1 DEF MeshGood, MeshStates
    <3> HIDE DEF box
    <3>3. "save" \notin Actions
      BY DEF Actions
    <3> QED BY <2>1, <3>1, <3>2, <3>3 DEF MeshGood, BusyWithOne, OwnContent
  <2> HIDE DEF d, box
  <2>6. "action" \notin {"save"} /\ {"save"} \in SUBSET {"action", "save"}
    OBVIOUS
  <2>7. MeshGood(Done(m, {"save"}))
    BY <2>1, <2>6, MeshDone
  <2>8. MeshGood(Finish(m, "save")) /\ MeshGood(Finish(d, "save"))
    BY <2>1, <2>4, MeshFinishes
  <2> QED BY <2>3, <2>5, <2>7, <2>8
<1>9. CASE MeshCancel
  <2>1. mesh' \in MeshStates
    BY <1>0, <1>9 DEF MeshCancel, MeshStates
  <2>2. SameWork(mesh, mesh')
    BY <1>0, <1>9 DEF MeshCancel, MeshStates, SameWork
  <2> QED BY <1>0, <2>1, <2>2, MeshSame
<1>10. ASSUME NEW act \in Actions, MeshAct(act) PROVE MeshGood(mesh')
  <2>1. mesh' = [mesh EXCEPT !.busy = act, !.sent = @ \cup {act}] /\ mesh.busy = None
    BY <1>10 DEF MeshAct, Free
  <2>2. mesh' \in MeshStates
    BY <1>0, <2>1 DEF MeshStates
  <2>3. /\ mesh'.sent = mesh.sent \cup {act} /\ mesh'.box = mesh.box /\ mesh'.waits = mesh.waits
        /\ mesh'.busy = act /\ mesh'.inst = mesh.inst /\ mesh'.content = mesh.content
        /\ mesh'.saving = mesh.saving /\ mesh'.crossed = mesh.crossed
    BY <1>0, <2>1 DEF MeshStates
  <2>4. mesh.sent = {} /\ mesh.box \notin Actions /\ "action" \notin mesh.waits
    <3>1. mesh.sent \subseteq Actions
      BY <1>0 DEF MeshStates
    <3> QED BY <1>0, <2>1, <3>1, MeshAssumption DEF MeshGood, BusyWithOne
  <2>5. BusyWithOne(mesh')
    BY <2>3, <2>4, MeshAssumption DEF BusyWithOne
  <2>6. OwnContent(mesh')
    BY <1>0, <2>3 DEF MeshGood, OwnContent
  <2> QED BY <2>2, <2>5, <2>6 DEF MeshGood
<1>11. ASSUME NEW act \in Actions, MeshActed(act) PROVE MeshGood(mesh')
  <2> DEFINE m == [mesh EXCEPT !.sent = @ \ {act}]
             n == [m EXCEPT !.busy = None]
             box == [m EXCEPT !.box = act]
  <2>1. act \in mesh.sent /\ (mesh' = n \/ mesh' = Finish(m, "action") \/ mesh' = box)
    BY <1>11 DEF MeshActed
  <2>2. m \in MeshStates
    BY <1>0 DEF MeshStates
  <2>3. /\ m.sent = mesh.sent \ {act} /\ m.box = mesh.box /\ m.waits = mesh.waits
        /\ m.busy = mesh.busy /\ m.inst = mesh.inst /\ m.content = mesh.content
        /\ m.saving = mesh.saving /\ m.crossed = mesh.crossed
    BY <1>0 DEF MeshStates
  <2> HIDE DEF m
  <2>4. NoAction(m) /\ m.busy # None
    BY <1>0, <2>1, <2>3, MeshAssumption DEF MeshGood, BusyWithOne, NoAction
  <2>5. MeshGood(m)
    BY <1>0, <2>2, <2>3, <2>4 DEF MeshGood, BusyWithOne, OwnContent, NoAction
  <2>6. MeshGood(n)
    <3>1. n \in MeshStates
      BY <2>2 DEF MeshStates
    <3>2. /\ n.sent = m.sent /\ n.box = m.box /\ n.waits = m.waits
          /\ n.inst = m.inst /\ n.content = m.content
          /\ n.saving = m.saving /\ n.crossed = m.crossed
      BY <2>2 DEF MeshStates
    <3> HIDE DEF n
    <3> QED BY <2>4, <2>5, <3>1, <3>2 DEF MeshGood, BusyWithOne, OwnContent, NoAction
  <2>7. MeshGood(box)
    <3>1. box \in MeshStates
      BY <2>2 DEF MeshStates
    <3>2. /\ box.sent = m.sent /\ box.box = act /\ box.waits = m.waits /\ box.busy = m.busy
          /\ box.inst = m.inst /\ box.content = m.content
          /\ box.saving = m.saving /\ box.crossed = m.crossed
      BY <2>2 DEF MeshStates
    <3> HIDE DEF box
    <3> QED BY <2>4, <2>5, <3>1, <3>2 DEF MeshGood, BusyWithOne, OwnContent, NoAction
  <2> HIDE DEF n, box
  <2>8. MeshGood(Finish(m, "action"))
    BY <2>4, <2>5, MeshFinishes
  <2> QED BY <2>1, <2>6, <2>7, <2>8
<1>12. ASSUME NEW i \in Instances, MeshEdit(i) PROVE MeshGood(mesh')
  <2>1. PICK k \in 1..MaxReads : mesh' = [mesh EXCEPT !.reads[k] = i]
    BY <1>12 DEF MeshEdit
  <2>2. [mesh.reads EXCEPT ![k] = i] \in [1..MaxReads -> Editable]
    BY <1>0 DEF MeshStates, Editable
  <2>3. mesh' = [mesh EXCEPT !.reads = [mesh.reads EXCEPT ![k] = i]]
    BY <1>0, <2>1 DEF MeshStates
  <2>4. mesh' \in MeshStates
    BY <1>0, <2>2, <2>3 DEF MeshStates
  <2>5. SameWork(mesh, mesh')
    BY <1>0, <2>3 DEF MeshStates, SameWork
  <2> QED BY <1>0, <2>4, <2>5, MeshSame
<1>13. ASSUME NEW k \in 1..MaxReads, MeshRead(k) PROVE MeshGood(mesh')
  <2> DEFINE reads == [mesh.reads EXCEPT ![k] = None]
             m == [mesh EXCEPT !.reads = reads]
             i == mesh.reads[k]
  <2>1. reads \in [1..MaxReads -> Editable] /\ i \in Editable
    BY <1>0 DEF MeshStates, Editable
  <2>2. [mesh EXCEPT !.reads[k] = None] = m
    BY <1>0 DEF MeshStates
  <2>3. mesh' = m \/ mesh' = ReadInto(m, i)
    BY <1>13, <2>2 DEF MeshRead
  <2> HIDE DEF reads, i
  <2>4. MeshGood(m)
    <3>1. m \in MeshStates
      BY <1>0, <2>1 DEF MeshStates
    <3>2. SameWork(mesh, m)
      BY <1>0 DEF MeshStates, SameWork
    <3> QED BY <1>0, <3>1, <3>2, MeshSame
  <2> HIDE DEF m
  <2> DEFINE r == ReadInto(m, i)
  <2>5. MeshGood(r)
    <3>1. r \in MeshStates
      BY <2>1, <2>4 DEF MeshGood, MeshStates, ReadInto
    <3>2. /\ r.sent = m.sent /\ r.box = m.box /\ r.waits = m.waits /\ r.busy = m.busy
          /\ r.inst = i /\ r.content = i /\ r.saving = m.saving /\ r.crossed = m.crossed
      BY <2>4 DEF MeshGood, MeshStates, ReadInto
    <3> HIDE DEF r
    <3> QED BY <2>4, <3>1, <3>2 DEF MeshGood, BusyWithOne, OwnContent
  <2> QED BY <2>3, <2>4, <2>5
<1> QED BY <1>1, <1>2, <1>3, <1>4, <1>5, <1>6, <1>7, <1>8, <1>9, <1>10, <1>11, <1>12, <1>13 DEF MeshNext

-----------------------------------------------------------------------------
(* The page of a node (NodePage).                                           *)

Files == Binaries \cup {None}
PageTypes ==
    page \in [example : BOOLEAN, mounted : BOOLEAN, timer : BOOLEAN, node : {"real", "mock", None},
              loading : BOOLEAN, atNode : Nat, atHistory : Nat, dialog : BOOLEAN, file : Files,
              list : Files, blanked : BOOLEAN, upgrading : BOOLEAN,
              step : {"idle", "upload", "upgrade", "box", "wait", "reload"}, sent : Files, asked : Files]

\* The file of the dialog is the one that its list shows, even while the page is away.
ShowsFile == page.file # None /\ ~page.blanked => page.list = page.file
PageInv == PageTypes /\ ShowsFile /\ page.sent = page.asked /\ (page.timer => page.mounted)

\* The page starts without a file.
LEMMA PageStarts == PageInit => PageInv
  BY DEF PageInit, PageInv, PageTypes, ShowsFile, Files

\* The property of the page follows.
LEMMA PageHolds == PageInv => PageAsked
  BY DEF PageInv, ShowsFile, PageAsked

\* Every step of the page keeps the invariant, and reads a node only for a page
\* that is there or an upgrade that waits.
LEMMA PageKeeps ==
    PageInv /\ PageNext =>
        /\ PageInv'
        /\ ~page.mounted /\ page'.atNode > page.atNode => page.step = "wait"
<1> DEFINE Silent == page'.atNode > page.atNode => page.mounted \/ page.step = "wait"
<1> SUFFICES ASSUME PageInv, PageNext PROVE PageInv' /\ Silent
  OBVIOUS
<1>0. PageTypes /\ page.atNode \in Nat /\ page.atHistory \in Nat
  BY DEF PageInv, PageTypes
<1>1. CASE PageTick
  <2>1. PageTypes'
    BY <1>0, <1>1 DEF PageTick, Reload, PageTypes
  <2> QED BY <2>1, <1>1, <1>0 DEF PageTick, TimerTicks, Reload, PageInv, PageTypes, ShowsFile
<1>2. CASE PageRefresh
  <2>1. PageTypes'
    BY <1>0, <1>2 DEF PageRefresh, Reload, PageTypes
  <2> QED BY <2>1, <1>2, <1>0 DEF PageRefresh, Reload, PageInv, PageTypes, ShowsFile
<1>3. CASE PageNode
  <2>1. PICK node \in {"real", "mock", None}, list \in Files, blanked \in BOOLEAN :
          /\ page' = [page EXCEPT !.atNode = @ - 1, !.atHistory = @ + 1, !.node = node,
                                  !.list = list, !.blanked = blanked]
          /\ blanked \/ (~page.blanked /\ list = page.list)
    <3>1. PICK ok \in BOOLEAN :
            page' = [page EXCEPT !.atNode = @ - 1, !.atHistory = @ + 1,
                             !.node = IF ok THEN "real" ELSE IF page.example THEN "mock" ELSE None,
                             !.list = IF ok \/ page.example THEN @ ELSE None,
                             !.blanked = @ \/ (~ok /\ ~page.example /\ page.list # None)]
      BY <1>3 DEF PageNode
    <3> DEFINE node == IF ok THEN "real" ELSE IF page.example THEN "mock" ELSE None
               list == IF ok \/ page.example THEN page.list ELSE None
               blanked == page.blanked \/ (~ok /\ ~page.example /\ page.list # None)
    <3>2. page' = [page EXCEPT !.atNode = @ - 1, !.atHistory = @ + 1, !.node = node,
                               !.list = list, !.blanked = blanked]
      BY <1>0, <3>1 DEF PageTypes
    <3>3. node \in {"real", "mock", None} /\ list \in Files /\ blanked \in BOOLEAN
      BY <1>0 DEF PageTypes, Files
    <3>4. blanked \/ (~page.blanked /\ list = page.list)
      BY <1>0 DEF PageTypes
    <3> HIDE DEF node, list, blanked
    <3> QED BY <3>2, <3>3, <3>4
  <2>2. page.atNode - 1 \in Nat /\ page.atHistory + 1 \in Nat
    BY <1>0, <1>3 DEF PageNode
  <2>3. PageTypes'
    BY <1>0, <2>1, <2>2 DEF PageTypes
  <2>4. /\ page'.file = page.file /\ page'.list = list /\ (page'.blanked <=> blanked)
        /\ page'.sent = page.sent /\ page'.asked = page.asked
        /\ page'.timer = page.timer /\ page'.mounted = page.mounted /\ page'.atNode = page.atNode - 1
    BY <1>0, <2>1 DEF PageTypes
  <2> QED BY <1>0, <2>1, <2>3, <2>4 DEF PageInv, ShowsFile
<1>4. CASE PageHistory
  <2>1. PICK own \in BOOLEAN :
          page' = [page EXCEPT !.atHistory = @ - 1, !.loading = FALSE,
                               !.upgrading = @ /\ ~own, !.step = IF own THEN "idle" ELSE @]
    BY <1>4 DEF PageHistory
  <2>2. page.atHistory - 1 \in Nat
    BY <1>0, <1>4 DEF PageHistory
  <2>3. PageTypes'
    <3>1. CASE own
      BY <1>0, <2>1, <2>2, <3>1 DEF PageTypes
    <3>2. CASE ~own
      BY <1>0, <2>1, <2>2, <3>2 DEF PageTypes
    <3> QED BY <3>1, <3>2
  <2> QED BY <1>0, <2>1, <2>3 DEF PageInv, PageTypes, ShowsFile
<1>5. CASE PageOpenUpgrade
  <2>1. PageTypes'
    BY <1>0, <1>5 DEF PageOpenUpgrade, PageTypes, Files
  <2>2. /\ page'.file = None /\ page'.list = page.list /\ page'.sent = page.sent
        /\ page'.asked = page.asked /\ page'.timer = page.timer /\ page'.mounted = page.mounted
        /\ page'.atNode = page.atNode
    BY <1>0, <1>5 DEF PageOpenUpgrade, PageTypes
  <2> QED BY <1>0, <2>1, <2>2 DEF PageInv, ShowsFile
<1>6. CASE PageCancelUpgrade
  <2>1. PageTypes'
    BY <1>0, <1>6 DEF PageCancelUpgrade, PageTypes
  <2>2. /\ page'.file = page.file /\ page'.list = page.list /\ page'.blanked = page.blanked
        /\ page'.sent = page.sent /\ page'.asked = page.asked /\ page'.timer = page.timer
        /\ page'.mounted = page.mounted /\ page'.atNode = page.atNode
    BY <1>0, <1>6 DEF PageCancelUpgrade, PageTypes
  <2> QED BY <1>0, <2>1, <2>2 DEF PageInv, ShowsFile
<1>7. CASE PageRemove
  <2>1. PageTypes'
    BY <1>0, <1>7 DEF PageRemove, PageTypes, Files
  <2>2. /\ page'.file = None /\ page'.blanked = page.blanked /\ page'.sent = page.sent
        /\ page'.asked = page.asked /\ page'.timer = page.timer /\ page'.mounted = page.mounted
        /\ page'.atNode = page.atNode
    BY <1>0, <1>7 DEF PageRemove, PageTypes
  <2> QED BY <1>0, <2>1, <2>2 DEF PageInv, ShowsFile
<1>8. CASE PageUpgrade
  <2> DEFINE shown == IF page.blanked THEN page.file ELSE page.list
  <2>0. shown = page.file /\ page.file \in Files
    BY <1>0, <1>8 DEF PageUpgrade, HasFile, PageInv, PageTypes, ShowsFile
  <2>3. page' = [page EXCEPT !.upgrading = TRUE, !.step = "upload", !.sent = page.file,
                             !.asked = page.file]
    BY <1>8, <2>0 DEF PageUpgrade
  <2> HIDE DEF shown
  <2>1. PageTypes'
    BY <1>0, <2>0, <2>3 DEF PageTypes
  <2>2. /\ page'.file = page.file /\ page'.list = page.list /\ page'.blanked = page.blanked
        /\ page'.sent = page'.asked /\ page'.timer = page.timer /\ page'.mounted = page.mounted
        /\ page'.atNode = page.atNode
    BY <1>0, <2>3 DEF PageTypes
  <2> QED BY <1>0, <2>1, <2>2 DEF PageInv, ShowsFile
<1>9. CASE PageUploaded
  <2>1. PageTypes'
    BY <1>0, <1>9 DEF PageUploaded, Stop, PageTypes
  <2>2. /\ page'.file = page.file /\ page'.list = page.list /\ page'.blanked = page.blanked
        /\ page'.sent = page.sent /\ page'.asked = page.asked /\ page'.timer = page.timer
        /\ page'.mounted = page.mounted /\ page'.atNode = page.atNode
    BY <1>0, <1>9 DEF PageUploaded, Stop, PageTypes
  <2> QED BY <1>0, <2>1, <2>2 DEF PageInv, ShowsFile
<1>10. CASE PageUpgraded
  <2>0. \E up \in BOOLEAN, step \in {"idle", "box", "wait"}, dialog \in BOOLEAN :
          page' = [page EXCEPT !.upgrading = up, !.step = step, !.dialog = dialog]
    <3>1. CASE page' = Stop(page)
      <4>1. page' = [page EXCEPT !.upgrading = FALSE, !.step = "idle", !.dialog = page.dialog]
        BY <1>0, <3>1 DEF Stop, PageTypes
      <4> QED BY <1>0, <4>1 DEF PageTypes
    <3>2. CASE \E step \in {"box", "wait"} : page' = [page EXCEPT !.step = step, !.dialog = FALSE]
      <4>1. PICK step \in {"box", "wait"} : page' = [page EXCEPT !.step = step, !.dialog = FALSE]
        BY <3>2
      <4>2. page' = [page EXCEPT !.upgrading = page.upgrading, !.step = step, !.dialog = FALSE]
        BY <1>0, <4>1 DEF PageTypes
      <4> QED BY <1>0, <4>2 DEF PageTypes
    <3> QED BY <1>10, <3>1, <3>2 DEF PageUpgraded
  <2>3. PICK up \in BOOLEAN, step \in {"idle", "box", "wait"}, dialog \in BOOLEAN :
          page' = [page EXCEPT !.upgrading = up, !.step = step, !.dialog = dialog]
    BY <2>0
  <2>1. PageTypes'
    BY <1>0, <2>3 DEF PageTypes
  <2>2. /\ page'.file = page.file /\ page'.list = page.list /\ page'.blanked = page.blanked
        /\ page'.sent = page.sent /\ page'.asked = page.asked /\ page'.timer = page.timer
        /\ page'.mounted = page.mounted /\ page'.atNode = page.atNode
    BY <1>0, <2>3 DEF PageTypes
  <2> QED BY <1>0, <2>1, <2>2 DEF PageInv, ShowsFile
<1>11. CASE PageAnswerBox
  <2>1. PageTypes'
    BY <1>0, <1>11 DEF PageAnswerBox, PageTypes
  <2>2. /\ page'.file = page.file /\ page'.list = page.list /\ page'.blanked = page.blanked
        /\ page'.sent = page.sent /\ page'.asked = page.asked /\ page'.timer = page.timer
        /\ page'.mounted = page.mounted /\ page'.atNode = page.atNode
    BY <1>0, <1>11 DEF PageAnswerBox, PageTypes
  <2> QED BY <1>0, <2>1, <2>2 DEF PageInv, ShowsFile
<1>12. CASE PageWaited
  <2>0. page' = [page EXCEPT !.atNode = page.atNode + 1, !.step = "reload"] /\ page.step = "wait"
        /\ page.atNode + 1 \in Nat
    BY <1>0, <1>12 DEF PageWaited, Reload, PageTypes
  <2>1. PageTypes'
    BY <1>0, <2>0 DEF PageTypes
  <2>2. /\ page'.file = page.file /\ page'.list = page.list /\ page'.blanked = page.blanked
        /\ page'.sent = page.sent /\ page'.asked = page.asked /\ page'.timer = page.timer
        /\ page'.mounted = page.mounted /\ page.step = "wait"
    BY <1>0, <2>0 DEF PageTypes
  <2> QED BY <1>0, <2>1, <2>2 DEF PageInv, ShowsFile
<1>13. CASE PageLeave
  <2>1. PageTypes'
    BY <1>0, <1>13 DEF PageLeave, PageTypes, Files
  <2>2. /\ page'.file = page.file /\ page'.list = page.list /\ page'.blanked = page.blanked
        /\ page'.sent = page.sent /\ page'.asked = page.asked /\ ~page'.timer
        /\ page'.atNode = page.atNode
    BY <1>0, <1>13 DEF PageLeave, PageTypes
  <2> QED BY <1>0, <2>1, <2>2 DEF PageInv, ShowsFile
<1>14. ASSUME NEW file \in Binaries, PagePick(file) PROVE PageInv' /\ Silent
  <2>1. PageTypes'
    BY <1>0, <1>14 DEF PagePick, PageTypes, Files
  <2>2. /\ page'.file = file /\ page'.list = file /\ page'.blanked = page.blanked
        /\ page'.sent = page.sent /\ page'.asked = page.asked /\ page'.timer = page.timer
        /\ page'.mounted = page.mounted /\ page'.atNode = page.atNode
    BY <1>0, <1>14 DEF PagePick, PageTypes
  <2> QED BY <1>0, <2>1, <2>2 DEF PageInv, ShowsFile
<1> QED BY <1>1, <1>2, <1>3, <1>4, <1>5, <1>6, <1>7, <1>8, <1>9, <1>10, <1>11, <1>12, <1>13, <1>14 DEF PageNext

-----------------------------------------------------------------------------
(* The survey of the radio (WifiPanel).                                     *)

Networks == Ssids \cup {None}
RadioStates ==
    [band : {"2.4", "5", "6"}, mounted : BOOLEAN, report : {None} \cup SUBSET Nat, current : Networks,
     loads : Nat, later : Nat, form : Nat, edits : Nat, saving : SUBSET Nat, asked : Nat,
     box : Networks, switching : Networks, switches : [1..MaxScans -> Networks],
     el : Nat, ref : Nat, alive : SUBSET Nat, made : Nat, bars : SUBSET Nat, emptied : BOOLEAN]

\* Bars are those of the last survey, of the chart that the variable names.
BarsAreOf(r) ==
    r.bars # {} =>
        /\ r.mounted /\ r.el = r.ref
        /\ r.report \in SUBSET Found(r.band) /\ r.report # {} /\ r.bars = Bars(r.band, r.report)
\* One chart, unless a survey without channels made one that no variable names.
OneChart(r) ==
    r.emptied \/
    /\ r.alive \subseteq {r.el} \ {0}
    /\ r.el # 0 => r.el = r.ref
    /\ ~r.mounted => r.alive = {}

RadioGood(r) == r \in RadioStates /\ BarsAreOf(r) /\ OneChart(r) /\ r.saving \subseteq {r.asked}
RadioInv == RadioGood(radio)

\* Channels are numbers.
LEMMA FoundChannels == \A band \in {"2.4", "5", "6"} : Found(band) \subseteq Nat
  BY DEF Found

\* So are those of the bars.
LEMMA BarsAreChannels ==
    ASSUME NEW band \in {"2.4", "5", "6"}, NEW present \in SUBSET Nat
    PROVE  Bars(band, present) \in SUBSET Nat
  BY DEF Bars

\* buildChart gives each channel found its bar, but for those RadioShown names.
LEMMA BarsShow ==
    ASSUME NEW band \in {"2.4", "5", "6"}, NEW present \in SUBSET Found(band), present # {}
    PROVE  /\ {ch \in present : ch # 14 /\ (band = "5" => ch <= 144)} \subseteq Bars(band, present)
           /\ band = "2.4" => 1..13 \subseteq Bars(band, present)
<1>1. CASE band = "2.4"
  BY <1>1 DEF Found, Bars
<1>2. CASE band = "5"
  <2>1. (36 - 36) % 4 = 0 /\ (100 - 36) % 4 = 0
    OBVIOUS
  <2> QED BY <1>2, <2>1 DEF Found, Bars
<1>3. CASE band = "6"
  <2>1. 1 % 2 = 1 /\ 37 % 2 = 1 /\ 233 % 2 = 1
    OBVIOUS
  <2> QED BY <1>3, <2>1 DEF Found, Bars
<1> QED BY <1>1, <1>2, <1>3

\* The panel starts without a chart.
LEMMA RadioStarts == RadioInit => RadioInv
<1> SUFFICES ASSUME RadioInit PROVE RadioInv
  OBVIOUS
<1>1. radio \in RadioStates
  BY DEF RadioInit, RadioStates, Networks
<1>2. radio.bars = {} /\ radio.alive = {} /\ radio.el = 0 /\ radio.saving = {}
  BY DEF RadioInit
<1> QED BY <1>1, <1>2 DEF RadioInv, RadioGood, BarsAreOf, OneChart

\* The properties of the panel follow.
LEMMA RadioHolds == RadioInv => RadioShown /\ RadioAsked /\ RadioGone
<1> SUFFICES ASSUME RadioInv PROVE RadioShown /\ RadioAsked /\ RadioGone
  OBVIOUS
<1>1. RadioShown
  <2>1. radio.band \in {"2.4", "5", "6"}
    BY DEF RadioInv, RadioGood, RadioStates
  <2> QED BY <2>1, BarsShow DEF RadioInv, RadioGood, BarsAreOf, RadioShown
<1>2. RadioAsked
  BY DEF RadioInv, RadioGood, RadioAsked
<1>3. RadioGone
  BY DEF RadioInv, RadioGood, OneChart, RadioGone
<1> QED BY <1>1, <1>2, <1>3

\* What a step leaves alone of what the invariant reads of the charts, and of the form.
SameCharts(r, k) ==
    /\ k.bars = r.bars /\ k.mounted = r.mounted /\ k.el = r.el /\ k.ref = r.ref
    /\ k.report = r.report /\ k.band = r.band /\ k.alive = r.alive /\ k.emptied = r.emptied
SameSave(r, k) == k.saving = r.saving /\ k.asked = r.asked
\* The invariant reads nothing else.
LEMMA RadioSame ==
    ASSUME NEW r, NEW k, RadioGood(r), k \in RadioStates, SameCharts(r, k), k.saving \subseteq {k.asked}
    PROVE  RadioGood(k)
BY DEF RadioGood, SameCharts, BarsAreOf, OneChart

\* The page that is left, with its chart disposed of.
LEMMA RadioDrops ==
    ASSUME NEW r, RadioGood(r)
    PROVE  RadioGood([DropChart(r) EXCEPT !.mounted = FALSE])
<1> DEFINE k == [DropChart(r) EXCEPT !.mounted = FALSE]
           alive == r.alive \ {r.ref}
           el == IF r.el = r.ref THEN 0 ELSE r.el
           bars == IF r.el = r.ref THEN {} ELSE r.bars
<1>1. alive \in SUBSET Nat /\ el \in Nat /\ bars \in SUBSET Nat
  BY DEF RadioGood, RadioStates
<1>2. k = [r EXCEPT !.alive = alive, !.el = el, !.bars = bars, !.mounted = FALSE]
  BY DEF RadioGood, RadioStates, DropChart, Dispose
<1>3. bars = {} /\ (~r.emptied => alive = {})
  BY DEF RadioGood, BarsAreOf, OneChart
<1>4. el = 0 \/ (el = r.el /\ r.el # r.ref)
  OBVIOUS
<1> HIDE DEF k, alive, el, bars
<1>5. k \in RadioStates
  BY <1>1, <1>2 DEF RadioGood, RadioStates
<1>6. /\ k.bars = bars /\ k.el = el /\ k.ref = r.ref /\ k.alive = alive /\ k.emptied = r.emptied
      /\ k.saving = r.saving /\ k.asked = r.asked
  BY <1>2 DEF RadioGood, RadioStates
<1>7. BarsAreOf(k)
  BY <1>3, <1>6 DEF BarsAreOf
<1>8. OneChart(k)
  BY <1>3, <1>4, <1>6 DEF RadioGood, OneChart
<1> QED BY <1>5, <1>6, <1>7, <1>8 DEF RadioGood, k

\* drawCharts, once the report is the survey's.
LEMMA RadioDraws ==
    ASSUME NEW r, r \in RadioStates, NEW present \in SUBSET Found(r.band), r.report = present,
           OneChart(r), r.saving \subseteq {r.asked}, r.mounted \/ r.bars = {}
    PROVE  RadioGood(Draw(r, present))
<1>0. /\ r.band \in {"2.4", "5", "6"} /\ present \in SUBSET Nat
      /\ r.made \in Nat /\ r.el \in Nat /\ r.ref \in Nat /\ r.alive \in SUBSET Nat /\ r.bars \in SUBSET Nat
  BY FoundChannels DEF RadioStates
<1>1. CASE ~r.mounted
  <2>1. Draw(r, present) = r /\ r.bars = {}
    BY <1>1 DEF Draw
  <2> QED BY <2>1 DEF RadioGood, BarsAreOf
<1>2. CASE r.mounted
  <2> DEFINE bars == Bars(r.band, present)
             el == IF r.el # 0 THEN r.el ELSE r.made + 1
             made == IF r.el # 0 THEN r.made ELSE r.made + 1
             alive == IF r.el # 0 THEN r.alive ELSE r.alive \cup {r.made + 1}
             c == [r EXCEPT !.made = made, !.el = el, !.alive = alive, !.bars = bars]
  <2>1. bars \in SUBSET Nat /\ el \in Nat /\ made \in Nat /\ alive \in SUBSET Nat
    BY <1>0, BarsAreChannels
  <2>2. c = IF r.el # 0 THEN [r EXCEPT !.bars = Bars(r.band, present)]
            ELSE [r EXCEPT !.made = @ + 1, !.el = r.made + 1, !.alive = @ \cup {r.made + 1},
                           !.bars = Bars(r.band, present)]
    <3>1. CASE r.el # 0
      BY <3>1 DEF RadioStates
    <3>2. CASE r.el = 0
      BY <3>2 DEF RadioStates
    <3> QED BY <3>1, <3>2
  <2>3. Draw(r, present) = IF present = {} THEN [c EXCEPT !.emptied = TRUE]
                           ELSE [Dispose(c, r.ref) EXCEPT !.ref = c.el]
    <3> DEFINE e == IF r.el # 0 THEN [r EXCEPT !.bars = Bars(r.band, present)]
                    ELSE [r EXCEPT !.made = @ + 1, !.el = r.made + 1, !.alive = @ \cup {r.made + 1},
                                   !.bars = Bars(r.band, present)]
    <3>1. Draw(r, present) = IF ~r.mounted THEN r
                             ELSE IF present = {} THEN [e EXCEPT !.emptied = TRUE]
                             ELSE [Dispose(e, r.ref) EXCEPT !.ref = e.el]
      BY DEF Draw
    <3> HIDE DEF e, c
    <3>2. c = e
      BY <2>2 DEF e
    <3> QED BY <1>2, <3>1, <3>2
  <2>4. (r.emptied \/ alive \subseteq {el}) /\ el # 0
    BY <1>0 DEF OneChart
  <2>5. present = {} => bars = {}
    BY DEF Bars
  <2>6. bars = Bars(r.band, present) /\ (el = r.el \/ r.el = 0)
    OBVIOUS
  <2>7. r.emptied \/ r.el = 0 \/ r.el = r.ref
    BY DEF OneChart
  <2>8. c \in RadioStates
    <3> HIDE DEF bars, el, made, alive
    <3> QED BY <2>1 DEF RadioStates
  <2>9. CASE present = {}
    <3> DEFINE k == [c EXCEPT !.emptied = TRUE]
    <3> HIDE DEF bars, el, made, alive
    <3>1. k \in RadioStates
      BY <2>8 DEF RadioStates
    <3>2. k.bars = bars /\ k.emptied /\ k.saving = r.saving /\ k.asked = r.asked
      BY <2>1 DEF RadioStates
    <3> HIDE DEF k
    <3>3. RadioGood(k)
      BY <2>5, <2>9, <3>1, <3>2 DEF RadioGood, BarsAreOf, OneChart
    <3> QED BY <2>3, <2>9, <3>3 DEF k
  <2>10. CASE present # {}
    <3> DEFINE k == [Dispose(c, r.ref) EXCEPT !.ref = c.el]
               alive2 == alive \ {r.ref}
               el2 == IF el = r.ref THEN 0 ELSE el
               bars2 == IF el = r.ref THEN {} ELSE bars
    <3>1. alive2 \in SUBSET Nat /\ el2 \in Nat /\ bars2 \in SUBSET Nat
      BY <2>1
    <3>2. (r.emptied \/ alive2 \subseteq {el2} \ {0}) /\ (el2 # 0 => el2 = el)
          /\ (bars2 # {} => bars2 = bars /\ el2 = el)
      BY <2>4
    <3> HIDE DEF bars, el, made, alive
    <3>3. c.alive = alive /\ c.el = el /\ c.bars = bars
      BY DEF RadioStates
    <3>4. k = [c EXCEPT !.alive = alive2, !.el = el2, !.bars = bars2, !.ref = el]
      BY <2>8, <3>3 DEF Dispose, RadioStates
    <3> HIDE DEF alive2, el2, bars2, k
    <3>5. k \in RadioStates
      <4> HIDE DEF c
      <4> QED BY <2>1, <2>8, <3>1, <3>4 DEF RadioStates
    <3>6. /\ k.bars = bars2 /\ k.el = el2 /\ k.ref = el /\ k.alive = alive2 /\ k.emptied = r.emptied
          /\ k.saving = r.saving /\ k.asked = r.asked /\ k.mounted = r.mounted
          /\ k.band = r.band /\ k.report = r.report
      BY <3>4 DEF RadioStates
    <3> HIDE DEF c
    <3>7. BarsAreOf(k)
      BY <1>2, <2>6, <2>10, <3>2, <3>6 DEF BarsAreOf
    <3>8. OneChart(k)
      BY <1>2, <3>2, <3>6 DEF OneChart
    <3>9. RadioGood(k)
      BY <3>5, <3>6, <3>7, <3>8 DEF RadioGood
    <3> QED BY <2>3, <2>10, <3>9 DEF k
  <2> QED BY <2>9, <2>10
<1> QED BY <1>1, <1>2 DEF RadioStates

\* Every step of the panel keeps the invariant.
LEMMA RadioKeeps == RadioInv /\ RadioNext => RadioInv'
<1> SUFFICES ASSUME RadioInv, RadioNext PROVE RadioGood(radio')
  BY DEF RadioInv
<1>0. RadioGood(radio) /\ radio \in RadioStates /\ radio.saving \subseteq {radio.asked}
  BY DEF RadioInv, RadioGood
<1>1. CASE RadioTick
  <2>0. radio.loads + 1 \in Nat /\ radio' = [radio EXCEPT !.loads = radio.loads + 1]
    BY <1>0, <1>1 DEF RadioTick, RadioStates
  <2>1. radio' \in RadioStates
    BY <1>0, <2>0 DEF RadioStates
  <2>2. SameCharts(radio, radio') /\ SameSave(radio, radio')
    BY <1>0, <1>1 DEF RadioTick, RadioStates, SameCharts, SameSave
  <2> QED BY <1>0, <2>1, <2>2, RadioSame DEF SameSave
<1>2. CASE RadioTimeout
  <2>0. radio.later - 1 \in Nat /\ radio.loads + 1 \in Nat
    BY <1>0, <1>2 DEF RadioTimeout, RadioStates
  <2>1. radio' = [radio EXCEPT !.later = radio.later - 1, !.loads = radio.loads + 1]
    BY <1>0, <1>2 DEF RadioTimeout, RadioStates
  <2>2. radio' \in RadioStates
    BY <1>0, <2>0, <2>1 DEF RadioStates
  <2>3. SameCharts(radio, radio') /\ SameSave(radio, radio')
    BY <1>0, <1>2 DEF RadioTimeout, RadioStates, SameCharts, SameSave
  <2> QED BY <1>0, <2>2, <2>3, RadioSame DEF SameSave
<1>3. CASE RadioSurveyed
  <2>0. radio.loads > 0
    BY <1>3 DEF RadioSurveyed
  <2>1. radio.loads - 1 \in Nat
    BY <1>0, <2>0 DEF RadioStates
  <2>2. CASE radio' = [radio EXCEPT !.loads = @ - 1]
    <3>1. radio' \in RadioStates
      BY <1>0, <2>1, <2>2 DEF RadioStates
    <3>2. SameCharts(radio, radio') /\ SameSave(radio, radio')
      BY <1>0, <2>2 DEF RadioStates, SameCharts, SameSave
    <3> QED BY <1>0, <3>1, <3>2, RadioSame DEF SameSave
  <2>3. ASSUME NEW present \in SUBSET Found(radio.band), NEW ssid \in Networks,
               radio' = Draw([radio EXCEPT !.loads = @ - 1, !.report = present,
                                           !.current = ssid, !.form = 0], present)
        PROVE  RadioGood(radio')
    <3> DEFINE r == [radio EXCEPT !.loads = @ - 1, !.report = present, !.current = ssid, !.form = 0]
    <3>1. present \in SUBSET Nat
      BY <1>0, FoundChannels DEF RadioStates
    <3>2. r \in RadioStates
      BY <1>0, <2>1, <3>1 DEF RadioStates
    <3>3. /\ r.bars = radio.bars /\ r.mounted = radio.mounted /\ r.el = radio.el /\ r.ref = radio.ref
          /\ r.report = present /\ r.band = radio.band /\ r.alive = radio.alive
          /\ r.emptied = radio.emptied /\ r.saving = radio.saving /\ r.asked = radio.asked
      BY <1>0 DEF RadioStates
    <3>4. radio' = Draw(r, present)
      BY <2>3
    <3> HIDE DEF r
    <3>5. OneChart(r) /\ (r.mounted \/ r.bars = {})
      BY <1>0, <3>3 DEF RadioGood, OneChart, BarsAreOf
    <3>6. RadioGood(Draw(r, present))
      BY <1>0, <3>2, <3>3, <3>5, RadioDraws
    <3> QED BY <3>4, <3>6
  <2> QED BY <1>3, <2>2, <2>3 DEF RadioSurveyed, Networks
<1>4. CASE RadioEdit
  <2>0. radio.edits + 1 \in Nat /\ radio' = [radio EXCEPT !.edits = radio.edits + 1, !.form = radio.edits + 1]
    BY <1>0, <1>4 DEF RadioEdit, RadioStates
  <2>1. radio' \in RadioStates
    BY <1>0, <2>0 DEF RadioStates
  <2>2. SameCharts(radio, radio') /\ SameSave(radio, radio')
    BY <1>0, <1>4 DEF RadioEdit, RadioStates, SameCharts, SameSave
  <2> QED BY <1>0, <2>1, <2>2, RadioSame DEF SameSave
<1>5. CASE RadioSave
  <2>1. radio' = [radio EXCEPT !.saving = @ \cup {radio.form}, !.asked = radio.form] /\ radio.saving = {}
    BY <1>5 DEF RadioSave, NotSaving
  <2>2. radio' \in RadioStates
    BY <1>0, <2>1 DEF RadioStates
  <2>3. SameCharts(radio, radio') /\ radio'.saving \subseteq {radio'.asked}
    BY <1>0, <2>1 DEF RadioStates, SameCharts
  <2> QED BY <1>0, <2>2, <2>3, RadioSame
<1>6. CASE RadioSaved
  <2>1. PICK later \in Nat : radio' = [radio EXCEPT !.saving = {}, !.later = later]
    <3>1. PICK ok \in BOOLEAN :
            radio' = [radio EXCEPT !.saving = {}, !.later = IF ok THEN @ + 1 ELSE @]
      BY <1>6 DEF RadioSaved
    <3> DEFINE later == IF ok THEN radio.later + 1 ELSE radio.later
    <3>2. later \in Nat
      BY <1>0 DEF RadioStates
    <3>3. radio' = [radio EXCEPT !.saving = {}, !.later = later]
      BY <1>0, <3>1 DEF RadioStates
    <3> HIDE DEF later
    <3> QED BY <3>2, <3>3
  <2>2. radio' \in RadioStates
    BY <1>0, <2>1 DEF RadioStates
  <2>3. SameCharts(radio, radio') /\ radio'.saving \subseteq {radio'.asked}
    BY <1>0, <2>1 DEF RadioStates, SameCharts
  <2> QED BY <1>0, <2>2, <2>3, RadioSame
<1>7. CASE RadioConfirm
  <2>1. PICK i \in 1..MaxScans :
          radio' = [radio EXCEPT !.box = None, !.switching = radio.box, !.switches[i] = radio.box]
    BY <1>7 DEF RadioConfirm
  <2>2. [radio.switches EXCEPT ![i] = radio.box] \in [1..MaxScans -> Networks]
    BY <1>0 DEF RadioStates
  <2>3. radio' = [radio EXCEPT !.box = None, !.switching = radio.box,
                               !.switches = [radio.switches EXCEPT ![i] = radio.box]]
    BY <1>0, <2>1 DEF RadioStates
  <2>4. radio' \in RadioStates
    BY <1>0, <2>2, <2>3 DEF RadioStates, Networks
  <2>5. SameCharts(radio, radio') /\ SameSave(radio, radio')
    BY <1>0, <2>3 DEF RadioStates, SameCharts, SameSave
  <2> QED BY <1>0, <2>4, <2>5, RadioSame DEF SameSave
<1>8. CASE RadioLeave
  BY <1>0, <1>8, RadioDrops DEF RadioLeave
<1>9. ASSUME NEW s \in Ssids, RadioPress(s) PROVE RadioGood(radio')
  <2>1. radio' \in RadioStates
    BY <1>0, <1>9 DEF RadioPress, RadioStates, Networks
  <2>2. SameCharts(radio, radio') /\ SameSave(radio, radio')
    BY <1>0, <1>9 DEF RadioPress, RadioStates, SameCharts, SameSave
  <2> QED BY <1>0, <2>1, <2>2, RadioSame DEF SameSave
<1>10. ASSUME NEW i \in 1..MaxScans, RadioSwitched(i) PROVE RadioGood(radio')
  <2>1. PICK later \in Nat :
          radio' = [radio EXCEPT !.switches[i] = None, !.switching = None, !.later = later]
    <3>1. PICK ok \in BOOLEAN :
            radio' = [radio EXCEPT !.switches[i] = None, !.switching = None,
                                   !.later = IF ok THEN @ + 1 ELSE @]
      BY <1>10 DEF RadioSwitched
    <3> DEFINE later == IF ok THEN radio.later + 1 ELSE radio.later
    <3>2. later \in Nat
      BY <1>0 DEF RadioStates
    <3>3. radio' = [radio EXCEPT !.switches[i] = None, !.switching = None, !.later = later]
      BY <1>0, <3>1 DEF RadioStates
    <3> HIDE DEF later
    <3> QED BY <3>2, <3>3
  <2>2. [radio.switches EXCEPT ![i] = None] \in [1..MaxScans -> Networks]
    BY <1>0 DEF RadioStates, Networks
  <2>3. radio' = [radio EXCEPT !.switches = [radio.switches EXCEPT ![i] = None],
                               !.switching = None, !.later = later]
    BY <1>0, <2>1 DEF RadioStates
  <2>4. radio' \in RadioStates
    BY <1>0, <2>2, <2>3 DEF RadioStates, Networks
  <2>5. SameCharts(radio, radio') /\ SameSave(radio, radio')
    BY <1>0, <2>3 DEF RadioStates, SameCharts, SameSave
  <2> QED BY <1>0, <2>4, <2>5, RadioSame DEF SameSave
<1> QED BY <1>1, <1>2, <1>3, <1>4, <1>5, <1>6, <1>7, <1>8, <1>9, <1>10 DEF RadioNext

-----------------------------------------------------------------------------
(* The network of a node (NetworkPanel).                                    *)

Pingable == Hosts \cup {None}
Sent ==
    [kind : {"probe", "wifi_scan", "ping", "other"}, of : Pingable, step : 1..ProbeSteps,
     via : {"server", "relay"}, fresh : BOOLEAN, runs : Nat]
Commands == {None} \cup Sent
NetStates ==
    [running : {None, "probe", "wifi_scan"}, status : {"hint", "probing", "text"}, listed : BOOLEAN,
     prompt : BOOLEAN, pingHost : Pingable, pinged : Pingable, out : Pingable \cup {"pinging"},
     crossed : BOOLEAN, calls : [1..MaxCalls -> Commands]]

IsBusy(c) == c # None /\ c.kind \in {"probe", "wifi_scan"}
IsPing(c) == c # None /\ c.kind = "ping"

\* A command that waits for the agent was run once less than the ways it went.
Frugal(c) ==
    c # None => /\ c.runs <= IF c.via = "relay" THEN 2 ELSE 1
                /\ c.fresh => c.runs <= IF c.via = "relay" THEN 1 ELSE 0
OneBusy(n) ==
    /\ \A i, j \in 1..MaxCalls : IsBusy(n.calls[i]) /\ IsBusy(n.calls[j]) => i = j
    /\ \A i \in 1..MaxCalls : IsBusy(n.calls[i]) => n.running # None
\* Every ping under way, and the output, is of the host asked for last.
LastPing(n) ==
    n.crossed \/
    /\ \A i \in 1..MaxCalls : IsPing(n.calls[i]) => n.calls[i].of = n.pinged
    /\ n.pinged # None => n.out \in {"pinging", n.pinged}

NetGood(n) ==
    /\ n \in NetStates /\ OneBusy(n) /\ LastPing(n)
    /\ \A i \in 1..MaxCalls : Frugal(n.calls[i])
NetInv == NetGood(net)

\* The panel starts without a command.
LEMMA NetStarts == NetInit => NetInv
<1> SUFFICES ASSUME NetInit PROVE NetInv
  OBVIOUS
<1>1. net \in NetStates
  BY DEF NetInit, NetStates, Pingable, Commands, Sent
<1>2. net.pinged = None /\ \A i \in 1..MaxCalls : net.calls[i] = None
  BY DEF NetInit
<1> QED BY <1>1, <1>2 DEF NetInv, NetGood, OneBusy, LastPing, Frugal, IsBusy, IsPing

\* The properties of the panel follow.
LEMMA NetHolds == NetInv => NetShown /\ NetAsked
<1> SUFFICES ASSUME NetInv PROVE NetShown /\ NetAsked
  OBVIOUS
<1>1. NetShown
  BY DEF NetInv, NetGood, LastPing, NetShown
<1>2. Cardinality(Running("probe") \cup Running("wifi_scan")) <= 1
  <2> DEFINE busy == Running("probe") \cup Running("wifi_scan")
  <2>1. \A i \in busy : i \in 1..MaxCalls /\ IsBusy(net.calls[i])
    BY DEF Running, IsBusy
  <2>2. \A i, j \in busy : i = j
    BY <2>1 DEF NetInv, NetGood, OneBusy
  <2> HIDE DEF busy
  <2>3. CASE busy = {}
    BY <2>3, FS_EmptySet DEF busy
  <2>4. CASE busy # {}
    <3>1. PICK i \in busy : TRUE
      BY <2>4
    <3>2. busy = {i}
      BY <2>2
    <3>3. Cardinality({i}) = 1
      BY FS_Singleton
    <3> QED BY <3>2, <3>3 DEF busy
  <2> QED BY <2>3, <2>4
<1>3. \A i \in 1..MaxCalls : net.calls[i] # None =>
          net.calls[i].runs <= IF net.calls[i].via = "relay" THEN 2 ELSE 1
  BY DEF NetInv, NetGood, Frugal
<1> QED BY <1>1, <1>2, <1>3 DEF NetAsked

\* The invariant reads nothing else.
LEMMA NetSame ==
    ASSUME NEW n, NEW k, NetGood(n), k \in NetStates,
           k.calls = n.calls /\ k.running = n.running /\ k.pinged = n.pinged /\ k.out = n.out
             /\ k.crossed = n.crossed
    PROVE  NetGood(k)
BY DEF NetGood, OneBusy, LastPing

\* One call is made, changed or settled, in a panel m that is otherwise as it will be.
LEMMA NetCalls ==
    ASSUME NetGood(net), NEW i \in 1..MaxCalls, NEW c \in Commands, NEW m \in NetStates,
           m.calls = net.calls, Frugal(c),
           IsBusy(c) => m.running # None /\ (IsBusy(net.calls[i]) \/ net.running = None),
           m.running = net.running \/ m.running # None \/ IsBusy(net.calls[i]),
           m.crossed \/ /\ IsPing(c) => c.of = m.pinged
                        /\ \A j \in 1..MaxCalls :
                             j # i /\ IsPing(net.calls[j]) => net.calls[j].of = m.pinged
                        /\ m.pinged # None => m.out \in {"pinging", m.pinged}
    PROVE  NetGood([m EXCEPT !.calls[i] = c])
<1> DEFINE calls == [m.calls EXCEPT ![i] = c]
           k == [m EXCEPT !.calls = calls]
<1>1. [m EXCEPT !.calls[i] = c] = k
  BY DEF NetStates
<1>2. calls \in [1..MaxCalls -> Commands]
  BY DEF NetStates
<1>3. \A j \in 1..MaxCalls : calls[j] = IF j = i THEN c ELSE net.calls[j]
  BY DEF NetStates
<1> HIDE DEF calls
<1>4. k \in NetStates
  BY <1>2 DEF NetStates
<1>5. /\ k.calls = calls /\ k.running = m.running /\ k.pinged = m.pinged /\ k.out = m.out
      /\ k.crossed = m.crossed
  BY DEF NetStates
<1> HIDE DEF k
<1>6. OneBusy(k)
  <2>1. ASSUME NEW j \in 1..MaxCalls, IsBusy(calls[j]) PROVE m.running # None
    BY <1>3, <2>1 DEF NetGood, OneBusy
  <2>2. ASSUME NEW j \in 1..MaxCalls, NEW l \in 1..MaxCalls, IsBusy(calls[j]), IsBusy(calls[l])
        PROVE  j = l
    BY <1>3, <2>2 DEF NetGood, OneBusy
  <2> QED BY <1>5, <2>1, <2>2 DEF OneBusy
<1>7. LastPing(k)
  BY <1>3, <1>5 DEF LastPing
<1>8. \A j \in 1..MaxCalls : Frugal(k.calls[j])
  BY <1>3, <1>5 DEF NetGood
<1> QED BY <1>1, <1>4, <1>6, <1>7, <1>8 DEF NetGood

\* A command that is sent has not been run.
LEMMA NewCalls ==
    ASSUME NEW kind \in {"probe", "wifi_scan", "ping", "other"}, NEW of \in Pingable
    PROVE  /\ Call(kind, of) \in Commands /\ Frugal(Call(kind, of))
           /\ IsBusy(Call(kind, of)) => kind \in {"probe", "wifi_scan"}
           /\ IsPing(Call(kind, of)) => kind = "ping" /\ Call(kind, of).of = of
BY DEF Call, Commands, Sent, Frugal, IsBusy, IsPing, ProbeSteps

\* A command whose answer only makes a message is sent.
LEMMA NetSends ==
    ASSUME NetGood(net), NEW prompt \in BOOLEAN,
           Send([net EXCEPT !.prompt = prompt], Call("other", None))
    PROVE  NetGood(net')
<1> DEFINE m == [net EXCEPT !.prompt = prompt]
<1>1. /\ m \in NetStates /\ m.calls = net.calls /\ m.running = net.running
      /\ m.crossed = net.crossed /\ m.pinged = net.pinged /\ m.out = net.out
  BY DEF NetGood, NetStates
<1>2. PICK i \in 1..MaxCalls : net' = [m EXCEPT !.calls[i] = Call("other", None)]
  BY DEF Send
<1> HIDE DEF m
<1>3. /\ Call("other", None) \in Commands /\ Frugal(Call("other", None))
      /\ ~IsBusy(Call("other", None)) /\ ~IsPing(Call("other", None))
  BY NewCalls DEF Pingable
<1>4. m.crossed \/ /\ \A j \in 1..MaxCalls : IsPing(net.calls[j]) => net.calls[j].of = m.pinged
                   /\ m.pinged # None => m.out \in {"pinging", m.pinged}
  BY <1>1 DEF NetGood, LastPing
<1>5. NetGood([m EXCEPT !.calls[i] = Call("other", None)])
  BY <1>1, <1>3, <1>4, NetCalls
<1> QED BY <1>2, <1>5

\* Every step of the panel keeps the invariant.
LEMMA NetKeeps == NetInv /\ NetNext => NetInv'
<1> SUFFICES ASSUME NetInv, NetNext PROVE NetGood(net')
  BY DEF NetInv
<1>0. NetGood(net) /\ net \in NetStates /\ net.prompt \in BOOLEAN
  BY DEF NetInv, NetGood, NetStates
<1>a. net = [net EXCEPT !.prompt = net.prompt]
  BY <1>0 DEF NetStates
<1>b. net.crossed \/ /\ \A j \in 1..MaxCalls : IsPing(net.calls[j]) => net.calls[j].of = net.pinged
                     /\ net.pinged # None => net.out \in {"pinging", net.pinged}
  BY <1>0 DEF NetGood, LastPing
<1>1. CASE NetProbe
  <2> DEFINE m == [net EXCEPT !.running = "probe", !.status = "probing"]
  <2>1. /\ m \in NetStates /\ m.calls = net.calls /\ m.running = "probe"
        /\ m.crossed = net.crossed /\ m.pinged = net.pinged /\ m.out = net.out
    BY <1>0 DEF NetStates
  <2>2. PICK i \in 1..MaxCalls : net' = [m EXCEPT !.calls[i] = Call("probe", None)]
    BY <1>1 DEF NetProbe, Send
  <2> HIDE DEF m
  <2>3. net.running = None
    BY <1>1 DEF NetProbe, NoneRuns
  <2>4. /\ Call("probe", None) \in Commands /\ Frugal(Call("probe", None)) /\ ~IsPing(Call("probe", None))
    BY NewCalls DEF Pingable
  <2>5. NetGood([m EXCEPT !.calls[i] = Call("probe", None)])
    BY <1>0, <1>b, <2>1, <2>3, <2>4, CallsAssumption, NetCalls
  <2> QED BY <2>2, <2>5
<1>2. CASE NetScan
  <2> DEFINE m == [net EXCEPT !.running = "wifi_scan"]
  <2>1. /\ m \in NetStates /\ m.calls = net.calls /\ m.running = "wifi_scan"
        /\ m.crossed = net.crossed /\ m.pinged = net.pinged /\ m.out = net.out
    BY <1>0 DEF NetStates
  <2>2. PICK i \in 1..MaxCalls : net' = [m EXCEPT !.calls[i] = Call("wifi_scan", None)]
    BY <1>2 DEF NetScan, Send
  <2> HIDE DEF m
  <2>3. net.running = None
    BY <1>2 DEF NetScan, NoneRuns
  <2>4. /\ Call("wifi_scan", None) \in Commands /\ Frugal(Call("wifi_scan", None))
        /\ ~IsPing(Call("wifi_scan", None))
    BY NewCalls DEF Pingable
  <2>5. NetGood([m EXCEPT !.calls[i] = Call("wifi_scan", None)])
    BY <1>0, <1>b, <2>1, <2>3, <2>4, CallsAssumption, NetCalls
  <2> QED BY <2>2, <2>5
<1>3. CASE NetPrompted
  <2>1. CASE net' = [net EXCEPT !.prompt = FALSE]
    <3>1. /\ net' \in NetStates /\ net'.calls = net.calls /\ net'.running = net.running
          /\ net'.pinged = net.pinged /\ net'.out = net.out /\ net'.crossed = net.crossed
      BY <1>0, <2>1 DEF NetStates
    <3> QED BY <1>0, <3>1, NetSame
  <2> QED BY <1>0, <1>3, <2>1, NetSends DEF NetPrompted
<1>4. CASE NetApply \/ NetVirtualMac \/ NetSpeedtest
  <2>1. Send(net, Call("other", None))
    BY <1>4 DEF NetApply, NetVirtualMac, NetSpeedtest
  <2>2. Send([net EXCEPT !.prompt = net.prompt], Call("other", None))
    BY <1>a, <2>1
  <2> QED BY <1>0, <2>2, NetSends
<1>5. CASE NetPing
  <2> DEFINE host == net.pingHost
             cross == Running("ping") # {} /\ (net.crossed \/ net.pinged # host)
             m == [net EXCEPT !.out = "pinging", !.pinged = host, !.crossed = cross]
  <2>1. host \in Pingable /\ cross \in BOOLEAN
    BY <1>0 DEF NetStates
  <2>2. cross \/ \A j \in 1..MaxCalls : IsPing(net.calls[j]) => net.calls[j].of = host
    BY <1>b DEF Running, IsPing
  <2>3. PICK i \in 1..MaxCalls : net' = [m EXCEPT !.calls[i] = Call("ping", host)]
    <3>1. m = [net EXCEPT !.out = "pinging", !.pinged = net.pingHost,
                          !.crossed = Running("ping") # {} /\ (@ \/ net.pinged # net.pingHost)]
      BY <1>0 DEF NetStates
    <3> HIDE DEF m
    <3> QED BY <1>5, <3>1 DEF NetPing, Send
  <2> HIDE DEF host, cross
  <2>4. /\ m \in NetStates /\ m.calls = net.calls /\ m.running = net.running
        /\ m.crossed = cross /\ m.pinged = host /\ m.out = "pinging"
    BY <1>0, <2>1 DEF NetStates
  <2> HIDE DEF m
  <2>5. /\ Call("ping", host) \in Commands /\ Frugal(Call("ping", host))
        /\ ~IsBusy(Call("ping", host)) /\ (IsPing(Call("ping", host)) => Call("ping", host).of = host)
    BY <2>1, NewCalls
  <2>6. NetGood([m EXCEPT !.calls[i] = Call("ping", host)])
    BY <1>0, <2>2, <2>4, <2>5, NetCalls
  <2> QED BY <2>3, <2>6
<1>6. ASSUME NEW open \in BOOLEAN, NetConnect(open) PROVE NetGood(net')
  <2>1. CASE open
    <3>1. Send([net EXCEPT !.prompt = net.prompt], Call("other", None))
      BY <1>6, <1>a, <2>1 DEF NetConnect
    <3> QED BY <1>0, <3>1, NetSends
  <2>2. CASE ~open
    <3>1. net' = [net EXCEPT !.prompt = TRUE]
      BY <1>6, <2>2 DEF NetConnect
    <3>2. /\ net' \in NetStates /\ net'.calls = net.calls /\ net'.running = net.running
          /\ net'.pinged = net.pinged /\ net'.out = net.out /\ net'.crossed = net.crossed
      BY <1>0, <3>1 DEF NetStates
    <3> QED BY <1>0, <3>2, NetSame
  <2> QED BY <2>1, <2>2
<1>7. ASSUME NEW h \in Hosts, NetType(h) PROVE NetGood(net')
  <2>1. /\ net' \in NetStates /\ net'.calls = net.calls /\ net'.running = net.running
        /\ net'.pinged = net.pinged /\ net'.out = net.out /\ net'.crossed = net.crossed
    BY <1>0, <1>7 DEF NetType, NetStates, Pingable
  <2> QED BY <1>0, <2>1, NetSame
<1>8. ASSUME NEW i \in 1..MaxCalls, net.calls[i] # None, AgentRuns(i) \/ NetAnswered(i) \/ NetFailed(i)
      PROVE NetGood(net')
  <2> DEFINE call == net.calls[i]
  <2>1. /\ call \in Commands /\ call # None /\ Frugal(call)
        /\ IsBusy(call) => net.running # None
        /\ IsPing(call) => net.crossed \/ call.of = net.pinged
    BY <1>0, <1>8 DEF NetGood, NetStates, OneBusy, LastPing
  <2>2. None \in Commands /\ Frugal(None) /\ ~IsBusy(None) /\ ~IsPing(None)
    BY DEF Commands, Sent, Frugal, IsBusy, IsPing
  <2>3. ASSUME AgentRuns(i) PROVE NetGood(net')
    <3> DEFINE c == [call EXCEPT !.fresh = FALSE, !.runs = call.runs + 1]
    <3>1. call.fresh /\ net' = [net EXCEPT !.calls[i] = c]
      <4>1. call.fresh /\ net' = [net EXCEPT !.calls[i].fresh = FALSE, !.calls[i].runs = @ + 1]
        BY <2>3 DEF AgentRuns
      <4>2. net' = [net EXCEPT !.calls = [net.calls EXCEPT ![i] = c]]
        BY <1>0, <2>1, <4>1 DEF NetStates, Commands, Sent
      <4> HIDE DEF c
      <4> QED BY <1>0, <4>1, <4>2 DEF NetStates
    <3>0. call.runs + 1 \in Nat
      BY <2>1 DEF Commands, Sent
    <3>2. c \in Commands /\ c.kind = call.kind /\ c.of = call.of
      BY <2>1, <3>0 DEF Commands, Sent
    <3>3. Frugal(c)
      BY <2>1, <3>1 DEF Frugal, Commands, Sent
    <3> HIDE DEF c
    <3>4. (IsBusy(c) => IsBusy(call)) /\ (IsPing(c) => IsPing(call))
      BY <2>1, <3>2 DEF IsBusy, IsPing
    <3>5. NetGood([net EXCEPT !.calls[i] = c])
      BY <1>0, <1>b, <2>1, <3>2, <3>3, <3>4, NetCalls
    <3> QED BY <3>1, <3>5
  <2>4. ASSUME NetAnswered(i) PROVE NetGood(net')
    <3>1. CASE call.kind = "probe" /\ call.step < ProbeSteps
      <4> DEFINE c == NextOfProbe(call)
      <4>1. net' = [net EXCEPT !.calls[i] = c]
        BY <2>4, <3>1 DEF NetAnswered, ProbeSteps
      <4>2. c \in Commands /\ Frugal(c) /\ ~IsPing(c)
        <5> DEFINE first == Call("probe", None)
        <5>1. call.step + 1 \in 1..ProbeSteps
          BY <2>1, <3>1 DEF Commands, Sent, ProbeSteps
        <5>2. first \in Sent /\ first.kind = "probe" /\ first.via = "server" /\ first.runs = 0
          BY DEF Call, Sent, Pingable, ProbeSteps
        <5>3. c = [first EXCEPT !.step = call.step + 1]
          BY DEF NextOfProbe
        <5> HIDE DEF first, c
        <5>4. c \in Sent /\ c.kind = "probe" /\ c.via = "server" /\ c.runs = 0
          BY <5>1, <5>2, <5>3 DEF Sent
        <5> QED BY <5>4 DEF Commands, Frugal, IsPing
      <4>3. IsBusy(call)
        BY <2>1, <3>1 DEF IsBusy
      <4> HIDE DEF c
      <4>4. NetGood([net EXCEPT !.calls[i] = c])
        BY <1>0, <1>b, <2>1, <4>2, <4>3, NetCalls
      <4> QED BY <4>1, <4>4
    <3>2. ASSUME NEW m \in NetStates, net' = [m EXCEPT !.calls[i] = None], m.calls = net.calls,
                 m.running = net.running \/ IsBusy(call), m.pinged = net.pinged,
                 m.crossed = net.crossed, m.out = net.out \/ (IsPing(call) /\ m.out = call.of)
          PROVE  NetGood(net')
      BY <1>0, <1>b, <2>1, <2>2, <3>2, NetCalls
    <3>3. CASE call.kind = "probe" /\ call.step = ProbeSteps
      <4> DEFINE m == [net EXCEPT !.running = None, !.status = "text"]
      <4>1. net' = [Settled(i) EXCEPT !.running = None, !.status = "text"]
        BY <2>4, <3>3 DEF NetAnswered, ProbeSteps
      <4>2. net' = [m EXCEPT !.calls[i] = None]
        BY <1>0, <4>1 DEF Settled, NetStates
      <4>3. /\ m \in NetStates /\ m.calls = net.calls /\ m.pinged = net.pinged
            /\ m.crossed = net.crossed /\ m.out = net.out
        BY <1>0 DEF NetStates
      <4>4. IsBusy(call)
        BY <2>1, <3>3 DEF IsBusy
      <4> HIDE DEF m
      <4> QED BY <3>2, <4>2, <4>3, <4>4
    <3>4. CASE call.kind = "wifi_scan"
      <4>1. PICK some \in BOOLEAN : net' = [Settled(i) EXCEPT !.running = None, !.listed = some]
        BY <2>4, <3>4 DEF NetAnswered
      <4> DEFINE m == [net EXCEPT !.running = None, !.listed = some]
      <4>2. net' = [m EXCEPT !.calls[i] = None]
        BY <1>0, <4>1 DEF Settled, NetStates
      <4>3. /\ m \in NetStates /\ m.calls = net.calls /\ m.pinged = net.pinged
            /\ m.crossed = net.crossed /\ m.out = net.out
        BY <1>0 DEF NetStates
      <4>4. IsBusy(call)
        BY <2>1, <3>4 DEF IsBusy
      <4> HIDE DEF m
      <4> QED BY <3>2, <4>2, <4>3, <4>4
    <3>5. CASE call.kind = "ping"
      <4> DEFINE of == call.of
                 m == [net EXCEPT !.out = of]
      <4>1. net' = [Settled(i) EXCEPT !.out = of]
        BY <2>4, <3>5 DEF NetAnswered
      <4>2. of \in Pingable /\ IsPing(call)
        BY <2>1, <3>5 DEF Commands, Sent, IsPing
      <4> HIDE DEF of
      <4>3. net' = [m EXCEPT !.calls[i] = None]
        BY <1>0, <4>1 DEF Settled, NetStates
      <4>4. /\ m \in NetStates /\ m.calls = net.calls /\ m.running = net.running
            /\ m.pinged = net.pinged /\ m.crossed = net.crossed /\ m.out = of
        BY <1>0, <4>2 DEF NetStates
      <4> HIDE DEF m
      <4> QED BY <3>2, <4>2, <4>3, <4>4 DEF of
    <3>6. CASE call.kind = "other"
      <4>1. net' = [net EXCEPT !.calls[i] = None]
        BY <2>4, <3>6 DEF NetAnswered, Settled
      <4> QED BY <1>0, <3>2, <4>1
    <3>7. call.kind \in {"probe", "wifi_scan", "ping", "other"} /\ call.step \in 1..ProbeSteps
      BY <2>1 DEF Commands, Sent
    <3>8. call.step < ProbeSteps \/ call.step = ProbeSteps
      BY <3>7 DEF ProbeSteps
    <3> QED BY <3>1, <3>3, <3>4, <3>5, <3>6, <3>7, <3>8
  <2>5. ASSUME NetFailed(i) PROVE NetGood(net')
    <3>1. CASE call.via = "server" /\ net' = [net EXCEPT !.calls[i].via = "relay", !.calls[i].fresh = TRUE]
      <4> DEFINE c == [call EXCEPT !.via = "relay", !.fresh = TRUE]
      <4>1. net' = [net EXCEPT !.calls[i] = c]
        <5>1. net' = [net EXCEPT !.calls = [net.calls EXCEPT ![i] = c]]
          BY <1>0, <2>1, <3>1 DEF NetStates, Commands, Sent
        <5> HIDE DEF c
        <5> QED BY <1>0, <5>1 DEF NetStates
      <4>2. c \in Commands /\ c.kind = call.kind /\ c.of = call.of
        BY <2>1 DEF Commands, Sent
      <4>3. Frugal(c)
        BY <2>1, <3>1 DEF Frugal, Commands, Sent
      <4> HIDE DEF c
      <4>4. (IsBusy(c) => IsBusy(call)) /\ (IsPing(c) => IsPing(call))
        BY <2>1, <4>2 DEF IsBusy, IsPing
      <4>5. NetGood([net EXCEPT !.calls[i] = c])
        BY <1>0, <1>b, <2>1, <4>2, <4>3, <4>4, NetCalls
      <4> QED BY <4>1, <4>5
    <3>2. CASE net' = [Settled(i) EXCEPT !.running = IF call.kind \in {"probe", "wifi_scan"} THEN None ELSE @]
      <4> DEFINE running == IF call.kind \in {"probe", "wifi_scan"} THEN None ELSE net.running
                 m == [net EXCEPT !.running = running]
      <4>1. running \in {None, "probe", "wifi_scan"} /\ (running = net.running \/ IsBusy(call))
        BY <1>0, <2>1 DEF NetStates, IsBusy
      <4>2. net' = [m EXCEPT !.calls[i] = None]
        BY <1>0, <3>2 DEF Settled, NetStates
      <4> HIDE DEF running
      <4>3. /\ m \in NetStates /\ m.calls = net.calls /\ m.running = running
            /\ m.pinged = net.pinged /\ m.crossed = net.crossed /\ m.out = net.out
        BY <1>0, <4>1 DEF NetStates
      <4> HIDE DEF m
      <4>4. NetGood([m EXCEPT !.calls[i] = None])
        BY <1>0, <1>b, <2>1, <2>2, <4>1, <4>3, NetCalls
      <4> QED BY <4>2, <4>4
    <3> QED BY <2>5, <3>1, <3>2 DEF NetFailed
  <2> QED BY <1>8, <2>3, <2>4, <2>5
<1>9. ASSUME NEW i \in 1..MaxCalls, AgentRuns(i) \/ NetAnswered(i) \/ NetFailed(i) PROVE NetGood(net')
  BY <1>8, <1>9 DEF AgentRuns, NetAnswered, NetFailed
<1> QED BY <1>1, <1>2, <1>3, <1>4, <1>5, <1>6, <1>7, <1>9 DEF NetNext

-----------------------------------------------------------------------------
(* The VPN jumps (VpnPages).                                                *)

VpnStates ==
    [store : [Boxes -> {None} \cup VpnForms], conf : [Boxes -> Nat], made : Nat, at : Boxes,
     form : VpnForms, saved : BOOLEAN, xray : {"checking", "running", "absent", "error"}, checks : Nat,
     deploying : BOOLEAN, box : BOOLEAN, told : BOOLEAN,
     rows : [Boxes -> {None} \cup [name : Names, server : Domains \cup {None}]]]

\* What was told to be the node's UUID is; and no deployment that may change it is under way.
Told(v) == v.told => ~v.deploying /\ v.form.uuid = v.conf[v.at]
VpnGood(v) == v \in VpnStates /\ Told(v) /\ (v.box => v.deploying)
VpnInv == VpnGood(vpn)

\* What is removed is removed by its own panel, or with a row that shows it.
VpnKeepsEntries ==
    \A n \in Boxes :
         vpn.store[n] # None /\ vpn'.store[n] = None =>
            \/ vpn.at = n /\ vpn.saved /\ ~vpn'.saved
            \/ \E k \in Boxes : /\ vpn.rows[k] # None
                                 /\ vpn.rows[k].name = vpn.store[n].name
                                 /\ vpn.rows[k].server = vpn.store[n].server

\* loadJump gives a form.
LEMMA FormTypes ==
    ASSUME NEW store \in [Boxes -> {None} \cup VpnForms], NEW n \in Boxes
    PROVE  Form(store, n) \in VpnForms
<1>1. (CHOOSE x \in Names : TRUE) \in Names
  BY VpnAssumption
<1>2. store[n] # None => store[n] \in VpnForms
  OBVIOUS
<1> QED BY <1>1, <1>2 DEF Form, VpnForms

\* The summary gives rows.
LEMMA RowTypes ==
    ASSUME NEW store \in [Boxes -> {None} \cup VpnForms]
    PROVE  Rows(store) \in [Boxes -> {None} \cup [name : Names, server : Domains \cup {None}]]
<1>1. \A h \in Boxes : store[h] = None \/ store[h] \in VpnForms
  OBVIOUS
<1> QED BY <1>1 DEF Rows, VpnForms

\* A panel that is opened has told nothing.
LEMMA PanelOpens ==
    ASSUME NEW v \in VpnStates, NEW n \in Boxes
    PROVE  VpnGood(Panel(v, n)) /\ Panel(v, n).store = v.store
<1> DEFINE form == Form(v.store, n)
           saved == v.store[n] # None
           k == [v EXCEPT !.at = n, !.form = form, !.saved = saved, !.xray = "checking", !.checks = 1,
                          !.deploying = FALSE, !.box = FALSE, !.told = FALSE]
<1>1. form \in VpnForms /\ saved \in BOOLEAN
  BY FormTypes DEF VpnStates
<1>2. Panel(v, n) = k
  BY DEF Panel
<1> HIDE DEF form, saved
<1>3. k \in VpnStates
  BY <1>1 DEF VpnStates
<1>4. ~k.told /\ ~k.box /\ k.store = v.store
  BY DEF VpnStates
<1> HIDE DEF k
<1> QED BY <1>2, <1>3, <1>4 DEF VpnGood, Told

\* What a deployment changes.
LEMMA DeploysOne ==
    ASSUME NEW v \in VpnStates
    PROVE  /\ Deployed(v) \in VpnStates
           /\ Deployed(v).made = v.made + 1 /\ Deployed(v).conf[v.at] = v.made + 1
           /\ Deployed(v).at = v.at /\ Deployed(v).form = v.form /\ Deployed(v).store = v.store
           /\ Deployed(v).rows = v.rows /\ Deployed(v).told = v.told /\ Deployed(v).saved = v.saved
<1> DEFINE conf == [v.conf EXCEPT ![v.at] = v.made + 1]
           made == v.made + 1
           k == [v EXCEPT !.made = made, !.conf = conf]
<1>1. conf \in [Boxes -> Nat] /\ conf[v.at] = made /\ made \in Nat
  BY DEF VpnStates
<1>2. Deployed(v) = k
  BY DEF Deployed, VpnStates
<1> HIDE DEF conf
<1>3. k \in VpnStates
  BY <1>1 DEF VpnStates
<1>4. /\ k.made = made /\ k.conf = conf /\ k.at = v.at /\ k.form = v.form /\ k.store = v.store
      /\ k.rows = v.rows /\ k.told = v.told /\ k.saved = v.saved
  BY DEF VpnStates
<1> HIDE DEF k
<1> QED BY <1>1, <1>2, <1>3, <1>4

\* The panel starts with no entry saved.
LEMMA VpnStarts == VpnInit => VpnInv
<1> SUFFICES ASSUME VpnInit PROVE VpnInv
  OBVIOUS
<1>1. PICK n \in Boxes :
    vpn = Panel([store |-> [h \in Boxes |-> None], conf |-> [h \in Boxes |-> 0], made |-> 0,
                 at |-> n, form |-> None, saved |-> FALSE, xray |-> "checking", checks |-> 0,
                 deploying |-> FALSE, box |-> FALSE, told |-> FALSE,
                 rows |-> [h \in Boxes |-> None]], n)
  BY DEF VpnInit
<1> DEFINE store == [h \in Boxes |-> None]
           s == [store |-> store, conf |-> [h \in Boxes |-> 0], made |-> 0,
                 at |-> n, form |-> None, saved |-> FALSE, xray |-> "checking", checks |-> 0,
                 deploying |-> FALSE, box |-> FALSE, told |-> FALSE,
                 rows |-> [h \in Boxes |-> None]]
           form == Form(store, n)
<1>2. store \in [Boxes -> {None} \cup VpnForms] /\ (store[n] # None) = FALSE
  OBVIOUS
<1>3. form \in VpnForms
  BY <1>2, FormTypes
<1>4. vpn = [s EXCEPT !.at = n, !.form = form, !.saved = FALSE, !.xray = "checking", !.checks = 1,
                      !.deploying = FALSE, !.box = FALSE, !.told = FALSE]
  <2>1. s.store = store
    OBVIOUS
  <2>2. vpn = Panel(s, n)
    BY <1>1
  <2> HIDE DEF s
  <2>3. Panel(s, n) = [s EXCEPT !.at = n, !.form = Form(s.store, n), !.saved = s.store[n] # None,
              !.xray = "checking", !.checks = 1, !.deploying = FALSE, !.box = FALSE, !.told = FALSE]
    BY DEF Panel
  <2> HIDE DEF store
  <2> QED BY <1>2, <2>1, <2>2, <2>3
<1>5. vpn \in VpnStates /\ ~vpn.told /\ ~vpn.box
  <2> HIDE DEF form
  <2>1. [h \in Boxes |-> 0] \in [Boxes -> Nat]
        /\ [h \in Boxes |-> None] \in [Boxes -> {None} \cup [name : Names, server : Domains \cup {None}]]
    OBVIOUS
  <2> QED BY <1>2, <1>3, <1>4, <2>1 DEF VpnStates
<1> QED BY <1>5 DEF VpnInv, VpnGood, Told

\* The property of the panel follows.
LEMMA VpnHolds == VpnInv => VpnAsked
  BY DEF VpnInv, VpnGood, Told, VpnAsked

\* Every step of the pages keeps the invariant, and the entries.
LEMMA VpnKeeps == VpnInv /\ VpnNext => VpnInv' /\ VpnKeepsEntries
<1> SUFFICES ASSUME VpnInv, VpnNext PROVE VpnGood(vpn') /\ VpnKeepsEntries
  BY DEF VpnInv
<1>0. VpnGood(vpn) /\ vpn \in VpnStates
  BY DEF VpnInv, VpnGood
<1>a. vpn'.store = vpn.store => VpnKeepsEntries
  BY DEF VpnKeepsEntries
<1>1. CASE VpnCheck
  <2>0. vpn.checks + 1 \in Nat /\ vpn' = [vpn EXCEPT !.xray = "checking", !.checks = vpn.checks + 1]
    BY <1>0, <1>1 DEF VpnCheck, VpnStates
  <2>1. vpn' \in VpnStates
    BY <1>0, <2>0 DEF VpnStates
  <2>2. /\ vpn'.store = vpn.store /\ vpn'.told = vpn.told /\ vpn'.deploying = vpn.deploying
        /\ vpn'.box = vpn.box /\ vpn'.form = vpn.form /\ vpn'.conf = vpn.conf /\ vpn'.at = vpn.at
    BY <1>0, <1>1 DEF VpnCheck, VpnStates
  <2> QED BY <1>0, <1>a, <2>1, <2>2 DEF VpnGood, Told
<1>2. CASE VpnChecked
  <2>0. PICK state \in {"running", "absent", "error"} :
          vpn' = [vpn EXCEPT !.checks = @ - 1, !.xray = state]
    BY <1>2 DEF VpnChecked
  <2>a. vpn.checks - 1 \in Nat
    BY <1>0, <1>2 DEF VpnChecked, VpnStates
  <2>1. vpn' \in VpnStates
    BY <1>0, <2>0, <2>a DEF VpnStates
  <2>2. /\ vpn'.store = vpn.store /\ vpn'.told = vpn.told /\ vpn'.deploying = vpn.deploying
        /\ vpn'.box = vpn.box /\ vpn'.form = vpn.form /\ vpn'.conf = vpn.conf /\ vpn'.at = vpn.at
    BY <1>0, <2>0 DEF VpnStates
  <2> QED BY <1>0, <1>a, <2>1, <2>2 DEF VpnGood, Told
<1>3. CASE VpnDeploy
  <2>1. vpn' \in VpnStates
    BY <1>0, <1>3 DEF VpnDeploy, VpnStates
  <2>2. vpn'.store = vpn.store /\ ~vpn'.told /\ vpn'.deploying
    BY <1>0, <1>3 DEF VpnDeploy, VpnStates
  <2> QED BY <1>0, <1>a, <2>1, <2>2 DEF VpnGood, Told
<1>4. CASE VpnAnswered
  <2>0. vpn.deploying /\ ~vpn.box /\ ~vpn.told
    BY <1>0, <1>4 DEF VpnAnswered, VpnGood, Told
  <2>1. CASE vpn' = [vpn EXCEPT !.deploying = FALSE]
    <3>1. vpn' \in VpnStates /\ vpn'.store = vpn.store /\ ~vpn'.told /\ ~vpn'.box
      BY <1>0, <2>0, <2>1 DEF VpnStates
    <3> QED BY <1>a, <3>1 DEF VpnGood, Told
  <2>2. CASE vpn' = [vpn EXCEPT !.box = TRUE]
    <3>1. vpn' \in VpnStates /\ vpn'.store = vpn.store /\ ~vpn'.told /\ vpn'.deploying
      BY <1>0, <2>0, <2>2 DEF VpnStates
    <3> QED BY <1>a, <3>1 DEF VpnGood, Told
  <2>3. CASE vpn' = [vpn EXCEPT !.deploying = FALSE, !.xray = "checking", !.checks = 1]
    <3>1. vpn' \in VpnStates /\ vpn'.store = vpn.store /\ ~vpn'.told /\ ~vpn'.box
      BY <1>0, <2>0, <2>3 DEF VpnStates
    <3> QED BY <1>a, <3>1 DEF VpnGood, Told
  <2>4. CASE vpn' = [Deployed(vpn) EXCEPT !.form = FillIn(@, Deployed(vpn).made),
                              !.told = vpn.form.uuid = 0,
                              !.deploying = FALSE, !.xray = "checking", !.checks = 1]
    <3> DEFINE v == Deployed(vpn)
               form == FillIn(vpn.form, v.made)
               told == vpn.form.uuid = 0
    <3>1. /\ v \in VpnStates /\ v.conf[v.at] = v.made /\ v.store = vpn.store /\ v.form = vpn.form
          /\ v.made \in Nat
      BY <1>0, DeploysOne DEF VpnStates
    <3> HIDE DEF v
    <3>2. form \in VpnForms /\ told \in BOOLEAN
      BY <1>0, <3>1 DEF VpnStates, VpnForms, FillIn
    <3>3. told => form.uuid = v.made
      BY <1>0 DEF VpnStates, VpnForms, FillIn
    <3>4. vpn' = [v EXCEPT !.form = form, !.told = told, !.deploying = FALSE,
                           !.xray = "checking", !.checks = 1]
      <4>1. vpn' = [v EXCEPT !.form = FillIn(v.form, v.made), !.told = told,
                              !.deploying = FALSE, !.xray = "checking", !.checks = 1]
        BY <2>4, <3>1 DEF v, VpnStates
      <4> QED BY <3>1, <4>1
    <3> HIDE DEF form, told
    <3>5. vpn' \in VpnStates
      BY <3>1, <3>2, <3>4 DEF VpnStates
    <3>6. /\ vpn'.form = form /\ vpn'.told = told /\ ~vpn'.deploying /\ vpn'.conf = v.conf
          /\ vpn'.at = v.at /\ vpn'.store = v.store /\ vpn'.box = v.box
      BY <3>1, <3>4 DEF VpnStates
    <3>7. ~vpn'.box
      BY <1>0, <2>0, <2>4 DEF Deployed, VpnStates
    <3> QED BY <1>a, <3>1, <3>3, <3>5, <3>6, <3>7 DEF VpnGood, Told
  <2> QED BY <1>4, <2>1, <2>2, <2>3, <2>4 DEF VpnAnswered
<1>5. CASE VpnAnswerBox
  <2>1. PICK v \in {vpn, Deployed(vpn)} :
          vpn' = [v EXCEPT !.box = FALSE, !.deploying = FALSE, !.xray = "checking", !.checks = 1]
    BY <1>5 DEF VpnAnswerBox
  <2>2. v \in VpnStates /\ v.store = vpn.store /\ v.told = vpn.told
    BY <1>0, DeploysOne
  <2>3. ~vpn.told
    BY <1>0, <1>5 DEF VpnAnswerBox, VpnGood, Told
  <2>4. vpn' \in VpnStates /\ vpn'.store = v.store /\ vpn'.told = v.told /\ ~vpn'.box
    BY <2>1, <2>2 DEF VpnStates
  <2> QED BY <1>a, <2>2, <2>3, <2>4 DEF VpnGood, Told
<1>6. CASE VpnEdit
  <2>1. PICK x \in Names, d \in Domains : vpn' = [vpn EXCEPT !.form.name = x, !.form.server = d]
    BY <1>6 DEF VpnEdit
  <2> DEFINE form == [vpn.form EXCEPT !.name = x, !.server = d]
  <2>2. form \in VpnForms /\ form.uuid = vpn.form.uuid
    BY <1>0 DEF VpnStates, VpnForms
  <2>3. vpn' = [vpn EXCEPT !.form = form]
    BY <1>0, <2>1 DEF VpnStates, VpnForms
  <2> HIDE DEF form
  <2>4. vpn' \in VpnStates
    BY <1>0, <2>2, <2>3 DEF VpnStates
  <2>5. /\ vpn'.store = vpn.store /\ vpn'.told = vpn.told /\ vpn'.deploying = vpn.deploying
        /\ vpn'.box = vpn.box /\ vpn'.form = form /\ vpn'.conf = vpn.conf /\ vpn'.at = vpn.at
    BY <1>0, <2>3 DEF VpnStates
  <2> QED BY <1>0, <1>a, <2>2, <2>4, <2>5 DEF VpnGood, Told
<1>7. CASE VpnGenerate
  <2> DEFINE form == [vpn.form EXCEPT !.uuid = OwnUuid]
  <2>1. form \in VpnForms
    BY <1>0, VpnAssumption DEF VpnStates, VpnForms, OwnUuid
  <2>2. vpn' = [vpn EXCEPT !.form = form, !.told = FALSE]
    BY <1>0, <1>7 DEF VpnGenerate, VpnStates, VpnForms
  <2> HIDE DEF form
  <2>3. vpn' \in VpnStates /\ vpn'.store = vpn.store /\ ~vpn'.told /\ vpn'.box = vpn.box
        /\ vpn'.deploying = vpn.deploying
    BY <1>0, <2>1, <2>2 DEF VpnStates
  <2> QED BY <1>0, <1>a, <2>3 DEF VpnGood, Told
<1>8. CASE VpnSave
  <2> DEFINE store == [vpn.store EXCEPT ![vpn.at] = vpn.form]
  <2>1. store \in [Boxes -> {None} \cup VpnForms]
    BY <1>0 DEF VpnStates
  <2>2. vpn' = [vpn EXCEPT !.store = store, !.saved = TRUE]
    BY <1>0, <1>8 DEF VpnSave, VpnStates
  <2>3. \A n \in Boxes : store[n] = None => vpn.store[n] = None
    BY <1>0, VpnAssumption DEF VpnStates
  <2> HIDE DEF store
  <2>4. vpn' \in VpnStates
    BY <1>0, <2>1, <2>2 DEF VpnStates
  <2>5. /\ vpn'.store = store /\ vpn'.told = vpn.told /\ vpn'.deploying = vpn.deploying
        /\ vpn'.box = vpn.box /\ vpn'.form = vpn.form /\ vpn'.conf = vpn.conf /\ vpn'.at = vpn.at
    BY <1>0, <2>2 DEF VpnStates
  <2> QED BY <1>0, <2>3, <2>4, <2>5 DEF VpnGood, Told, VpnKeepsEntries
<1>9. CASE VpnClear
  <2> DEFINE store == [vpn.store EXCEPT ![vpn.at] = None]
             none == [h \in Boxes |-> None]
             form == Form(none, vpn.at)
  <2>1. store \in [Boxes -> {None} \cup VpnForms] /\ none \in [Boxes -> {None} \cup VpnForms]
        /\ vpn.at \in Boxes
    BY <1>0 DEF VpnStates
  <2>2. form \in VpnForms
    BY <2>1, FormTypes
  <2>3. vpn' = [vpn EXCEPT !.store = store, !.saved = FALSE, !.told = FALSE, !.form = form]
    BY <1>0, <1>9 DEF VpnClear, VpnStates
  <2>4. \A n \in Boxes : n # vpn.at => store[n] = vpn.store[n]
    BY <1>0 DEF VpnStates
  <2> HIDE DEF store, form
  <2>5. vpn' \in VpnStates
    BY <1>0, <2>1, <2>2, <2>3 DEF VpnStates
  <2>6. /\ vpn'.store = store /\ ~vpn'.told /\ ~vpn'.saved /\ vpn'.deploying = vpn.deploying
        /\ vpn'.box = vpn.box
    BY <1>0, <2>3 DEF VpnStates
  <2>7. vpn.saved
    BY <1>9 DEF VpnClear
  <2> QED BY <1>0, <2>4, <2>5, <2>6, <2>7 DEF VpnGood, Told, VpnKeepsEntries
<1>10. CASE VpnRefresh
  <2> DEFINE rows == Rows(vpn.store)
  <2>1. rows \in [Boxes -> {None} \cup [name : Names, server : Domains \cup {None}]]
    BY <1>0, RowTypes DEF VpnStates
  <2>2. vpn' = [vpn EXCEPT !.rows = rows]
    BY <1>10 DEF VpnRefresh
  <2> HIDE DEF rows
  <2>3. vpn' \in VpnStates
    BY <1>0, <2>1, <2>2 DEF VpnStates
  <2>4. /\ vpn'.store = vpn.store /\ vpn'.told = vpn.told /\ vpn'.deploying = vpn.deploying
        /\ vpn'.box = vpn.box /\ vpn'.form = vpn.form /\ vpn'.conf = vpn.conf /\ vpn'.at = vpn.at
    BY <1>0, <2>2 DEF VpnStates
  <2> QED BY <1>0, <1>a, <2>3, <2>4 DEF VpnGood, Told
<1>11. ASSUME NEW n \in Boxes, VpnOpen(n) PROVE VpnGood(vpn') /\ VpnKeepsEntries
  <2>1. PICK v \in {vpn, Deployed(vpn)} : vpn' = Panel(v, n)
    BY <1>11 DEF VpnOpen
  <2>2. v \in VpnStates /\ v.store = vpn.store
    BY <1>0, DeploysOne
  <2> QED BY <1>a, <2>1, <2>2, PanelOpens
<1>12. ASSUME NEW k \in Boxes, VpnRemove(k) PROVE VpnGood(vpn') /\ VpnKeepsEntries
  <2> DEFINE store == WithoutRow(vpn.store, vpn.rows[k], k)
             rows == Rows(store)
  <2>1. store \in [Boxes -> {None} \cup VpnForms]
    BY <1>0 DEF VpnStates, WithoutRow
  <2>2. \A n \in Boxes : vpn.store[n] # None /\ store[n] = None =>
          vpn.store[n].name = vpn.rows[k].name /\ vpn.store[n].server = vpn.rows[k].server
    BY DEF WithoutRow
  <2>3. vpn' = [vpn EXCEPT !.store = store, !.rows = rows] /\ vpn.rows[k] # None
    BY <1>12 DEF VpnRemove
  <2> HIDE DEF store
  <2>4. rows \in [Boxes -> {None} \cup [name : Names, server : Domains \cup {None}]]
    BY <2>1, RowTypes
  <2> HIDE DEF rows
  <2>5. vpn' \in VpnStates
    BY <1>0, <2>1, <2>3, <2>4 DEF VpnStates
  <2>6. /\ vpn'.store = store /\ vpn'.told = vpn.told /\ vpn'.deploying = vpn.deploying
        /\ vpn'.box = vpn.box /\ vpn'.form = vpn.form /\ vpn'.conf = vpn.conf /\ vpn'.at = vpn.at
    BY <1>0, <2>3 DEF VpnStates
  <2> QED BY <1>0, <2>2, <2>3, <2>5, <2>6 DEF VpnGood, Told, VpnKeepsEntries
<1> QED BY <1>1, <1>2, <1>3, <1>4, <1>5, <1>6, <1>7, <1>8, <1>9, <1>10, <1>11, <1>12 DEF VpnNext

-----------------------------------------------------------------------------
(* The alert rules (AlertsPage).                                            *)

RuleIds == 0..MaxRules
Tables == [1..MaxRules -> {None} \cup Scopes]
Saves == [what : {"save"}, id : RuleIds, of : RuleIds, node : Scopes]
Orders == [what : {"delete", "deploy"}, id : 1..MaxRules]
AlertStates ==
    [rules : Tables, made : RuleIds, shown : Tables, loads : Nat, dialog : BOOLEAN, editing : RuleIds,
     form : [of : RuleIds, node : Scopes, named : BOOLEAN],
     asked : [1..MaxSaves -> {None} \cup Saves \cup Orders], box : {None} \cup Orders]

\* What is saved for a rule was read from it.
OfItsRule(q) == q # None /\ q.what = "save" => q.id = q.of

\* The form is of the rule that will be saved; and rules are numbered as they are made.
AlertsGood(s) ==
    /\ s \in AlertStates
    /\ s.form.of = s.editing
    /\ \A k \in 1..MaxSaves : OfItsRule(s.asked[k])
    /\ \A i \in 1..MaxRules : i > s.made => s.rules[i] = None
AlertsInv == AlertsGood(alerts)

RulesStay(old, new) == \A i \in 1..MaxRules : old[i] # None /\ new[i] # None => new[i] = old[i]

\* The page starts without a rule.
LEMMA AlertsStarts == AlertsInit => AlertsInv
<1> SUFFICES ASSUME AlertsInit PROVE AlertsInv
  OBVIOUS
<1>1. /\ [i \in 1..MaxRules |-> None] \in Tables /\ 0 \in RuleIds
      /\ [k \in 1..MaxSaves |-> None] \in [1..MaxSaves -> {None} \cup Saves \cup Orders]
      /\ NewForm \in [of : RuleIds, node : Scopes, named : BOOLEAN] /\ NewForm.of = 0
  BY RulesAssumption DEF Tables, RuleIds, NewForm, Scopes
<1>2. alerts \in AlertStates
  BY <1>1 DEF AlertsInit, AlertStates
<1>3. /\ alerts.form = NewForm /\ alerts.editing = 0
      /\ \A k \in 1..MaxSaves : alerts.asked[k] = None
      /\ \A i \in 1..MaxRules : alerts.rules[i] = None
  BY DEF AlertsInit
<1> QED BY <1>1, <1>2, <1>3 DEF AlertsInv, AlertsGood, OfItsRule

\* The property of the page follows.
LEMMA AlertsHolds == AlertsInv => AlertsAsked
  BY DEF AlertsInv, AlertsGood, OfItsRule, AlertsAsked

\* The invariant reads nothing else.
LEMMA AlertsSame ==
    ASSUME NEW s, NEW k, AlertsGood(s), k \in AlertStates, k.rules = s.rules, k.made = s.made,
           k.asked = s.asked, k.form.of = k.editing
    PROVE  AlertsGood(k)
BY DEF AlertsGood

\* A place for a request is taken, or left.
LEMMA AlertsPlaces ==
    ASSUME NEW s, AlertsGood(s), NEW k \in 1..MaxSaves, NEW q \in {None} \cup Saves \cup Orders,
           OfItsRule(q)
    PROVE  /\ AlertsGood([s EXCEPT !.asked[k] = q])
           /\ [s EXCEPT !.asked[k] = q].rules = s.rules
<1> DEFINE asked == [s.asked EXCEPT ![k] = q]
           t == [s EXCEPT !.asked = asked]
<1>1. [s EXCEPT !.asked[k] = q] = t
  BY DEF AlertsGood, AlertStates
<1>2. asked \in [1..MaxSaves -> {None} \cup Saves \cup Orders]
  BY DEF AlertsGood, AlertStates
<1>3. \A j \in 1..MaxSaves : asked[j] = IF j = k THEN q ELSE s.asked[j]
  BY DEF AlertsGood, AlertStates
<1> HIDE DEF asked
<1>4. t \in AlertStates
  BY <1>2 DEF AlertsGood, AlertStates
<1>5. /\ t.form = s.form /\ t.editing = s.editing /\ t.asked = asked /\ t.rules = s.rules
      /\ t.made = s.made
  BY DEF AlertsGood, AlertStates
<1> HIDE DEF t
<1> QED BY <1>1, <1>3, <1>4, <1>5 DEF AlertsGood

\* What the server makes of a request.
LEMMA AlertsServes ==
    ASSUME NEW s, AlertsGood(s), NEW q \in Saves \cup Orders,
           q.what = "save" /\ q.id = 0 => s.made < MaxRules
    PROVE  /\ AlertsGood(Served(s, q)) /\ RulesStay(s.rules, Served(s, q).rules)
           /\ Served(s, q).form = s.form /\ Served(s, q).editing = s.editing
<1>0. s \in AlertStates /\ s.rules \in Tables /\ s.made \in RuleIds /\ s.form.of = s.editing
  BY DEF AlertsGood, AlertStates
<1>1. ASSUME NEW rules \in Tables, NEW made \in RuleIds,
             Served(s, q) = [s EXCEPT !.made = made, !.rules = rules],
             RulesStay(s.rules, rules), \A i \in 1..MaxRules : i > made => rules[i] = None
      PROVE  /\ AlertsGood(Served(s, q)) /\ RulesStay(s.rules, Served(s, q).rules)
             /\ Served(s, q).form = s.form /\ Served(s, q).editing = s.editing
  <2> DEFINE t == [s EXCEPT !.made = made, !.rules = rules]
  <2>1. t \in AlertStates
    BY <1>0 DEF AlertStates
  <2>2. /\ t.form = s.form /\ t.editing = s.editing /\ t.asked = s.asked /\ t.rules = rules
        /\ t.made = made
    BY <1>0 DEF AlertStates
  <2> HIDE DEF t
  <2>3. AlertsGood(t)
    BY <1>1, <2>1, <2>2 DEF AlertsGood
  <2> QED BY <1>1, <2>2, <2>3 DEF t
<1>2. CASE q.what = "save" /\ q.id = 0
  <2> DEFINE made == s.made + 1
             rules == [s.rules EXCEPT ![made] = q.node]
  <2>1. made \in 1..MaxRules /\ made \in RuleIds /\ q.node \in Scopes
    BY <1>0, <1>2, RulesAssumption DEF RuleIds, Saves, Orders
  <2>2. Served(s, q) = [s EXCEPT !.made = made, !.rules = rules]
    BY <1>0, <1>2 DEF Served, AlertStates
  <2>3. rules \in Tables /\ \A i \in 1..MaxRules : rules[i] = IF i = made THEN q.node ELSE s.rules[i]
    BY <1>0, <2>1 DEF Tables
  <2>4. s.rules[made] = None
    BY <1>0, <2>1 DEF AlertsGood, RuleIds
  <2>5. \A i \in 1..MaxRules : i > made => i > s.made /\ i # made
    BY <1>0, <2>1 DEF RuleIds
  <2> HIDE DEF made, rules
  <2>6. RulesStay(s.rules, rules)
    BY <2>3, <2>4 DEF RulesStay
  <2>7. \A i \in 1..MaxRules : i > made => rules[i] = None
    BY <2>3, <2>5 DEF AlertsGood
  <2> QED BY <1>1, <2>1, <2>2, <2>3, <2>6, <2>7
<1>3. CASE q.what = "save" /\ q.id # 0
  <2> DEFINE rules == [s.rules EXCEPT ![q.id] = Updated(@, q)]
  <2>1. rules = s.rules
    BY <1>0 DEF Updated, Tables
  <2>2. Served(s, q) = [s EXCEPT !.rules = rules]
    BY <1>0, <1>3 DEF Served, AlertStates
  <2> HIDE DEF rules
  <2>3. Served(s, q) = [s EXCEPT !.made = s.made, !.rules = s.rules]
    BY <1>0, <2>1, <2>2 DEF AlertStates
  <2> QED BY <1>0, <1>1, <2>3 DEF RulesStay, AlertsGood
<1>4. CASE q.what = "delete"
  <2> DEFINE rules == [s.rules EXCEPT ![q.id] = None]
  <2>1. rules \in Tables /\ \A i \in 1..MaxRules : rules[i] = IF i = q.id THEN None ELSE s.rules[i]
    BY <1>0 DEF Tables
  <2>2. Served(s, q) = [s EXCEPT !.made = s.made, !.rules = rules]
    BY <1>0, <1>4 DEF Served, AlertStates
  <2> HIDE DEF rules
  <2>3. RulesStay(s.rules, rules) /\ \A i \in 1..MaxRules : i > s.made => rules[i] = None
    BY <2>1 DEF RulesStay, AlertsGood
  <2> QED BY <1>0, <1>1, <2>1, <2>2, <2>3
<1>5. CASE q.what = "deploy"
  <2>1. Served(s, q) = [s EXCEPT !.made = s.made, !.rules = s.rules]
    BY <1>0, <1>5 DEF Served, AlertStates
  <2> QED BY <1>0, <1>1, <2>1 DEF RulesStay, AlertsGood
<1> QED BY <1>2, <1>3, <1>4, <1>5 DEF Saves, Orders

\* Every step of the page keeps the invariant, and the nodes of the rules.
LEMMA AlertsKeeps ==
    AlertsInv /\ AlertsNext => AlertsInv' /\ RulesStay(alerts.rules, alerts'.rules)
<1> SUFFICES ASSUME AlertsInv, AlertsNext
             PROVE  AlertsGood(alerts') /\ RulesStay(alerts.rules, alerts'.rules)
  BY DEF AlertsInv
<1>0. AlertsGood(alerts) /\ alerts \in AlertStates /\ alerts.form.of = alerts.editing
  BY DEF AlertsInv, AlertsGood
<1>a. alerts'.rules = alerts.rules => RulesStay(alerts.rules, alerts'.rules)
  BY DEF RulesStay
<1>b. ASSUME alerts' \in AlertStates, alerts'.rules = alerts.rules, alerts'.made = alerts.made,
             alerts'.asked = alerts.asked, alerts'.form.of = alerts'.editing
      PROVE  AlertsGood(alerts') /\ RulesStay(alerts.rules, alerts'.rules)
  BY <1>0, <1>a, <1>b, AlertsSame
<1>1. CASE AlertsRefresh
  <2>1. alerts' = [alerts EXCEPT !.loads = 1]
    BY <1>1 DEF AlertsRefresh
  <2>2. alerts' \in AlertStates /\ alerts'.rules = alerts.rules /\ alerts'.made = alerts.made
        /\ alerts'.asked = alerts.asked /\ alerts'.form = alerts.form /\ alerts'.editing = alerts.editing
    BY <1>0, <2>1 DEF AlertStates
  <2> QED BY <1>0, <1>b, <2>2
<1>2. CASE AlertsListed
  <2>1. PICK ok \in BOOLEAN :
          alerts' = [alerts EXCEPT !.loads = @ - 1, !.shown = IF ok THEN alerts.rules ELSE @]
    BY <1>2 DEF AlertsListed
  <2> DEFINE shown == IF ok THEN alerts.rules ELSE alerts.shown
             loads == alerts.loads - 1
  <2>2. shown \in Tables
    BY <1>0 DEF AlertStates
  <2>3. alerts.loads > 0
    BY <1>2 DEF AlertsListed
  <2>4. loads \in Nat
    BY <1>0, <2>3 DEF AlertStates
  <2>5. alerts' = [alerts EXCEPT !.loads = loads, !.shown = shown]
    BY <1>0, <2>1 DEF AlertStates
  <2> HIDE DEF shown, loads
  <2>6. alerts' \in AlertStates /\ alerts'.rules = alerts.rules /\ alerts'.made = alerts.made
        /\ alerts'.asked = alerts.asked /\ alerts'.form = alerts.form /\ alerts'.editing = alerts.editing
    BY <1>0, <2>2, <2>4, <2>5 DEF AlertStates
  <2> QED BY <1>0, <1>b, <2>6
<1>3. CASE AlertsCreate
  <2>1. alerts' = [alerts EXCEPT !.dialog = TRUE, !.form = NewForm, !.editing = 0]
    BY <1>3 DEF AlertsCreate, OpenNew
  <2>2. NewForm \in [of : RuleIds, node : Scopes, named : BOOLEAN] /\ NewForm.of = 0 /\ 0 \in RuleIds
    BY RulesAssumption DEF NewForm, RuleIds, Scopes
  <2>3. alerts' \in AlertStates /\ alerts'.rules = alerts.rules /\ alerts'.made = alerts.made
        /\ alerts'.asked = alerts.asked /\ alerts'.form = NewForm /\ alerts'.editing = 0
    BY <1>0, <2>1, <2>2 DEF AlertStates
  <2> QED BY <1>b, <2>2, <2>3
<1>4. CASE AlertsType
  <2>1. PICK node \in Scopes : alerts' = [alerts EXCEPT !.form.node = node, !.form.named = TRUE]
    BY <1>4 DEF AlertsType
  <2> DEFINE form == [alerts.form EXCEPT !.node = node, !.named = TRUE]
  <2>2. form \in [of : RuleIds, node : Scopes, named : BOOLEAN] /\ form.of = alerts.form.of
    BY <1>0 DEF AlertStates
  <2>3. alerts' = [alerts EXCEPT !.form = form]
    BY <1>0, <2>1 DEF AlertStates
  <2> HIDE DEF form
  <2>4. alerts' \in AlertStates /\ alerts'.rules = alerts.rules /\ alerts'.made = alerts.made
        /\ alerts'.asked = alerts.asked /\ alerts'.form = form /\ alerts'.editing = alerts.editing
    BY <1>0, <2>2, <2>3 DEF AlertStates
  <2> QED BY <1>0, <1>b, <2>2, <2>4
<1>5. CASE AlertsCancel
  <2>1. alerts' = [alerts EXCEPT !.dialog = FALSE]
    BY <1>5 DEF AlertsCancel
  <2>2. alerts' \in AlertStates /\ alerts'.rules = alerts.rules /\ alerts'.made = alerts.made
        /\ alerts'.asked = alerts.asked /\ alerts'.form = alerts.form /\ alerts'.editing = alerts.editing
    BY <1>0, <2>1 DEF AlertStates
  <2> QED BY <1>0, <1>b, <2>2
<1>6. CASE AlertsSave
  <2> DEFINE q == [what |-> "save", id |-> alerts.editing, of |-> alerts.form.of, node |-> alerts.form.node]
  <2>1. q \in Saves /\ q.id = q.of
    BY <1>0 DEF AlertStates, Saves
  <2>2. PICK k \in 1..MaxSaves : alerts' = [alerts EXCEPT !.asked[k] = q]
    BY <1>6 DEF AlertsSave, Post
  <2> HIDE DEF q
  <2>3. OfItsRule(q)
    BY <2>1 DEF OfItsRule
  <2> QED BY <1>0, <1>a, <2>1, <2>2, <2>3, AlertsPlaces
<1>7. CASE AlertsAnswerBox
  <2> DEFINE closed == [alerts EXCEPT !.box = None]
  <2>1. /\ closed \in AlertStates /\ closed.rules = alerts.rules /\ closed.made = alerts.made
        /\ closed.asked = alerts.asked /\ closed.form = alerts.form /\ closed.editing = alerts.editing
    BY <1>0 DEF AlertStates
  <2>2. alerts' = closed \/ \E k \in 1..MaxSaves : alerts' = [closed EXCEPT !.asked[k] = alerts.box]
    BY <1>7 DEF AlertsAnswerBox, Post
  <2> HIDE DEF closed
  <2>3. AlertsGood(closed)
    BY <1>0, <2>1, AlertsSame
  <2>4. alerts.box \in Orders
    BY <1>0, <1>7 DEF AlertsAnswerBox, AlertStates
  <2>5. OfItsRule(alerts.box)
    BY <2>4 DEF OfItsRule, Orders
  <2>6. CASE alerts' = closed
    BY <1>a, <2>1, <2>3, <2>6
  <2>7. ASSUME NEW k \in 1..MaxSaves, alerts' = [closed EXCEPT !.asked[k] = alerts.box]
        PROVE  AlertsGood(alerts') /\ RulesStay(alerts.rules, alerts'.rules)
    BY <1>a, <2>1, <2>3, <2>4, <2>5, <2>7, AlertsPlaces
  <2> QED BY <2>2, <2>6, <2>7
<1>8. ASSUME NEW i \in 1..MaxRules, AlertsEdit(i)
      PROVE  AlertsGood(alerts') /\ RulesStay(alerts.rules, alerts'.rules)
  <2> DEFINE form == [of |-> i, node |-> alerts.shown[i], named |-> TRUE]
  <2>1. alerts.shown[i] \in Scopes /\ i \in RuleIds
    BY <1>0, <1>8, RulesAssumption DEF AlertsEdit, InTable, AlertStates, Tables, RuleIds
  <2>2. form \in [of : RuleIds, node : Scopes, named : BOOLEAN] /\ form.of = i
    BY <2>1
  <2>3. alerts' = [alerts EXCEPT !.dialog = TRUE, !.editing = i, !.form = form]
    BY <1>8 DEF AlertsEdit
  <2> HIDE DEF form
  <2>4. alerts' \in AlertStates /\ alerts'.rules = alerts.rules /\ alerts'.made = alerts.made
        /\ alerts'.asked = alerts.asked /\ alerts'.form = form /\ alerts'.editing = i
    BY <1>0, <2>1, <2>2, <2>3 DEF AlertStates
  <2> QED BY <1>b, <2>2, <2>4
<1>9. ASSUME NEW i \in 1..MaxRules, NEW what \in {"delete", "deploy"}, AlertsPress(i, what)
      PROVE  AlertsGood(alerts') /\ RulesStay(alerts.rules, alerts'.rules)
  <2> DEFINE q == [what |-> what, id |-> i]
  <2>1. q \in Orders /\ q.what # "save"
    BY DEF Orders
  <2>2. alerts' = [alerts EXCEPT !.box = q] \/ \E k \in 1..MaxSaves : alerts' = [alerts EXCEPT !.asked[k] = q]
    BY <1>9 DEF AlertsPress, Post
  <2> HIDE DEF q
  <2>3. CASE alerts' = [alerts EXCEPT !.box = q]
    <3>1. alerts' \in AlertStates /\ alerts'.rules = alerts.rules /\ alerts'.made = alerts.made
          /\ alerts'.asked = alerts.asked /\ alerts'.form = alerts.form /\ alerts'.editing = alerts.editing
      BY <1>0, <2>1, <2>3 DEF AlertStates
    <3> QED BY <1>0, <1>b, <3>1
  <2>4. ASSUME NEW k \in 1..MaxSaves, alerts' = [alerts EXCEPT !.asked[k] = q]
        PROVE  AlertsGood(alerts') /\ RulesStay(alerts.rules, alerts'.rules)
    <3>1. OfItsRule(q)
      BY <2>1 DEF OfItsRule
    <3> QED BY <1>0, <1>a, <2>1, <2>4, <3>1, AlertsPlaces
  <2> QED BY <2>2, <2>3, <2>4
<1>10. ASSUME NEW k \in 1..MaxSaves, AlertsAnswered(k)
       PROVE  AlertsGood(alerts') /\ RulesStay(alerts.rules, alerts'.rules)
  <2> DEFINE q == alerts.asked[k]
             rest == [alerts EXCEPT !.asked[k] = None]
             served == Served(rest, q)
  <2>1. q \in Saves \cup Orders
    BY <1>0, <1>10 DEF AlertsAnswered, AlertStates
  <2>2. AlertsGood(rest) /\ rest.rules = alerts.rules
    <3>1. OfItsRule(None)
      BY DEF OfItsRule
    <3> QED BY <1>0, <3>1, AlertsPlaces
  <2>3. \/ alerts' = rest
        \/ Possible(q) /\ alerts' = served
        \/ Possible(q) /\ alerts' = [served EXCEPT !.loads = @ + 1, !.dialog = @ /\ q.what # "save"]
    BY <1>10 DEF AlertsAnswered
  <2>4. rest.made = alerts.made
    BY <1>0 DEF AlertStates
  <2> HIDE DEF rest
  <2>5. Possible(q) => /\ AlertsGood(served) /\ RulesStay(alerts.rules, served.rules)
                       /\ served.form.of = served.editing
    BY <2>1, <2>2, <2>4, AlertsServes DEF Possible, AlertsGood
  <2> HIDE DEF q, served
  <2>6. CASE alerts' = rest
    BY <1>a, <2>2, <2>6
  <2>7. CASE Possible(q) /\ alerts' = served
    BY <2>5, <2>7
  <2>8. CASE Possible(q) /\ alerts' = [served EXCEPT !.loads = @ + 1, !.dialog = @ /\ q.what # "save"]
    <3> DEFINE loads == served.loads + 1
               dialog == served.dialog /\ q.what # "save"
    <3>1. served \in AlertStates /\ loads \in Nat /\ dialog \in BOOLEAN
      BY <2>5, <2>8 DEF AlertsGood, AlertStates
    <3>2. alerts' = [served EXCEPT !.loads = loads, !.dialog = dialog]
      BY <2>8, <3>1 DEF AlertStates
    <3> HIDE DEF loads, dialog
    <3>3. alerts' \in AlertStates /\ alerts'.rules = served.rules /\ alerts'.made = served.made
          /\ alerts'.asked = served.asked /\ alerts'.form = served.form /\ alerts'.editing = served.editing
      BY <3>1, <3>2 DEF AlertStates
    <3> QED BY <2>5, <2>8, <3>3, AlertsSame
  <2> QED BY <2>3, <2>6, <2>7, <2>8
<1> QED BY <1>1, <1>2, <1>3, <1>4, <1>5, <1>6, <1>7, <1>8, <1>9, <1>10 DEF AlertsNext

-----------------------------------------------------------------------------
(* The login (ConsoleSession).                                              *)

Requests == [tab : Tabs, kind : {"login", "password", "poll"}, token : Nat]
SessionStates ==
    [token : Nat, issued : Nat, valid : SUBSET (Nat \ {0}), page : [Tabs -> {"login", "app"}],
     asked : SUBSET Requests]
SessionInv == session \in SessionStates

TokenStays ==
    session.token \in session.valid /\ session'.token = 0 =>
         \E r \in session.asked \ session'.asked :
            r.kind \in {"login", "password"} \/ r.token # session.token

\* The console starts without a token.
LEMMA SessionStarts == SessionInit => SessionInv
  BY DEF SessionInit, SessionInv, SessionStates

\* Every step keeps the types, and the token unless it is refused.
LEMMA SessionKeeps == SessionInv /\ SessionNext => SessionInv' /\ TokenStays
<1> SUFFICES ASSUME SessionInv, SessionNext PROVE session' \in SessionStates /\ TokenStays
  BY DEF SessionInv
<1>0. /\ session \in SessionStates /\ session.token \in Nat /\ session.issued \in Nat
      /\ session.valid \in SUBSET (Nat \ {0}) /\ session.asked \in SUBSET Requests
      /\ session.page \in [Tabs -> {"login", "app"}]
  BY DEF SessionInv, SessionStates
<1>a. session'.token = session.token => TokenStays
  BY <1>0 DEF TokenStays
<1>1. ASSUME NEW t \in Tabs, Navigate(t) PROVE session' \in SessionStates /\ TokenStays
  <2> DEFINE at == IF Authed THEN "app" ELSE "login"
             screen == [session.page EXCEPT ![t] = at]
  <2>1. screen \in [Tabs -> {"login", "app"}]
    BY <1>0
  <2>2. session' = [session EXCEPT !.page = screen]
    BY <1>0, <1>1 DEF Navigate, SessionStates
  <2> HIDE DEF screen
  <2>3. session' \in SessionStates /\ session'.token = session.token
    BY <1>0, <2>1, <2>2 DEF SessionStates
  <2> QED BY <1>a, <2>3
<1>2. ASSUME NEW t \in Tabs, Submit(t) \/ Poll(t) \/ ChangePassword(t)
      PROVE session' \in SessionStates /\ TokenStays
  <2>1. PICK kind \in {"login", "password", "poll"} :
          session' = [session EXCEPT !.asked = @ \cup {[tab |-> t, kind |-> kind, token |-> session.token]}]
    BY <1>2 DEF Submit, Poll, ChangePassword, Ask
  <2>2. session.asked \cup {[tab |-> t, kind |-> kind, token |-> session.token]} \in SUBSET Requests
    BY <1>0 DEF Requests
  <2>3. session' \in SessionStates /\ session'.token = session.token
    BY <1>0, <2>1, <2>2 DEF SessionStates
  <2> QED BY <1>a, <2>3
<1>3. ASSUME NEW r \in session.asked, NEW right \in BOOLEAN, Answered(r, right)
      PROVE session' \in SessionStates /\ TokenStays
  <2> DEFINE rest == session.asked \ {r}
             s == [session EXCEPT !.asked = rest]
  <2>0. rest \in SUBSET Requests /\ r \in Requests /\ r \notin rest
    BY <1>0
  <2>1. CASE Refused(r, right)
    <3> DEFINE asked == {q \in rest : q.tab # r.tab \/ session.page[r.tab] = "login"}
               screen == [session.page EXCEPT ![r.tab] = "login"]
    <3>1. session' = [session EXCEPT !.token = 0, !.page = screen, !.asked = asked]
      BY <1>0, <1>3, <2>1 DEF Answered, SessionStates
    <3>2. asked \in SUBSET Requests /\ r \notin asked /\ screen \in [Tabs -> {"login", "app"}]
      BY <1>0, <2>0 DEF Requests
    <3> HIDE DEF asked, screen
    <3>3. session' \in SessionStates
      BY <1>0, <3>1, <3>2 DEF SessionStates
    <3>4. session'.asked = asked
      BY <1>0, <3>1 DEF SessionStates
    <3>5. r.kind \in {"login", "password"} \/ r.token \notin session.valid
      BY <2>0, <2>1 DEF Requests, Refused
    <3> QED BY <3>2, <3>3, <3>4, <3>5 DEF TokenStays
  <2>2. CASE ~Refused(r, right) /\ r.kind = "login"
    <3> DEFINE new == session.issued + 1
    <3>1. session' = [session EXCEPT !.asked = rest, !.issued = new, !.valid = @ \cup {new}, !.token = new]
      BY <1>0, <1>3, <2>2 DEF Answered, SessionStates
    <3>2. new \in Nat /\ new # 0 /\ session.valid \cup {new} \in SUBSET (Nat \ {0})
      BY <1>0
    <3> HIDE DEF new, rest
    <3>3. session' \in SessionStates /\ session'.token = new
      BY <1>0, <2>0, <3>1, <3>2 DEF SessionStates
    <3> QED BY <3>2, <3>3 DEF TokenStays
  <2>3. CASE ~Refused(r, right) /\ r.kind # "login"
    <3>1. session' = s
      BY <1>3, <2>3 DEF Answered
    <3>2. session' \in SessionStates /\ session'.token = session.token
      BY <1>0, <2>0, <3>1 DEF SessionStates
    <3> QED BY <1>a, <3>2
  <2> QED BY <2>1, <2>2, <2>3
<1>4. CASE Expire
  <2>1. PICK k \in session.valid : session' = [session EXCEPT !.valid = @ \ {k}]
    BY <1>4 DEF Expire
  <2>2. session.valid \ {k} \in SUBSET (Nat \ {0})
    BY <1>0
  <2>3. session' \in SessionStates /\ session'.token = session.token
    BY <1>0, <2>1, <2>2 DEF SessionStates
  <2> QED BY <1>a, <2>3
<1> QED BY <1>1, <1>2, <1>3, <1>4 DEF SessionNext

-----------------------------------------------------------------------------
(* The console.                                                             *)

\* The invariant of every page.
ConsoleInv ==
    /\ RelayInv /\ SessionInv /\ FilesInv /\ CtrInv /\ VncInv /\ ShellInv /\ NodesInv
    /\ MeshInv /\ PageInv /\ RadioInv /\ NetInv /\ VpnInv /\ AlertsInv

\* A step is one of the page looked at, and changes no other.
LEMMA OneSteps ==
    ASSUME [Next]_vars
    PROVE  /\ RelayNext \/ relay' = relay
           /\ SessionNext \/ session' = session
           /\ FilesNext \/ files' = files
           /\ CtrNext \/ containers' = containers
           /\ VncNext \/ vnc' = vnc
           /\ ShellNext \/ shell' = shell
           /\ NodesNext \/ nodes' = nodes
           /\ MeshNext \/ mesh' = mesh
           /\ PageNext \/ page' = page
           /\ RadioNext \/ radio' = radio
           /\ NetNext \/ net' = net
           /\ VpnNext \/ vpn' = vpn
           /\ AlertsNext \/ alerts' = alerts
<1>1. CASE UNCHANGED vars
  BY <1>1 DEF vars
<1>2. CASE RelayStep
  BY <1>2 DEF RelayStep, Elsewhere
<1>3. CASE SessionStep
  BY <1>3 DEF SessionStep, Elsewhere
<1>4. CASE FilesStep
  BY <1>4 DEF FilesStep, Elsewhere
<1>5. CASE CtrStep
  BY <1>5 DEF CtrStep, Elsewhere
<1>6. CASE VncStep
  BY <1>6 DEF VncStep, Elsewhere
<1>7. CASE ShellStep
  BY <1>7 DEF ShellStep, Elsewhere
<1>8. CASE NodesStep
  BY <1>8 DEF NodesStep, Elsewhere
<1>9. CASE MeshStep
  BY <1>9 DEF MeshStep, Elsewhere
<1>10. CASE PageStep
  BY <1>10 DEF PageStep, Elsewhere
<1>11. CASE RadioStep
  BY <1>11 DEF RadioStep, Elsewhere
<1>12. CASE NetStep
  BY <1>12 DEF NetStep, Elsewhere
<1>13. CASE VpnStep
  BY <1>13 DEF VpnStep, Elsewhere
<1>14. CASE AlertsStep
  BY <1>14 DEF AlertsStep, Elsewhere
<1> QED BY <1>1, <1>2, <1>3, <1>4, <1>5, <1>6, <1>7, <1>8, <1>9, <1>10, <1>11, <1>12, <1>13, <1>14
        DEF Next

\* Every page keeps its invariant, also when another is looked at.
LEMMA ConsoleKeeps == ConsoleInv /\ [Next]_vars => ConsoleInv'
<1> SUFFICES ASSUME ConsoleInv, [Next]_vars PROVE ConsoleInv'
  OBVIOUS
<1> USE OneSteps DEF ConsoleInv
<1>1. RelayInv'
  <2>1. CASE relay' = relay
    BY <2>1 DEF RelayInv, RelayTypes, RelayOneSocket, Dying
  <2> QED BY <2>1, RelayKeeps
<1>2. SessionInv'
  <2>1. CASE session' = session
    BY <2>1 DEF SessionInv
  <2> QED BY <2>1, SessionKeeps
<1>3. FilesInv'
  <2>1. CASE files' = files
    BY <2>1 DEF FilesInv, FilesTypeOK, FilesShown
  <2> QED BY <2>1, FilesKeeps
<1>4. CtrInv'
  <2>1. CASE containers' = containers
    BY <2>1 DEF CtrInv, CtrTypes, OneAction, OneLog
  <2> QED BY <2>1, CtrKeeps
<1>5. VncInv'
  <2>1. CASE vnc' = vnc
    BY <2>1 DEF VncInv, VncTypes, OneClient
  <2> QED BY <2>1, VncKeeps
<1>6. ShellInv'
  <2>1. CASE shell' = shell
    BY <2>1 DEF ShellInv
  <2> QED BY <2>1, ShellKeeps
<1>7. NodesInv'
  <2>1. CASE nodes' = nodes
    BY <2>1 DEF NodesInv, NodesTypes, OneBatch, OwnResults, TickedOnce, OfThisList, NamedOnce, Listed, Box
  <2> QED BY <2>1, NodesKeeps
<1>8. MeshInv'
  <2>1. CASE mesh' = mesh
    BY <2>1 DEF MeshInv
  <2> QED BY <2>1, MeshKeeps
<1>9. PageInv'
  <2>1. CASE page' = page
    BY <2>1 DEF PageInv, PageTypes, ShowsFile
  <2> QED BY <2>1, PageKeeps
<1>10. RadioInv'
  <2>1. CASE radio' = radio
    BY <2>1 DEF RadioInv
  <2> QED BY <2>1, RadioKeeps
<1>11. NetInv'
  <2>1. CASE net' = net
    BY <2>1 DEF NetInv
  <2> QED BY <2>1, NetKeeps
<1>12. VpnInv'
  <2>1. CASE vpn' = vpn
    BY <2>1 DEF VpnInv
  <2> QED BY <2>1, VpnKeeps
<1>13. AlertsInv'
  <2>1. CASE alerts' = alerts
    BY <2>1 DEF AlertsInv
  <2> QED BY <2>1, AlertsKeeps
<1> QED BY <1>1, <1>2, <1>3, <1>4, <1>5, <1>6, <1>7, <1>8, <1>9, <1>10, <1>11, <1>12, <1>13

\* The invariants of all pages hold always.
THEOREM PagesKeepTheirInvariants == Spec => []ConsoleInv
<1>1. Init => ConsoleInv
  BY RelayStarts, SessionStarts, FilesStarts, CtrStarts, VncStarts, ShellStarts, NodesStarts,
     MeshStarts, PageStarts, RadioStarts, NetStarts, VpnStarts, AlertsStarts
     DEF Init, ConsoleInv
<1> QED BY <1>1, ConsoleKeeps, PTL DEF Spec

\* What a page shows is of what its title names, in whatever order answers
\* arrive: the directory, the container's log, the batch's results, the host
\* of the ping, the chart's survey, and the state of the desktop.
THEOREM PagesShowWhatTheyName == Spec => []ShowsWhatItNames
<1>1. ConsoleInv => ShowsWhatItNames
  BY CtrHolds, NodesHolds, RadioHolds, NetHolds, VncHolds
     DEF ConsoleInv, FilesInv, ShowsWhatItNames
<1> QED BY <1>1, PagesKeepTheirInvariants, PTL

\* What a page sends is what was asked for on it: one action at a time where
\* others are excluded, for the target and with the content on the screen.
THEOREM PagesDoWhatWasAsked == Spec => []DoesWhatWasAsked
<1>1. ConsoleInv => DoesWhatWasAsked
  BY CtrHolds, NodesHolds, MeshHolds, PageHolds, RadioHolds, NetHolds, VpnHolds, AlertsHolds
     DEF ConsoleInv, DoesWhatWasAsked
<1> QED BY <1>1, PagesKeepTheirInvariants, PTL

\* A page has one connection of a kind, and one that was left has none.
THEOREM PagesLeaveNothing == Spec => []LeavesNothing
<1>1. ConsoleInv => LeavesNothing
  BY ShellIsGone, VncHolds, RadioHolds
     DEF ConsoleInv, RelayInv, LeavesNothing
<1> QED BY <1>1, PagesKeepTheirInvariants, PTL

\* The login, a saved VPN entry and the node of an alert rule are removed or
\* moved only by what the properties name, and a page that was left reads its
\* node no more.
THEOREM PagesLoseNothing == Spec => NothingIsLost
<1>1. ConsoleInv /\ [Next]_vars => [TokenStays]_session
  BY OneSteps, SessionKeeps DEF ConsoleInv
<1>2. ConsoleInv /\ [Next]_vars => [VpnKeepsEntries]_vpn
  BY OneSteps, VpnKeeps DEF ConsoleInv
<1>3. ConsoleInv /\ [Next]_vars => [RulesStay(alerts.rules, alerts'.rules)]_alerts
  BY OneSteps, AlertsKeeps DEF ConsoleInv
<1>4. ConsoleInv /\ [Next]_vars =>
        [~page.mounted /\ page'.atNode > page.atNode => page.step = "wait"]_page
  BY OneSteps, PageKeeps DEF ConsoleInv
<1>5. Spec => TokenIsKept
  BY <1>1, PagesKeepTheirInvariants, PTL DEF Spec, TokenIsKept, TokenStays
<1>6. Spec => VpnKept
  BY <1>2, PagesKeepTheirInvariants, PTL DEF Spec, VpnKept, VpnKeepsEntries
<1>7. Spec => AlertsKept
  BY <1>3, PagesKeepTheirInvariants, PTL DEF Spec, AlertsKept, RulesStay
<1>8. Spec => PageGone
  BY <1>4, PagesKeepTheirInvariants, PTL DEF Spec, PageGone
<1> QED BY <1>5, <1>6, <1>7, <1>8 DEF NothingIsLost
=============================================================================
