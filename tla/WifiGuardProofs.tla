--------------------------- MODULE WifiGuardProofs ---------------------------
(***************************************************************************)
(* Proofs about WifiGuard, for any networks, passwords, configurations,    *)
(* commands and number of mishaps.                                         *)
(***************************************************************************)
EXTENDS WifiGuard, TLAPS

-----------------------------------------------------------------------------
(* Types.                                                                  *)

\* Labels of a goroutine in switchTo, of the engine, and of any goroutine.
Turn == {"profile", "add", "up", "verify"}
EngineLabels == {"idle", "scan", "assess", "choose"} \cup Turn
Labels == EngineLabels \cup {"open", "write", "rename", "publish", "list", "sync", "answered"}

Locals == [op : {"none", "apply", "switch"}, cfg : Config,
           fd : Inodes \cup {NoInode}, target : Ssids \cup {NoSsid},
           from : Ssids \cup {NoSsid}, rssi : Int, todo : SUBSET Ssids,
           pw : Passwords \cup {Blank}, thr : Int, margin : Int,
           heard : PartOf(Ssids, Int), rolling : BOOLEAN]

\* What the local variables of a goroutine hold, by where it is.
Fits(p, label, l) ==
    /\ label \in Labels /\ l \in Locals
    /\ p = Engine => label \in EngineLabels /\ l.op = "none"
    /\ p = Engine /\ label \in {"choose"} \cup Turn => l.from \in Ssids
    /\ label \in Turn => l.target \in Ssids
    /\ label = "add" => l.pw \in Passwords
    /\ label \in {"write", "rename"} => l.fd \in Inodes
    /\ label \notin {"write", "rename"} => l.fd = NoInode
    /\ label \in {"open", "write", "rename", "publish"} => l.cfg = sanitize(l.cfg)

Places ==
    /\ pc \in [Procs -> Labels] /\ loc \in [Procs -> Locals]
    /\ \A p \in Procs : Fits(p, pc[p], loc[p])

DataInv ==
    /\ mem \in Config /\ mem = sanitize(mem)
    /\ disk \in Inodes /\ tmp \in Inodes \cup {NoInode} /\ tmp # disk
    /\ content \in [Inodes -> SUBSET Config]
    /\ profile \in [Ssids -> SUBSET Passwords]
    /\ radio \in Radios /\ link \in DOMAIN radio \cup {NoSsid}
    /\ listed \subseteq Ssids

TypeInv == DataInv /\ Places

LEMMA SanitizeTypes ==
    ASSUME NEW c \in Config
    PROVE  /\ sanitize(c) \in Config /\ sanitize(sanitize(c)) = sanitize(c)
           /\ sanitize(c).wl = c.wl /\ sanitize(c).enabled = c.enabled
<1> DEFINE Thr(t) == IF t = 0 \/ t > -50 THEN DefaultThreshold ELSE t
          Mar(m) == IF m = 0 THEN DefaultMinMargin ELSE m
<1>1. /\ \A t \in Int : Thr(t) \in Int /\ Thr(Thr(t)) = Thr(t)
      /\ \A m \in Int : Mar(m) \in Int /\ Mar(Mar(m)) = Mar(m)
  BY DEF DefaultThreshold, DefaultMinMargin
<1>2. \A d \in Config : /\ sanitize(d) = [d EXCEPT !.threshold = Thr(d.threshold),
                                                   !.margin = Mar(d.margin)]
                        /\ d.threshold \in Int /\ d.margin \in Int
  BY DEF sanitize, Config
<1> HIDE DEF Thr, Mar
<1>3. sanitize(c) \in Config /\ sanitize(c).wl = c.wl /\ sanitize(c).enabled = c.enabled
  BY <1>1, <1>2 DEF Config
<1>4. sanitize(c).threshold = Thr(c.threshold) /\ sanitize(c).margin = Mar(c.margin)
  BY <1>2 DEF Config
<1>5. /\ c.threshold \in Int /\ c.margin \in Int
      /\ sanitize(sanitize(c)) = [sanitize(c) EXCEPT !.threshold = Thr(sanitize(c).threshold),
                                                    !.margin = Mar(sanitize(c).margin)]
  BY <1>2, <1>3
<1>6. /\ Thr(sanitize(c).threshold) = sanitize(c).threshold
      /\ Mar(sanitize(c).margin) = sanitize(c).margin
  BY <1>1, <1>4, <1>5
<1>7. \A d \in Config : [d EXCEPT !.threshold = d.threshold, !.margin = d.margin] = d
  BY DEF Config
<1>8. sanitize(sanitize(c)) = sanitize(c)
  BY <1>3, <1>5, <1>6, <1>7
<1> QED BY <1>3, <1>8

LEMMA PartOfFacts ==
    ASSUME NEW S, NEW T
    PROVE  /\ \A f \in PartOf(S, T) : DOMAIN f \subseteq S /\ f \in [DOMAIN f -> T]
           /\ \A f : DOMAIN f \subseteq S /\ f \in [DOMAIN f -> T] => f \in PartOf(S, T)
  BY DEF PartOf

LEMMA ConfigFacts ==
    ASSUME NEW c \in Config
    PROVE  /\ DOMAIN c.wl \subseteq Ssids
           /\ \A s \in DOMAIN c.wl : c.wl[s] \in Passwords \cup {Blank}
           /\ WithPassword(c) \subseteq Ssids
           /\ \A s \in WithPassword(c) : c.wl[s] \in Passwords
  BY PartOfFacts DEF Config, WithPassword

LEMMA EngineOffType == EngineOff \in Config /\ sanitize(EngineOff) = EngineOff
<1>1. [s \in {} |-> Blank] \in PartOf(Ssids, Passwords \cup {Blank})
  BY DEF PartOf
<1>2. EngineOff \in Config /\ EngineOff.threshold = -75 /\ EngineOff.margin = 8
  BY <1>1 DEF EngineOff, Config, DefaultThreshold, DefaultMinMargin
<1>3. sanitize(EngineOff) = [EngineOff EXCEPT !.threshold = EngineOff.threshold,
                                              !.margin = EngineOff.margin]
  BY <1>2 DEF sanitize
<1>4. \A d \in Config : [d EXCEPT !.threshold = d.threshold, !.margin = d.margin] = d
  BY DEF Config
<1> QED BY <1>2, <1>3, <1>4

LEMMA FreshType == Fresh \in Locals
<1>1. [s \in {} |-> 0] \in PartOf(Ssids, Int)
  BY DEF PartOf
<1> QED BY <1>1, EngineOffType DEF Fresh, Locals

LEMMA RadioTypes ==
    ASSUME NEW r \in Radios
    PROVE  DOMAIN r \subseteq Ssids /\ r \in PartOf(Ssids, Int) /\ \A s \in DOMAIN r : r[s] \in Int
  BY ConstantsAssumption, PartOfFacts

\* A goroutine that goes where it fits leaves the others where they are.
LEMMA GotoFits ==
    ASSUME Places, NEW p \in Procs, NEW label, NEW l, Fits(p, label, l), Goto(p, label, l)
    PROVE  Places'
  BY DEF Places, Goto, Fits

LEMMA ReturnFits ==
    ASSUME Places, NEW p \in Procs, Return(p)
    PROVE  Places'
<1>1. Fits(p, IF p = Engine THEN "idle" ELSE "answered", Fresh)
  BY FreshType DEF Fits, Fresh, Labels, EngineLabels, Turn
<1> QED BY <1>1, GotoFits DEF Return

LEMMA StayFits ==
    ASSUME Places, UNCHANGED <<pc, loc>>
    PROVE  Places'
  BY DEF Places, Fits

LEMMA TypeInit == Init => TypeInv
<1> SUFFICES ASSUME Init PROVE TypeInv
  OBVIOUS
<1>1. Start \in Config /\ mem = sanitize(Start)
  BY ConstantsAssumption DEF Init
<1>2. mem \in Config /\ mem = sanitize(mem)
  BY <1>1, SanitizeTypes
<1>3. disk \in Inodes /\ tmp = NoInode /\ tmp # disk
  BY ConstantsAssumption DEF Init, NoInode
<1>4. content \in [Inodes -> SUBSET Config]
  BY <1>1 DEF Init
<1>5. profile \in [Ssids -> SUBSET Passwords]
  BY ConstantsAssumption DEF Init
<1>6. radio \in Radios /\ link \in DOMAIN radio \cup {NoSsid}
  BY ConstantsAssumption DEF Init
<1>7. listed \subseteq Ssids
  BY <1>1, ConfigFacts, ConstantsAssumption DEF Init
<1>8. \A p \in Procs : Fits(p, "idle", Fresh)
  BY FreshType DEF Fits, Fresh, Labels, EngineLabels, Turn
<1>9. Places
  BY <1>8, FreshType DEF Init, Places, Labels, EngineLabels
<1> QED BY <1>2, <1>3, <1>4, <1>5, <1>6, <1>7, <1>9 DEF TypeInv, DataInv

-----------------------------------------------------------------------------
(* Every step keeps the types.                                             *)

LEMMA DataStays ==
    ASSUME DataInv, UNCHANGED <<mem, saved, profile, air, listed>>
    PROVE  DataInv'
  BY DEF DataInv, saved, air

LEMMA LocFields ==
    ASSUME Places, NEW p \in Procs
    PROVE  /\ loc[p] \in Locals /\ Fits(p, pc[p], loc[p])
           /\ Fresh \in Locals /\ Fresh.fd = NoInode /\ Fresh.op = "none"
  BY FreshType DEF Places, Fresh

LEMMA GiveUpFits ==
    ASSUME Places, NEW p \in Procs, pc[p] \in Turn, GiveUp(p)
    PROVE  Places'
<1>1. CASE p = Engine /\ ~loc[p].rolling
  <2> DEFINE l == [loc[p] EXCEPT !.target = loc[p].from, !.pw = Blank, !.rolling = TRUE]
  <2>1. Goto(p, "profile", l)
    BY <1>1 DEF GiveUp
  <2>2. l \in Locals /\ l.target = loc[p].from /\ l.from = loc[p].from /\ l.op = loc[p].op
        /\ l.fd = loc[p].fd
    BY LocFields DEF Locals
  <2>3. Fits(p, "profile", l)
    BY <1>1, <2>2, LocFields DEF Fits, Labels, EngineLabels, Turn
  <2> QED BY <2>1, <2>3, GotoFits
<1>2. CASE ~(p = Engine /\ ~loc[p].rolling)
  BY <1>2, ReturnFits DEF GiveUp
<1> QED BY <1>1, <1>2

LEMMA EnsuredFits ==
    ASSUME Places, NEW p \in Procs, pc[p] \in {"profile", "add"}, NEW ok, Ensured(p, ok)
    PROVE  Places'
<1>1. CASE loc[p].op = "apply"
  <2> DEFINE l == [loc[p] EXCEPT !.todo = @ \ {loc[p].target}]
  <2>1. Goto(p, "sync", l)
    BY <1>1 DEF Ensured
  <2>2. l \in Locals /\ l.fd = loc[p].fd
    BY LocFields DEF Locals
  <2>3. Fits(p, "sync", l)
    BY <1>1, <2>2, LocFields DEF Fits, Labels, EngineLabels, Turn
  <2> QED BY <2>1, <2>3, GotoFits
<1>2. CASE loc[p].op # "apply" /\ ok
  <2>1. Fits(p, "up", loc[p])
    BY LocFields DEF Fits, Labels, EngineLabels, Turn
  <2> QED BY <1>2, <2>1, GotoFits DEF Ensured
<1>3. CASE loc[p].op # "apply" /\ ~ok
  BY <1>3, GiveUpFits DEF Ensured, Turn
<1> QED BY <1>1, <1>2, <1>3

LEMMA SwitchingTypes ==
    ASSUME TypeInv, NEW p \in Procs, Switching(p)
    PROVE  TypeInv'
<1> USE DEF TypeInv
<1>1. CASE CheckProfile(p)
  <2>1. DataInv'
    BY <1>1, DataStays DEF CheckProfile, history
  <2>2. CASE Ensured(p, TRUE) \/ Ensured(p, FALSE)
    BY <1>1, <2>1, <2>2, EnsuredFits DEF CheckProfile
  <2>3. CASE /\ loc[p].target \in WithPassword(mem)
             /\ Goto(p, "add", [loc[p] EXCEPT !.pw = mem.wl[loc[p].target]])
    <3> DEFINE l == [loc[p] EXCEPT !.pw = mem.wl[loc[p].target]]
    <3>1. mem.wl[loc[p].target] \in Passwords
      BY <2>3, ConfigFacts DEF DataInv
    <3>2. l \in Locals /\ l.pw \in Passwords /\ l.target = loc[p].target
          /\ l.from = loc[p].from /\ l.op = loc[p].op /\ l.fd = loc[p].fd
      BY <3>1, LocFields DEF Locals
    <3>3. Fits(p, "add", l)
      BY <1>1, <3>2, LocFields DEF CheckProfile, Fits, Labels, EngineLabels, Turn
    <3> QED BY <2>1, <2>3, <3>3, GotoFits
  <2> QED BY <1>1, <2>2, <2>3 DEF CheckProfile
<1>2. CASE AddProfile(p)
  <2>1. loc[p].target \in Ssids /\ loc[p].pw \in Passwords
    BY <1>2, LocFields DEF AddProfile, Fits, Turn
  <2> DEFINE s == loc[p].target
  <2>2. profile' \in [Ssids -> SUBSET Passwords]
    <3>1. profile[s] \cup {loc[p].pw} \in SUBSET Passwords /\ profile \in [Ssids -> SUBSET Passwords]
      BY <2>1 DEF DataInv
    <3>2. \/ profile' = [profile EXCEPT ![s] = profile[s] \cup {loc[p].pw}]
          \/ profile' = profile
      BY <1>2 DEF AddProfile
    <3> QED BY <3>1, <3>2
  <2>3. DataInv'
    BY <1>2, <2>2 DEF AddProfile, DataInv, saved, air, history
  <2>4. Places'
    BY <1>2, EnsuredFits DEF AddProfile
  <2> QED BY <2>3, <2>4
<1>3. CASE Up(p)
  <2>1. DataInv'
    BY <1>3 DEF Up, DataInv, saved
  <2>2. Fits(p, "verify", loc[p])
    BY <1>3, LocFields DEF Up, Fits, Labels, EngineLabels, Turn
  <2>3. Places'
    BY <1>3, <2>2, GotoFits, GiveUpFits DEF Up, Turn
  <2> QED BY <2>1, <2>3
<1>4. CASE Verify(p)
  BY <1>4, ReturnFits, GiveUpFits, DataStays DEF Verify, Turn, history
<1> QED BY <1>1, <1>2, <1>3, <1>4 DEF Switching

LEMMA EngineTypes ==
    ASSUME TypeInv, EngineStep
    PROVE  TypeInv'
<1> USE DEF TypeInv
<1>0. Engine \in Procs
  BY DEF Procs
<1>1. CASE Tick
  <2> DEFINE l == [Fresh EXCEPT !.thr = mem.threshold, !.margin = mem.margin]
  <2>1. mem.threshold \in Int /\ mem.margin \in Int
    BY DEF DataInv, Config
  <2>2. l \in Locals /\ l.op = "none" /\ l.fd = NoInode
    BY <2>1, <1>0, LocFields DEF Locals
  <2>3. Fits(Engine, "scan", l)
    BY <2>2 DEF Fits, Labels, EngineLabels, Turn
  <2> QED BY <1>0, <1>1, <2>3, GotoFits, DataStays DEF Tick, history
<1>2. CASE Scan
  <2> DEFINE l == [loc[Engine] EXCEPT !.heard = radio]
  <2>1. radio \in PartOf(Ssids, Int)
    BY RadioTypes DEF DataInv
  <2>2. l \in Locals /\ l.op = loc[Engine].op /\ l.fd = loc[Engine].fd
    BY <2>1, <1>0, LocFields DEF Locals
  <2>3. Fits(Engine, "assess", l)
    BY <1>0, <1>2, <2>2, LocFields DEF Scan, Fits, Labels, EngineLabels, Turn
  <2> QED BY <1>0, <1>2, <2>3, GotoFits, ReturnFits, DataStays DEF Scan, history
<1>3. CASE ReadLink
  <2> DEFINE l == [loc[Engine] EXCEPT !.from = link, !.rssi = radio[link]]
  <2>1. DataInv'
    BY <1>3, DataStays DEF ReadLink, history
  <2>2. CASE Return(Engine)
    BY <1>0, <2>1, <2>2, ReturnFits
  <2>3. CASE link # NoSsid /\ Goto(Engine, "choose", l)
    <3>1. link \in Ssids /\ radio[link] \in Int
      BY <2>3, RadioTypes DEF DataInv
    <3>2. l \in Locals /\ l.op = loc[Engine].op /\ l.fd = loc[Engine].fd /\ l.from \in Ssids
      BY <3>1, <1>0, LocFields DEF Locals
    <3>3. Fits(Engine, "choose", l)
      BY <1>0, <1>3, <3>2, LocFields DEF ReadLink, Fits, Labels, EngineLabels, Turn
    <3> QED BY <1>0, <2>1, <2>3, <3>3, GotoFits
  <2> QED BY <1>3, <2>2, <2>3 DEF ReadLink
<1>4. CASE Choose
  <2>1. DataInv'
    BY <1>4, DataStays DEF Choose, history
  <2>2. CASE Return(Engine)
    BY <1>0, <2>1, <2>2, ReturnFits
  <2>3. ASSUME NEW s \in DOMAIN mem.wl,
               Goto(Engine, "profile", [Fresh EXCEPT !.from = loc[Engine].from, !.target = s])
        PROVE  TypeInv'
    <3> DEFINE l == [Fresh EXCEPT !.from = loc[Engine].from, !.target = s]
    <3>1. s \in Ssids
      BY ConfigFacts DEF DataInv
    <3>2. loc[Engine].from \in Ssids
      BY <1>0, <1>4, LocFields DEF Choose, Fits
    <3>3. l \in Locals /\ l.op = "none" /\ l.fd = NoInode /\ l.from \in Ssids /\ l.target \in Ssids
      BY <3>1, <3>2, <1>0, LocFields DEF Locals
    <3>4. Fits(Engine, "profile", l)
      BY <3>3 DEF Fits, Labels, EngineLabels, Turn
    <3> QED BY <1>0, <2>1, <2>3, <3>4, GotoFits
  <2>4. \A s \in pick(loc[Engine].heard, [NoLink EXCEPT !.ssid = loc[Engine].from, !.rssi = loc[Engine].rssi],
                      DOMAIN mem.wl, loc[Engine].thr, loc[Engine].margin) : s \in DOMAIN mem.wl
    BY DEF pick
  <2> QED BY <1>4, <2>2, <2>3, <2>4 DEF Choose
<1>5. CASE Switching(Engine)
  BY <1>0, <1>5, SwitchingTypes
<1> QED BY <1>1, <1>2, <1>3, <1>4, <1>5 DEF EngineStep

LEMMA SaveTypes ==
    ASSUME TypeInv, NEW p \in Cmds, Save(p)
    PROVE  TypeInv'
<1> USE DEF TypeInv
<1>0. p \in Procs /\ p # Engine
  BY ConstantsAssumption DEF Procs
<1>1. CASE OpenTmp(p)
  <2> DEFINE Free(i) == i # disk /\ \A q \in Cmds : loc[q].fd # i
  <2>1. \E i \in Inodes : Free(i)
    <3> DEFINE fd == [q \in Cmds \ {p} |-> loc[q].fd]
    <3>1. fd \in [Cmds \ {p} -> Inodes \cup {NoInode}]
      <4>1. \A q \in Cmds : loc[q].fd \in Inodes \cup {NoInode}
        BY DEF Places, Locals, Procs
      <4> QED BY <4>1
    <3>2. PICK i \in Inodes : i # disk /\ \A q \in Cmds \ {p} : fd[q] # i
      <4>1. \A g \in [Cmds \ {p} -> Inodes \cup {NoInode}] :
              \E j \in Inodes : j # disk /\ \A q \in Cmds \ {p} : g[q] # j
        BY InodesAssumption, Zenon DEF DataInv
      <4> HIDE DEF fd
      <4> QED BY <3>1, <4>1, Zenon
    <3>3. loc[p].fd = NoInode /\ i # NoInode
      BY <1>0, <1>1, LocFields, ConstantsAssumption DEF OpenTmp, Fits
    <3>4. \A q \in Cmds : loc[q].fd # i
      <4>1. \A q \in Cmds \ {p} : fd[q] = loc[q].fd
        OBVIOUS
      <4> QED BY <3>2, <3>3, <4>1
    <3> QED BY <3>2, <3>4
  <2>2. PICK i \in Inodes : /\ i # disk
                            /\ tmp' = i /\ content' = [content EXCEPT ![i] = Torn]
                            /\ Goto(p, "write", [loc[p] EXCEPT !.fd = i])
    <3>1. CASE tmp # NoInode
      BY <1>1, <3>1 DEF OpenTmp, DataInv
    <3>2. CASE tmp = NoInode
      BY <1>1, <2>1, <3>2 DEF OpenTmp
    <3> QED BY <3>1, <3>2
  <2>3. DataInv'
    BY <1>1, <2>2 DEF OpenTmp, DataInv, Torn, air, history
  <2> DEFINE l == [loc[p] EXCEPT !.fd = i]
  <2>4. l \in Locals /\ l.op = loc[p].op /\ l.fd \in Inodes /\ l.cfg = loc[p].cfg
    BY <1>0, <2>2, LocFields DEF Locals
  <2>5. Fits(p, "write", l)
    BY <1>0, <1>1, <2>4, LocFields DEF OpenTmp, Fits, Labels, EngineLabels, Turn
  <2> QED BY <1>0, <2>2, <2>3, <2>5, GotoFits
<1>2. CASE WriteTmp(p)
  <2>1. loc[p].cfg \in Config /\ loc[p].fd \in Inodes
    BY <1>0, <1>2, LocFields DEF WriteTmp, Fits, Locals
  <2>2. DataInv'
    BY <1>2, <2>1 DEF WriteTmp, DataInv, air, history
  <2>3. Fits(p, "rename", loc[p])
    BY <1>0, <1>2, <2>1, LocFields DEF WriteTmp, Fits, Labels, EngineLabels, Turn
  <2> QED BY <1>0, <1>2, <2>2, <2>3, GotoFits, ReturnFits DEF WriteTmp
<1>3. CASE Rename(p)
  <2>1. DataInv'
    BY <1>3, ConstantsAssumption DEF Rename, DataInv, saved, air, history
  <2> DEFINE l == [loc[p] EXCEPT !.fd = NoInode]
  <2>2. l \in Locals /\ l.op = loc[p].op /\ l.fd = NoInode /\ l.cfg = loc[p].cfg
    BY <1>0, LocFields DEF Locals
  <2>3. Fits(p, "publish", l)
    BY <1>0, <1>3, <2>2, LocFields DEF Rename, Fits, Labels, EngineLabels, Turn
  <2> QED BY <1>0, <1>3, <2>1, <2>3, GotoFits, ReturnFits DEF Rename
<1>4. CASE Publish(p)
  <2>1. loc[p].cfg \in Config /\ loc[p].cfg = sanitize(loc[p].cfg)
    BY <1>0, <1>4, LocFields DEF Publish, Fits, Locals
  <2>2. WithPassword(loc[p].cfg) \subseteq Ssids
    BY <2>1, ConfigFacts
  <2>3. DataInv'
    BY <1>4, <2>1, <2>2 DEF Publish, SetMem, DataInv, saved, air
  <2> DEFINE l == [Fresh EXCEPT !.op = "apply"]
  <2>4. l \in Locals /\ l.fd = NoInode
    BY <1>0, LocFields DEF Locals
  <2>5. Fits(p, "list", l)
    BY <1>0, <2>4 DEF Fits, Labels, EngineLabels, Turn
  <2> QED BY <1>0, <1>4, <2>3, <2>5, GotoFits DEF Publish
<1> QED BY <1>1, <1>2, <1>3, <1>4 DEF Save

\* What BeginApply makes of a request: the passwords known now are kept.
Merged(c) ==
    [sanitize(c) EXCEPT !.wl = [s \in DOMAIN sanitize(c).wl |->
       IF sanitize(c).wl[s] = Blank /\ s \in DOMAIN mem.wl THEN mem.wl[s] ELSE sanitize(c).wl[s]]]

Keeps(old, new) == \A s \in WithPassword(old) \cap DOMAIN new.wl : new.wl[s] # Blank

LEMMA MergedFacts ==
    ASSUME mem \in Config, NEW c \in Config
    PROVE  Merged(c) \in Config /\ Merged(c) = sanitize(Merged(c)) /\ Keeps(mem, Merged(c))
<1> DEFINE e == sanitize(c)
           w == [s \in DOMAIN e.wl |-> IF e.wl[s] = Blank /\ s \in DOMAIN mem.wl THEN mem.wl[s] ELSE e.wl[s]]
<1>1. e \in Config /\ sanitize(e) = e
  BY SanitizeTypes
<1>2. w \in PartOf(Ssids, Passwords \cup {Blank})
  <2>1. DOMAIN w \subseteq Ssids /\ \A s \in DOMAIN w : w[s] \in Passwords \cup {Blank}
    BY <1>1, ConfigFacts
  <2> HIDE DEF e
  <2>2. w \in [DOMAIN w -> Passwords \cup {Blank}]
    BY <2>1
  <2> QED BY <2>1, <2>2, PartOfFacts
<1>3. Merged(c) = [e EXCEPT !.wl = w]
  BY DEF Merged
<1>4. \A s \in WithPassword(mem) \cap DOMAIN w : w[s] # Blank
  BY DEF WithPassword
<1> HIDE DEF e, w
<1>5. Merged(c) \in Config /\ Merged(c).wl = w
  BY <1>1, <1>2, <1>3 DEF Config
<1>6. sanitize(Merged(c)) = Merged(c)
  <2>1. /\ sanitize(e).threshold = e.threshold /\ sanitize(e).margin = e.margin
    BY <1>1
  <2>2. /\ Merged(c).threshold = e.threshold /\ Merged(c).margin = e.margin
    BY <1>1, <1>3 DEF Config
  <2>3. /\ sanitize(Merged(c)).threshold = e.threshold /\ sanitize(Merged(c)).margin = e.margin
    BY <1>1, <1>5, <2>1, <2>2 DEF sanitize, Config
  <2>4. sanitize(Merged(c)) = [Merged(c) EXCEPT !.threshold = sanitize(Merged(c)).threshold,
                                                !.margin = sanitize(Merged(c)).margin]
    BY <1>5 DEF sanitize, Config
  <2>5. \A d \in Config : [d EXCEPT !.threshold = d.threshold, !.margin = d.margin] = d
    BY DEF Config
  <2> QED BY <1>5, <2>2, <2>3, <2>4, <2>5
<1> QED BY <1>4, <1>5, <1>6 DEF Keeps

LEMMA CmdTypes ==
    ASSUME TypeInv, NEW p \in Cmds, CmdStep(p)
    PROVE  TypeInv'
<1> USE DEF TypeInv
<1>0. p \in Procs /\ p # Engine
  BY ConstantsAssumption DEF Procs
<1>1. CASE ListEntries(p)
  <2> DEFINE l == [loc[p] EXCEPT !.todo = WithPassword(mem)]
  <2>1. WithPassword(mem) \subseteq Ssids
    BY ConfigFacts DEF DataInv
  <2>2. l \in Locals /\ l.fd = loc[p].fd
    BY <1>0, <2>1, LocFields DEF Locals
  <2>3. Fits(p, "sync", l)
    BY <1>0, <1>1, <2>2, LocFields DEF ListEntries, Fits, Labels, EngineLabels, Turn
  <2> QED BY <1>0, <1>1, <2>3, GotoFits, DataStays DEF ListEntries, history
<1>2. CASE SyncNext(p)
  <2>1. DataInv'
    BY <1>2, DataStays DEF SyncNext, history
  <2>2. ASSUME NEW s \in loc[p].todo,
               Goto(p, "profile", [loc[p] EXCEPT !.target = s, !.pw = Blank])
        PROVE  Places'
    <3> DEFINE l == [loc[p] EXCEPT !.target = s, !.pw = Blank]
    <3>1. s \in Ssids
      BY <1>0, LocFields DEF Locals
    <3>2. l \in Locals /\ l.target = s /\ l.fd = loc[p].fd
      BY <1>0, <3>1, LocFields DEF Locals
    <3>3. Fits(p, "profile", l)
      BY <1>0, <1>2, <3>1, <3>2, LocFields DEF SyncNext, Fits, Labels, EngineLabels, Turn
    <3> QED BY <1>0, <2>2, <3>3, GotoFits
  <2> QED BY <1>0, <1>2, <2>1, <2>2, ReturnFits DEF SyncNext
<1> QED BY <1>0, <1>1, <1>2, SaveTypes, SwitchingTypes DEF CmdStep

LEMMA AskTypes ==
    ASSUME TypeInv, NEW p \in Cmds, Ask(p)
    PROVE  TypeInv'
<1> USE DEF TypeInv
<1>0. p \in Procs /\ p # Engine
  BY ConstantsAssumption DEF Procs
<1>1. ASSUME NEW c \in Requests, BeginApply(p, c) PROVE TypeInv'
  <2> DEFINE l == [Fresh EXCEPT !.op = "apply", !.cfg = Merged(c)]
  <2>1. Merged(c) \in Config /\ Merged(c) = sanitize(Merged(c))
    BY MergedFacts, ConstantsAssumption DEF DataInv
  <2>2. l \in Locals /\ l.fd = NoInode /\ l.cfg = Merged(c)
    BY <1>0, <2>1, LocFields DEF Locals
  <2>3. Fits(p, "open", l)
    BY <1>0, <2>1, <2>2 DEF Fits, Labels, EngineLabels, Turn
  <2>4. Goto(p, "open", l)
    BY <1>1 DEF BeginApply, Merged
  <2> QED BY <1>0, <1>1, <2>3, <2>4, GotoFits, DataStays DEF BeginApply
<1>2. ASSUME NEW s \in Ssids, BeginSwitch(p, s) PROVE TypeInv'
  <2> DEFINE l == [Fresh EXCEPT !.op = "switch", !.target = s]
  <2>1. l \in Locals /\ l.fd = NoInode /\ l.target = s
    BY <1>0, LocFields DEF Locals
  <2>2. Fits(p, "profile", l)
    BY <1>0, <2>1 DEF Fits, Labels, EngineLabels, Turn
  <2> QED BY <1>0, <1>2, <2>2, GotoFits, ReturnFits, DataStays DEF BeginSwitch, history
<1>3. ASSUME NEW s \in Ssids, Connect(p, s) PROVE TypeInv'
  <2>1. DataInv'
    BY <1>3 DEF Connect, DataInv, saved, history
  <2> QED BY <1>0, <1>3, <2>1, ReturnFits DEF Connect
<1> QED BY <1>1, <1>2, <1>3 DEF Ask

\* What a restart reads, or the defaults.
LEMMA LoadTypes ==
    ASSUME DataInv, loadConfig
    PROVE  /\ mem' \in Config /\ mem' = sanitize(mem') /\ listed' = listed \cup WithPassword(mem')
           /\ lateUps' = IF mem'.enabled THEN 0 ELSE lateUps
           /\ \A c : content[disk] = {c} => mem' = sanitize(c)
<1>1. CASE content[disk] = Torn
  BY <1>1, EngineOffType DEF loadConfig, SetMem, Torn
<1>2. CASE content[disk] # Torn
  <2> DEFINE c == CHOOSE c \in content[disk] : TRUE
  <2>1. c \in content[disk] /\ mem' = sanitize(c)
    BY <1>2 DEF loadConfig, SetMem, Torn
  <2>2. c \in Config
    BY <2>1 DEF DataInv
  <2>3. \A d : content[disk] = {d} => d = c
    BY <2>1
  <2> HIDE DEF c
  <2> QED BY <1>2, <2>1, <2>2, <2>3, SanitizeTypes DEF loadConfig, SetMem
<1> QED BY <1>1, <1>2

LEMMA RestartTypes ==
    ASSUME TypeInv, Restart
    PROVE  TypeInv'
<1> USE DEF TypeInv
<1>1. DataInv'
  <2>1. mem' \in Config /\ mem' = sanitize(mem') /\ listed' = listed \cup WithPassword(mem')
    BY LoadTypes DEF Restart
  <2>2. WithPassword(mem') \subseteq Ssids
    BY <2>1, ConfigFacts
  <2> QED BY <2>1, <2>2 DEF Restart, DataInv, saved, air
<1>2. \A label \in {"idle", "answered"} : \A p \in Procs :
        p = Engine /\ label = "idle" => Fits(p, label, Fresh)
  BY FreshType DEF Fits, Fresh, Labels, EngineLabels, Turn
<1>3. \A label \in {"idle", "answered"} : \A p \in Procs :
        p # Engine => Fits(p, label, Fresh)
  BY FreshType DEF Fits, Fresh, Labels, EngineLabels, Turn
<1>4. /\ pc' \in [Procs -> {"idle", "answered"}] /\ pc'[Engine] = "idle"
      /\ loc' = [p \in Procs |-> Fresh]
  BY DEF Restart, Procs
<1>5. Places'
  BY <1>2, <1>3, <1>4, FreshType DEF Places, Labels, EngineLabels
<1> QED BY <1>1, <1>5

LEMMA TypeStep == TypeInv /\ [Next]_vars => TypeInv'
<1> SUFFICES ASSUME TypeInv, [Next]_vars PROVE TypeInv'
  OBVIOUS
<1> USE DEF TypeInv
<1>1. CASE EngineActs
  BY <1>1, EngineTypes DEF EngineActs
<1>2. CASE \E p \in Cmds : CmdActs(p)
  BY <1>2, CmdTypes DEF CmdActs
<1>3. CASE Elapse \/ Report
  BY <1>3, StayFits, DataStays DEF Elapse, Report, history
<1>4. CASE \E p \in Cmds : Ask(p)
  BY <1>4, AskTypes
<1>5. CASE Drift
  <2>1. DataInv'
    BY <1>5 DEF Drift, DataInv, saved, history
  <2> QED BY <1>5, <2>1, StayFits DEF Drift
<1>6. ASSUME NEW s \in Ssids, Autoconnect(s) PROVE TypeInv'
  <2>1. DataInv'
    BY <1>6 DEF Autoconnect, DataInv, saved, history
  <2> QED BY <1>6, <2>1, StayFits DEF Autoconnect
<1>7. CASE Restart
  BY <1>7, RestartTypes
<1>8. CASE UNCHANGED vars
  BY <1>8, StayFits, DataStays DEF vars, history
<1> QED BY <1>1, <1>2, <1>3, <1>4, <1>5, <1>6, <1>7, <1>8 DEF Next, Others

LEMMA TypesHold == Spec => []TypeInv
  BY TypeInit, TypeStep, PTL DEF Spec

\* Type correctness of the guard: memory and files hold configurations, the
\* temporary file is never the file, and a writer has it open.
THEOREM TypeCorrect == Spec => []TypeOK
<1>1. TypeInv => TypeOK
  BY DEF TypeInv, DataInv, Places, Fits, TypeOK
<1> QED BY <1>1, TypesHold, PTL

-----------------------------------------------------------------------------
(* Only listed networks: what was listed with a password stays in listed,  *)
(* and a goroutine that has got past the profile has seen one.             *)

ListedInv ==
    /\ WithPassword(mem) \subseteq listed
    /\ \A s \in Ssids : profile[s] # {} => s \in listed
    /\ \A p \in Procs : pc[p] \in {"add", "up", "verify"} => loc[p].target \in listed

LEMMA ListedInit == Init => ListedInv
<1> SUFFICES ASSUME Init PROVE ListedInv
  OBVIOUS
<1>1. WithPassword(mem) = WithPassword(Start)
  BY SanitizeTypes, ConstantsAssumption DEF Init, WithPassword
<1> QED BY <1>1 DEF Init, ListedInv

\* One goroutine has moved; if past the profile, to a listed network.
LEMMA GotoListed ==
    ASSUME Places, ListedInv, NEW p \in Procs, NEW label, NEW l, Goto(p, label, l),
           label \in {"add", "up", "verify"} => l.target \in listed,
           UNCHANGED <<mem, profile, listed>>
    PROVE  ListedInv'
  BY DEF Places, ListedInv, Goto

LEMMA GiveUpListed ==
    ASSUME Places, ListedInv, NEW p \in Procs, GiveUp(p) \/ Return(p),
           UNCHANGED <<mem, profile, listed>>
    PROVE  ListedInv'
  BY GotoListed DEF GiveUp, Return

LEMMA SwitchingListed ==
    ASSUME TypeInv, ListedInv, NEW p \in Procs, Switching(p)
    PROVE  ListedInv'
<1> USE DEF TypeInv
<1>1. ASSUME NEW ok, Ensured(p, ok), ok => loc[p].target \in listed,
             UNCHANGED <<mem, profile, listed>>
      PROVE  ListedInv'
  BY <1>1, GotoListed, GiveUpListed DEF Ensured
<1>2. CASE CheckProfile(p)
  <2>1. UNCHANGED <<mem, profile, listed>>
    BY <1>2 DEF CheckProfile, history
  <2>2. loc[p].target \in Ssids
    BY <1>2, LocFields DEF CheckProfile, Fits, Turn
  <2>3. CASE profile[loc[p].target] # {} /\ Ensured(p, TRUE)
    BY <1>1, <2>1, <2>2, <2>3 DEF ListedInv
  <2>4. CASE loc[p].target \in WithPassword(mem) /\ Goto(p, "add", [loc[p] EXCEPT !.pw = mem.wl[loc[p].target]])
    <3> DEFINE l == [loc[p] EXCEPT !.pw = mem.wl[loc[p].target]]
    <3>1. l.target \in listed
      BY <2>4, LocFields DEF Locals, ListedInv
    <3> QED BY <2>1, <2>4, <3>1, GotoListed
  <2>5. CASE Ensured(p, FALSE)
    BY <1>1, <2>1, <2>5
  <2> QED BY <1>2, <2>3, <2>4, <2>5 DEF CheckProfile
<1>3. CASE AddProfile(p)
  <2>1. loc[p].target \in Ssids /\ loc[p].target \in listed
    BY <1>3, LocFields DEF AddProfile, Fits, Turn, ListedInv
  <2>2. CASE Ensured(p, FALSE) /\ UNCHANGED profile
    BY <1>1, <1>3, <2>2 DEF AddProfile, history
  <2>3. CASE Ensured(p, TRUE) /\ profile' = [profile EXCEPT ![loc[p].target] = @ \cup {loc[p].pw}]
    <3>1. \A s \in Ssids : profile'[s] # {} => s \in listed
      BY <2>1, <2>3 DEF DataInv, ListedInv
    <3>2. UNCHANGED <<mem, listed>>
      BY <1>3 DEF AddProfile, history
    <3>3. pc' = [pc EXCEPT ![p] = pc'[p]] /\ (pc'[p] \in {"add", "up", "verify"} => loc'[p].target \in listed)
          /\ loc' = [loc EXCEPT ![p] = loc'[p]]
      BY <2>1, <2>3 DEF Ensured, Goto, Places
    <3> QED BY <3>1, <3>2, <3>3 DEF ListedInv, Places
  <2> QED BY <1>3, <2>2, <2>3 DEF AddProfile
<1>4. CASE Up(p)
  <2>1. UNCHANGED <<mem, profile, listed>> /\ loc[p].target \in listed
    BY <1>4 DEF Up, ListedInv
  <2>2. GiveUp(p) \/ Goto(p, "verify", loc[p])
    BY <1>4 DEF Up
  <2> QED BY <2>1, <2>2, GotoListed, GiveUpListed
<1>5. CASE Verify(p)
  BY <1>5, GiveUpListed DEF Verify, history
<1> QED BY <1>2, <1>3, <1>4, <1>5 DEF Switching

LEMMA ListedStep == TypeInv /\ ListedInv /\ [Next]_vars => ListedInv'
<1> SUFFICES ASSUME TypeInv, ListedInv, [Next]_vars PROVE ListedInv'
  OBVIOUS
<1> USE DEF TypeInv
<1>0. Engine \in Procs /\ \A p \in Cmds : p \in Procs
  BY DEF Procs
<1>1. CASE EngineStep
  <2>1. CASE Switching(Engine)
    BY <1>0, <2>1, SwitchingListed
  <2>2. CASE Tick \/ Scan \/ ReadLink \/ Choose
    <3>1. UNCHANGED <<mem, profile, listed>>
      BY <2>2 DEF Tick, Scan, ReadLink, Choose, history
    <3>2. \/ Return(Engine)
          \/ \E label \in {"scan", "assess", "choose", "profile"}, l \in {loc'[Engine]} :
               Goto(Engine, label, l)
      BY <1>0, <2>2 DEF Tick, Scan, ReadLink, Choose, Goto, Places
    <3> QED BY <1>0, <3>1, <3>2, GotoListed, GiveUpListed
  <2> QED BY <1>1, <2>1, <2>2 DEF EngineStep
<1>2. ASSUME NEW p \in Cmds, CmdStep(p) PROVE ListedInv'
  <2>1. CASE Switching(p)
    BY <1>0, <2>1, SwitchingListed
  <2>2. CASE Publish(p)
    <3>1. mem' = loc[p].cfg /\ listed' = listed \cup WithPassword(mem') /\ UNCHANGED profile
      BY <2>2 DEF Publish, SetMem
    <3>2. pc' = [pc EXCEPT ![p] = "list"] /\ loc' = [loc EXCEPT ![p] = loc'[p]]
      BY <1>0, <2>2 DEF Publish, Goto, Places
    <3> QED BY <1>0, <3>1, <3>2 DEF ListedInv, Places
  <2>3. CASE OpenTmp(p) \/ WriteTmp(p) \/ Rename(p) \/ ListEntries(p) \/ SyncNext(p)
    <3>1. UNCHANGED <<mem, profile, listed>>
      BY <2>3 DEF OpenTmp, WriteTmp, Rename, ListEntries, SyncNext, history
    <3>2. \/ Return(p)
          \/ \E label \in {"write", "rename", "publish", "sync", "profile"}, l \in {loc'[p]} :
               Goto(p, label, l)
      BY <1>0, <2>3 DEF OpenTmp, WriteTmp, Rename, ListEntries, SyncNext, Goto, Places
    <3> QED BY <1>0, <3>1, <3>2, GotoListed, GiveUpListed
  <2> QED BY <1>2, <2>1, <2>2, <2>3 DEF CmdStep, Save
<1>3. ASSUME NEW p \in Cmds, Ask(p) PROVE ListedInv'
  <2>1. UNCHANGED <<mem, profile, listed>>
    BY <1>3 DEF Ask, BeginApply, BeginSwitch, Connect, history
  <2>2. \/ Return(p)
        \/ \E label \in {"open", "profile"}, l \in {loc'[p]} : Goto(p, label, l)
    BY <1>0, <1>3 DEF Ask, BeginApply, BeginSwitch, Connect, Goto, Places
  <2> QED BY <1>0, <2>1, <2>2, GotoListed, GiveUpListed
<1>4. CASE Restart
  <2>1. listed' = listed \cup WithPassword(mem') /\ UNCHANGED profile
    BY <1>4, LoadTypes DEF Restart
  <2>2. \A p \in Procs : pc'[p] \in {"idle", "answered"}
    BY <1>4 DEF Restart
  <2> QED BY <2>1, <2>2 DEF ListedInv
<1>5. CASE Elapse \/ Report \/ Drift \/ (\E s \in Ssids : Autoconnect(s)) \/ UNCHANGED vars
  <2>1. UNCHANGED <<mem, profile, listed, pc, loc>>
    BY <1>5 DEF Elapse, Report, Drift, Autoconnect, vars, history
  <2> QED BY <2>1 DEF ListedInv
<1> QED BY <1>1, <1>2, <1>3, <1>4, <1>5 DEF Next, EngineActs, CmdActs, Others

-----------------------------------------------------------------------------
(* Off means off: the networks that a turn of the engine may still bring   *)
(* up are counted, by where the turn is.                                   *)

Left ==
    IF pc[Engine] \in {"profile", "add", "up"} THEN IF loc[Engine].rolling THEN 1 ELSE 2
    ELSE IF pc[Engine] = "verify" /\ ~loc[Engine].rolling THEN 1 ELSE 0

LateInv ==
    /\ lateUps \in Nat
    /\ mem.enabled => lateUps = 0
    /\ lateUps + Left <= 2

LEMMA LateInit == Init => LateInv
  BY DEF Init, LateInv, Left, Procs

LEMMA LeftNat == Places => Left \in 0..2
  BY DEF Left

LEMMA Budget == \A a, b, c \in Int : a + b <= 2 /\ c <= b => a + c <= 2
  OBVIOUS

\* The engine's turn has not got longer.
LEMMA LateStays ==
    ASSUME Places, LateInv, UNCHANGED <<mem, lateUps>>, Left' <= Left, Left' \in Nat
    PROVE  LateInv'
<1>0. Left \in Int /\ lateUps \in Int /\ lateUps \in Nat /\ lateUps + Left <= 2 /\ lateUps' = lateUps
  BY LeftNat DEF LateInv
<1>1. lateUps' \in Nat /\ lateUps' + Left' <= 2
  <2>1. Left' \in Int /\ Left' <= Left
    OBVIOUS
  <2>2. lateUps + Left' <= 2
    BY <1>0, <2>1, Budget, Zenon
  <2> QED BY <1>0, <2>2, Zenon
<1>2. mem'.enabled => lateUps' = 0
  BY DEF LateInv
<1> QED BY <1>1, <1>2 DEF LateInv

LEMMA EngineGoes ==
    ASSUME Places, NEW label, NEW l, Goto(Engine, label, l)
    PROVE  pc'[Engine] = label /\ loc'[Engine] = l
  BY DEF Places, Goto, Procs

LEMMA ReturnLeft ==
    ASSUME Places, Return(Engine)
    PROVE  Left' = 0
  BY EngineGoes DEF Return, Left

\* On the way back nothing is tried but the network it came from.
LEMMA GiveUpLeft ==
    ASSUME Places, pc[Engine] \in Turn, GiveUp(Engine)
    PROVE  /\ Left' \in Nat /\ Left' <= Left
           /\ pc[Engine] = "up" => Left' = Left - 1
<1>1. CASE ~loc[Engine].rolling
  <2> DEFINE l == [loc[Engine] EXCEPT !.target = loc[Engine].from, !.pw = Blank, !.rolling = TRUE]
  <2>1. pc'[Engine] = "profile" /\ loc'[Engine] = l
    BY <1>1, EngineGoes DEF GiveUp
  <2>2. l.rolling = TRUE
    BY LocFields DEF Locals, Procs
  <2>3. Left' = 1
    BY <2>1, <2>2 DEF Left
  <2> QED BY <1>1, <2>3 DEF Left, Turn
<1>2. CASE loc[Engine].rolling
  BY <1>2, ReturnLeft DEF GiveUp, Left, Turn
<1> QED BY <1>1, <1>2

LEMMA EnsuredLeft ==
    ASSUME Places, pc[Engine] \in {"profile", "add"}, NEW ok, Ensured(Engine, ok)
    PROVE  Left' \in Nat /\ Left' <= Left
<1>1. loc[Engine].op # "apply"
  BY LocFields DEF Fits, Procs
<1>2. CASE ok
  BY <1>1, <1>2, EngineGoes DEF Ensured, Left
<1>3. CASE ~ok
  BY <1>1, <1>3, GiveUpLeft DEF Ensured, Turn
<1> QED BY <1>2, <1>3

LEMMA SwitchingLate ==
    ASSUME Places, LateInv, Switching(Engine)
    PROVE  LateInv'
<1>1. CASE CheckProfile(Engine)
  <2>1. UNCHANGED <<mem, lateUps>>
    BY <1>1 DEF CheckProfile, history
  <2>2. ASSUME NEW w, Goto(Engine, "add", [loc[Engine] EXCEPT !.pw = w])
        PROVE  Left' = Left /\ Left' \in Nat
    <3>1. pc'[Engine] = "add" /\ loc'[Engine] = [loc[Engine] EXCEPT !.pw = w]
      BY <2>2, EngineGoes
    <3>2. loc'[Engine].rolling = loc[Engine].rolling
      BY <3>1, LocFields DEF Locals, Procs
    <3> QED BY <1>1, <3>1, <3>2 DEF Left, CheckProfile
  <2>3. Left' \in Nat /\ Left' <= Left
    <3>1. CASE Ensured(Engine, TRUE) \/ Ensured(Engine, FALSE)
      BY <1>1, <3>1, EnsuredLeft DEF CheckProfile
    <3>2. CASE \E w : Goto(Engine, "add", [loc[Engine] EXCEPT !.pw = w])
      BY <2>2, <3>2, LeftNat
    <3> QED BY <1>1, <3>1, <3>2 DEF CheckProfile
  <2> QED BY <2>1, <2>3, LateStays
<1>2. CASE AddProfile(Engine)
  <2>1. UNCHANGED <<mem, lateUps>>
    BY <1>2 DEF AddProfile, history
  <2>2. Left' \in Nat /\ Left' <= Left
    BY <1>2, EnsuredLeft DEF AddProfile
  <2> QED BY <2>1, <2>2, LateStays
<1>3. CASE Up(Engine)
  <2>1. mem' = mem /\ lateUps' = IF ~mem.enabled THEN lateUps + 1 ELSE lateUps
    BY <1>3 DEF Up
  <2>2. Left' \in Nat /\ Left' = Left - 1
    <3>1. CASE GiveUp(Engine)
      BY <1>3, <3>1, GiveUpLeft DEF Up, Turn
    <3>2. CASE Goto(Engine, "verify", loc[Engine])
      BY <1>3, <3>2, EngineGoes DEF Up, Left
    <3> QED BY <1>3, <3>1, <3>2 DEF Up
  <2> QED BY <2>1, <2>2, LeftNat DEF LateInv
<1>4. CASE Verify(Engine)
  <2>1. UNCHANGED <<mem, lateUps>>
    BY <1>4 DEF Verify, history
  <2>2. Left' \in Nat /\ Left' <= Left
    BY <1>4, GiveUpLeft, ReturnLeft, LeftNat DEF Verify, Turn
  <2> QED BY <2>1, <2>2, LateStays
<1> QED BY <1>1, <1>2, <1>3, <1>4 DEF Switching

LEMMA EngineLate ==
    ASSUME TypeInv, LateInv, EngineStep
    PROVE  LateInv'
<1> USE DEF TypeInv
<1>1. CASE Tick \/ Scan \/ ReadLink
  <2>1. UNCHANGED <<mem, lateUps>>
    BY <1>1 DEF Tick, Scan, ReadLink, history
  <2>2. pc'[Engine] \in {"idle", "scan", "assess", "choose"}
    BY <1>1, EngineGoes DEF Tick, Scan, ReadLink, Return
  <2>3. Left' = 0
    BY <2>2 DEF Left
  <2> QED BY <2>1, <2>3, LateStays, LeftNat
<1>2. CASE Choose
  <2>1. UNCHANGED <<mem, lateUps>>
    BY <1>2 DEF Choose, history
  <2>2. CASE Return(Engine)
    BY <2>1, <2>2, ReturnLeft, LateStays, LeftNat
  <2>3. CASE ~Return(Engine)
    <3>1. mem.enabled
      BY <1>2, <2>3 DEF Choose
    <3>2. pc'[Engine] = "profile"
      BY <1>2, <2>3, EngineGoes DEF Choose
    <3>3. Left' \in 1..2
      BY <3>2 DEF Left
    <3>4. lateUps' = 0 /\ mem' = mem
      BY <2>1, <3>1 DEF LateInv
    <3>5. lateUps' \in Nat /\ lateUps' + Left' <= 2
      <4>1. Left' \in Int /\ Left' <= 2 /\ 0 + 2 <= 2 /\ 0 \in Int /\ 2 \in Int /\ 0 \in Nat
        BY <3>3
      <4>2. 0 + Left' <= 2
        BY <4>1, Budget, Zenon
      <4> QED BY <3>4, <4>1, <4>2, Zenon
    <3> QED BY <3>4, <3>5 DEF LateInv
  <2> QED BY <2>2, <2>3
<1> QED BY <1>1, <1>2, SwitchingLate DEF EngineStep

LEMMA LateStep == TypeInv /\ LateInv /\ [Next]_vars => LateInv'
<1> SUFFICES ASSUME TypeInv, LateInv, [Next]_vars PROVE LateInv'
  OBVIOUS
<1> USE DEF TypeInv
<1>0. Left \in 0..2
  BY LeftNat
<1>1. ASSUME NEW p \in Cmds, CmdStep(p) \/ Ask(p) PROVE LateInv'
  <2>1. p # Engine /\ p \in Procs
    BY ConstantsAssumption DEF Procs
  <2>2. pc'[Engine] = pc[Engine] /\ loc'[Engine] = loc[Engine]
    <3>1. \E label \in {pc'[p]}, l \in {loc'[p]} : Goto(p, label, l)
      <4>1. CASE Switching(p)
        BY <2>1, <4>1 DEF Switching, CheckProfile, AddProfile, Up, Verify, Ensured, GiveUp, Return,
                          Goto, Places
      <4>2. CASE Save(p) \/ ListEntries(p) \/ SyncNext(p)
        BY <2>1, <4>2 DEF Save, OpenTmp, WriteTmp, Rename, Publish, ListEntries, SyncNext, Return,
                          Goto, Places
      <4>3. CASE Ask(p)
        BY <2>1, <4>3 DEF Ask, BeginApply, BeginSwitch, Connect, Return, Goto, Places
      <4> QED BY <1>1, <4>1, <4>2, <4>3 DEF CmdStep
    <3> QED BY <2>1, <3>1 DEF Goto, Places, Procs
  <2>3. Left' = Left
    BY <2>2 DEF Left
  <2>4. CASE Publish(p)
    <3>1. lateUps' = IF mem'.enabled THEN 0 ELSE lateUps
      BY <2>4 DEF Publish, SetMem
    <3> QED BY <1>0, <2>3, <3>1 DEF LateInv
  <2>5. CASE UNCHANGED <<mem, lateUps>>
    BY <1>0, <2>3, <2>5, LateStays
  <2>6. Publish(p) \/ UNCHANGED <<mem, lateUps>>
    BY <1>1, <2>1 DEF CmdStep, Switching, CheckProfile, AddProfile, Up, Verify, Save, OpenTmp, WriteTmp,
                Rename, ListEntries, SyncNext, Ask, BeginApply, BeginSwitch, Connect, history
  <2> QED BY <2>4, <2>5, <2>6
<1>2. CASE Restart
  <2>1. lateUps' = IF mem'.enabled THEN 0 ELSE lateUps
    BY <1>2, LoadTypes DEF Restart
  <2>2. pc'[Engine] = "idle"
    BY <1>2 DEF Restart, Procs
  <2>3. Left' = 0
    BY <2>2 DEF Left
  <2> QED BY <1>0, <2>1, <2>3 DEF LateInv
<1>3. CASE Elapse \/ Report \/ Drift \/ (\E s \in Ssids : Autoconnect(s)) \/ UNCHANGED vars
  <2>1. UNCHANGED <<mem, lateUps, pc, loc>>
    BY <1>3 DEF Elapse, Report, Drift, Autoconnect, vars, history
  <2> QED BY <2>1 DEF LateInv, Left
<1> QED BY <1>1, <1>2, <1>3, EngineLate DEF Next, EngineActs, CmdActs, Others

\* The engine and wifi_switch bring up only what was listed with a password,
\* through restarts, replaced configurations and the way back; and an engine
\* that was switched off brings up at most the two networks of its last turn.
THEOREM EngineIsBound == Spec => []EngineObeys
<1>1. Init => ListedInv /\ LateInv
  BY ListedInit, LateInit
<1>2. TypeInv /\ (ListedInv /\ LateInv) /\ [Next]_vars => (ListedInv /\ LateInv)'
  BY ListedStep, LateStep
<1>3. TypeInv /\ ListedInv /\ LateInv => EngineObeys
  BY LeftNat DEF TypeInv, ListedInv, LateInv, EngineObeys, OnlyListed, OffMeansOff
<1> QED BY <1>1, <1>2, <1>3, TypesHold, PTL DEF Spec

-----------------------------------------------------------------------------
(* The file and the memory: as long as saves have not overlapped, the one  *)
(* that is under way owns the temporary file, and what it will publish is  *)
(* in the file before it is in the memory.                                 *)

Unsaved(c) == content[disk] = {c} /\ sanitize(c) = mem

SaveInv ==
    ~raced =>
      /\ \A p, q \in Cmds : Saving(p) /\ Saving(q) => p = q
      /\ \A p \in Cmds : Saving(p) => Keeps(mem, loc[p].cfg)
      /\ \A p \in Cmds : pc[p] \in {"write", "rename"} => loc[p].fd = tmp /\ tmp \in Inodes
      /\ \A p \in Cmds : pc[p] = "rename" => content[tmp] = {loc[p].cfg}
      /\ \A p \in Cmds : pc[p] = "publish" => content[disk] = {loc[p].cfg}
      /\ (\A p \in Cmds : pc[p] # "publish") => \E c \in Config : Unsaved(c)

LEMMA SaveInit == Init => SaveInv
<1> SUFFICES ASSUME Init PROVE SaveInv
  OBVIOUS
<1>1. Start \in Config /\ Unsaved(Start)
  BY ConstantsAssumption DEF Init, Unsaved
<1>2. \A p \in Cmds : pc[p] = "idle"
  BY DEF Init, Procs
<1> QED BY <1>1, <1>2 DEF SaveInv, Saving

\* A step of no save: whoever has moved was not publishing and is not saving.
Aside ==
    /\ UNCHANGED <<mem, saved, raced>>
    /\ \A q \in Cmds : \/ pc'[q] = pc[q] /\ loc'[q] = loc[q]
                       \/ pc[q] # "publish" /\ ~Saving(q)'

LEMMA AsideSaves ==
    ASSUME SaveInv, Aside
    PROVE  SaveInv'
<1> SUFFICES ASSUME ~raced PROVE SaveInv'
  BY DEF SaveInv, Aside
<1>1. UNCHANGED <<mem, disk, tmp, content, raced>>
  BY DEF Aside, saved
<1>2. \A q \in Cmds : Saving(q)' => pc'[q] = pc[q] /\ loc'[q] = loc[q] /\ Saving(q)
  BY DEF Aside, Saving
<1>3. (\A q \in Cmds : pc'[q] # "publish") => \A q \in Cmds : pc[q] # "publish"
  BY DEF Aside
<1>4. \A p, q \in Cmds : Saving(p)' /\ Saving(q)' => p = q
  BY <1>2 DEF SaveInv
<1>5. \A p \in Cmds : Saving(p)' => Keeps(mem', loc'[p].cfg)
  BY <1>1, <1>2 DEF SaveInv
<1>6. \A p \in Cmds : pc'[p] \in {"write", "rename"} => loc'[p].fd = tmp' /\ tmp' \in Inodes
  BY <1>1, <1>2 DEF SaveInv, Saving
<1>7. \A p \in Cmds : pc'[p] = "rename" => content'[tmp'] = {loc'[p].cfg}
  BY <1>1, <1>2 DEF SaveInv, Saving
<1>8. \A p \in Cmds : pc'[p] = "publish" => content'[disk'] = {loc'[p].cfg}
  BY <1>1, <1>2 DEF SaveInv, Saving
<1>9. (\A p \in Cmds : pc'[p] # "publish") => \E c \in Config : content'[disk'] = {c} /\ sanitize(c) = mem'
  BY <1>1, <1>3 DEF SaveInv, Unsaved
<1> QED BY <1>4, <1>5, <1>6, <1>7, <1>8, <1>9 DEF SaveInv, Unsaved

LEMMA GotoAside ==
    ASSUME Places, NEW p \in Procs, NEW label, NEW l, Goto(p, label, l), pc[p] # "publish",
           label \notin {"open", "write", "rename", "publish"}, UNCHANGED <<mem, saved, raced>>
    PROVE  Aside
  BY DEF Places, Goto, Aside, Saving, Procs

\* switchTo saves nothing, for the engine or for a command.
LEMMA SwitchingAside ==
    ASSUME Places, NEW p \in Procs, Switching(p)
    PROVE  Aside
<1>1. UNCHANGED <<mem, saved, raced>> /\ pc[p] # "publish"
  BY DEF Switching, CheckProfile, AddProfile, Up, Verify, history
<1>2. \E label \in {"idle", "answered", "profile", "add", "up", "verify", "sync"}, l \in {loc'[p]} :
        Goto(p, label, l)
  BY DEF Switching, CheckProfile, AddProfile, Up, Verify, Ensured, GiveUp, Return, Goto, Places
<1> QED BY <1>1, <1>2, GotoAside

LEMMA StillAside ==
    ASSUME UNCHANGED <<mem, saved, raced, pc, loc>>
    PROVE  Aside
  BY DEF Aside

\* What a command that saves has done to the others: nothing.
LEMMA AloneSaves ==
    ASSUME Places, NEW p \in Cmds, NEW label, NEW l, Goto(p, label, l)
    PROVE  /\ pc'[p] = label /\ loc'[p] = l
           /\ \A q \in Cmds \ {p} : pc'[q] = pc[q] /\ loc'[q] = loc[q]
  BY DEF Places, Goto, Procs

LEMMA BeginSaves ==
    ASSUME TypeInv, SaveInv, NEW p \in Cmds, NEW c \in Requests, BeginApply(p, c)
    PROVE  SaveInv'
<1> SUFFICES ASSUME ~raced' PROVE SaveInv'
  BY DEF SaveInv
<1> DEFINE l == [Fresh EXCEPT !.op = "apply", !.cfg = Merged(c)]
<1>1. ~raced /\ \A q \in Cmds : ~Saving(q)
  BY DEF BeginApply
<1>2. UNCHANGED <<mem, disk, tmp, content>>
  BY DEF BeginApply, saved
<1>3. /\ pc'[p] = "open" /\ loc'[p] = l
      /\ \A q \in Cmds \ {p} : pc'[q] = pc[q] /\ loc'[q] = loc[q]
  BY AloneSaves DEF BeginApply, Merged, TypeInv
<1>4. l.cfg = Merged(c)
  BY FreshType DEF Locals
<1>5. Keeps(mem', loc'[p].cfg)
  BY <1>2, <1>3, <1>4, MergedFacts, ConstantsAssumption DEF TypeInv, DataInv
<1>6. \A q \in Cmds : Saving(q)' => q = p
  BY <1>1, <1>3 DEF Saving
<1>7. \E d \in Config : content'[disk'] = {d} /\ sanitize(d) = mem'
  BY <1>1, <1>2 DEF SaveInv, Unsaved, Saving
<1> QED BY <1>3, <1>5, <1>6, <1>7 DEF SaveInv, Unsaved, Saving

LEMMA SavesOn ==
    ASSUME TypeInv, SaveInv, NEW p \in Cmds, Save(p)
    PROVE  SaveInv' /\ (~raced' => Keeps(mem, mem'))
<1> USE DEF TypeInv
<1>0. /\ p \in Procs /\ loc[p] \in Locals /\ Fits(p, pc[p], loc[p])
      /\ raced' = raced
  BY LocFields DEF Procs, Save, OpenTmp, WriteTmp, Rename, Publish, history
<1> SUFFICES ASSUME ~raced PROVE SaveInv' /\ Keeps(mem, mem')
  BY <1>0 DEF SaveInv
<1>1. ~raced' /\ Saving(p)
  BY <1>0 DEF Save, OpenTmp, WriteTmp, Rename, Publish, Saving
<1>2. \A q \in Cmds \ {p} : ~Saving(q)
  BY <1>1 DEF SaveInv
<1>3. Keeps(mem, loc[p].cfg) /\ Keeps(mem, mem)
  BY <1>1 DEF SaveInv, Keeps, WithPassword
<1>4. CASE OpenTmp(p)
  <2> DEFINE l == [loc[p] EXCEPT !.fd = tmp']
  <2>1. /\ pc'[p] = "write" /\ loc'[p] = l
        /\ \A q \in Cmds \ {p} : pc'[q] = pc[q] /\ loc'[q] = loc[q]
    BY <1>4, AloneSaves DEF OpenTmp
  <2>2. l.cfg = loc[p].cfg /\ l.fd = tmp'
    BY <1>0 DEF Locals
  <2>3. DataInv' /\ Fits(p, "write", l)
    BY <2>1, SaveTypes DEF Places, Procs
  <2>4. tmp' \in Inodes /\ tmp' # disk' /\ mem' = mem /\ disk' = disk
    BY <1>4, <2>2, <2>3 DEF OpenTmp, Fits, DataInv
  <2>5. content' = [content EXCEPT ![tmp'] = Torn]
    BY <1>4 DEF OpenTmp
  <2>6. content'[disk'] = content[disk]
    BY <2>4, <2>5 DEF DataInv
  <2>7. \E c \in Config : content'[disk'] = {c} /\ sanitize(c) = mem'
    BY <1>2, <1>4, <2>4, <2>6 DEF SaveInv, Unsaved, Saving, OpenTmp
  <2>8. \A q \in Cmds : Saving(q)' => q = p
    BY <1>2, <2>1 DEF Saving
  <2>9. Keeps(mem', loc'[p].cfg) /\ Keeps(mem, mem') /\ loc'[p].fd = tmp'
    BY <1>3, <2>1, <2>2, <2>4
  <2>10. \A q \in Cmds : pc'[q] \notin {"rename", "publish"} /\ (pc'[q] = "write" => q = p)
    BY <1>2, <2>1 DEF Saving
  <2> HIDE DEF l
  <2> QED BY <2>4, <2>7, <2>8, <2>9, <2>10 DEF SaveInv, Unsaved
<1>5. CASE WriteTmp(p)
  <2>1. UNCHANGED <<mem, disk, tmp>>
    BY <1>5 DEF WriteTmp
  <2>2. loc[p].fd = tmp /\ tmp \in Inodes /\ tmp # disk
    BY <1>5 DEF WriteTmp, SaveInv, DataInv
  <2>3. content'[disk'] = content[disk]
    BY <1>5, <2>1, <2>2 DEF WriteTmp, DataInv
  <2>4. \E c \in Config : content'[disk'] = {c} /\ sanitize(c) = mem'
    BY <1>2, <1>5, <2>1, <2>3 DEF SaveInv, Unsaved, Saving, WriteTmp
  <2>5. CASE Return(p)
    <3>1. \A q \in Cmds : ~Saving(q)'
      BY <1>2, <2>5, AloneSaves DEF Return, Saving
    <3> QED BY <1>3, <2>1, <2>4, <3>1 DEF SaveInv, Unsaved, Saving
  <2>6. CASE Goto(p, "rename", loc[p]) /\ content' = [content EXCEPT ![loc[p].fd] = {loc[p].cfg}]
    <3>1. /\ pc'[p] = "rename" /\ loc'[p] = loc[p]
          /\ \A q \in Cmds \ {p} : pc'[q] = pc[q] /\ loc'[q] = loc[q]
      BY <2>6, AloneSaves
    <3>2. content'[tmp'] = {loc[p].cfg}
      BY <2>1, <2>2, <2>6 DEF DataInv
    <3>3. \A q \in Cmds : Saving(q)' => q = p
      BY <1>2, <3>1 DEF Saving
    <3>4. \A q \in Cmds : pc'[q] \notin {"write", "publish"} /\ (pc'[q] = "rename" => q = p)
      BY <1>2, <3>1 DEF Saving
    <3>5. Keeps(mem', loc'[p].cfg) /\ Keeps(mem, mem') /\ loc'[p].fd = tmp' /\ tmp' \in Inodes
      BY <1>3, <2>1, <2>2, <3>1
    <3>6. content'[tmp'] = {loc'[p].cfg}
      BY <3>1, <3>2
    <3> QED BY <2>4, <3>3, <3>4, <3>5, <3>6 DEF SaveInv, Unsaved
  <2> QED BY <1>5, <2>5, <2>6 DEF WriteTmp
<1>6. CASE Rename(p)
  <2> DEFINE l == [loc[p] EXCEPT !.fd = NoInode]
  <2>1. loc[p].fd = tmp /\ tmp \in Inodes /\ content[tmp] = {loc[p].cfg} /\ tmp # NoInode
    BY <1>6, ConstantsAssumption DEF Rename, SaveInv
  <2>2. disk' = tmp /\ content' = content /\ mem' = mem /\ Goto(p, "publish", l)
    BY <1>6, <2>1 DEF Rename
  <2>3. /\ pc'[p] = "publish" /\ loc'[p] = l
        /\ \A q \in Cmds \ {p} : pc'[q] = pc[q] /\ loc'[q] = loc[q]
    BY <2>2, AloneSaves
  <2>4. l.cfg = loc[p].cfg
    BY <1>0 DEF Locals
  <2>5. \A q \in Cmds : Saving(q)' => q = p
    BY <1>2, <2>3 DEF Saving
  <2>6. content'[disk'] = {loc'[p].cfg} /\ Keeps(mem', loc'[p].cfg) /\ Keeps(mem, mem')
    BY <1>3, <2>1, <2>2, <2>3, <2>4
  <2>7. \A q \in Cmds : pc'[q] \notin {"write", "rename"} /\ (pc'[q] = "publish" => q = p)
    BY <1>2, <2>3 DEF Saving
  <2> HIDE DEF l
  <2> QED BY <2>3, <2>5, <2>6, <2>7 DEF SaveInv
<1>7. CASE Publish(p)
  <2>1. /\ pc'[p] = "list"
        /\ \A q \in Cmds \ {p} : pc'[q] = pc[q] /\ loc'[q] = loc[q]
    BY <1>7, AloneSaves DEF Publish
  <2>2. mem' = loc[p].cfg /\ UNCHANGED <<disk, content>>
    BY <1>7 DEF Publish, SetMem, saved
  <2>3. loc[p].cfg \in Config /\ loc[p].cfg = sanitize(loc[p].cfg) /\ content[disk] = {loc[p].cfg}
    BY <1>0, <1>7 DEF Publish, SaveInv, Fits, Locals
  <2>4. \A q \in Cmds : ~Saving(q)'
    BY <1>2, <2>1 DEF Saving
  <2> QED BY <1>3, <2>2, <2>3, <2>4 DEF SaveInv, Unsaved, Saving
<1> QED BY <1>4, <1>5, <1>6, <1>7 DEF Save

\* A restart in the middle of a save finds the old configuration, or the new
\* one which was about to be published.
LEMMA RestartSaves ==
    ASSUME TypeInv, SaveInv, Restart
    PROVE  SaveInv' /\ (~raced' => Keeps(mem, mem'))
<1>0. raced' = raced /\ UNCHANGED <<disk, tmp, content>>
  BY DEF Restart, saved
<1> SUFFICES ASSUME ~raced PROVE SaveInv' /\ Keeps(mem, mem')
  BY <1>0 DEF SaveInv
<1>1. \A c : content[disk] = {c} => mem' = sanitize(c)
  BY LoadTypes DEF Restart, TypeInv
<1>2. \A p \in Cmds : ~Saving(p)'
  BY DEF Restart, Saving, Procs
<1>3. CASE \E p \in Cmds : pc[p] = "publish"
  <2>1. PICK p \in Cmds : pc[p] = "publish"
    BY <1>3
  <2>2. loc[p].cfg \in Config /\ loc[p].cfg = sanitize(loc[p].cfg)
    BY <2>1, LocFields DEF TypeInv, Fits, Locals, Procs
  <2>3. content[disk] = {loc[p].cfg} /\ Keeps(mem, loc[p].cfg)
    BY <2>1 DEF SaveInv, Saving
  <2>4. mem' = loc[p].cfg
    BY <1>1, <2>2, <2>3
  <2> QED BY <1>0, <1>2, <2>2, <2>3, <2>4 DEF SaveInv, Unsaved, Saving
<1>4. CASE \A p \in Cmds : pc[p] # "publish"
  <2>1. PICK c \in Config : Unsaved(c)
    BY <1>4 DEF SaveInv
  <2>2. mem' = mem
    BY <1>1, <2>1 DEF Unsaved
  <2>3. Keeps(mem, mem)
    BY DEF Keeps, WithPassword
  <2> QED BY <1>0, <1>2, <2>1, <2>2, <2>3 DEF SaveInv, Unsaved, Saving
<1> QED BY <1>3, <1>4

LEMMA SaveStep ==
    TypeInv /\ SaveInv /\ [Next]_vars => SaveInv' /\ (~raced' => Keeps(mem, mem'))
<1> SUFFICES ASSUME TypeInv, SaveInv, [Next]_vars
             PROVE  SaveInv' /\ (~raced' => Keeps(mem, mem'))
  OBVIOUS
<1> USE DEF TypeInv
<1>0. /\ Keeps(mem, mem) /\ Engine \in Procs
      /\ \A p \in Cmds : p \in Procs
  BY DEF Keeps, WithPassword, Procs
<1>1. CASE Aside
  BY <1>0, <1>1, AsideSaves DEF Aside
<1>2. CASE EngineStep
  <2>1. CASE Tick \/ Scan \/ ReadLink \/ Choose
    <3>1. UNCHANGED <<mem, saved, raced>> /\ pc[Engine] # "publish"
      BY <2>1 DEF Tick, Scan, ReadLink, Choose, history
    <3>2. \E label \in {"idle", "scan", "assess", "choose", "profile"}, l \in {loc'[Engine]} :
            Goto(Engine, label, l)
      BY <1>0, <2>1 DEF Tick, Scan, ReadLink, Choose, Return, Goto, Places
    <3> QED BY <1>0, <1>1, <3>1, <3>2, GotoAside
  <2>2. CASE Switching(Engine)
    BY <1>0, <1>1, <2>2, SwitchingAside
  <2> QED BY <1>2, <2>1, <2>2 DEF EngineStep
<1>3. ASSUME NEW p \in Cmds, CmdStep(p) PROVE SaveInv' /\ (~raced' => Keeps(mem, mem'))
  <2>1. CASE ListEntries(p) \/ SyncNext(p)
    <3>1. UNCHANGED <<mem, saved, raced>> /\ pc[p] # "publish"
      BY <2>1 DEF ListEntries, SyncNext, history
    <3>2. \E label \in {"idle", "answered", "sync", "profile"}, l \in {loc'[p]} : Goto(p, label, l)
      BY <1>0, <2>1 DEF ListEntries, SyncNext, Return, Goto, Places
    <3> QED BY <1>0, <1>1, <3>1, <3>2, GotoAside
  <2>2. CASE Switching(p)
    BY <1>0, <1>1, <2>2, SwitchingAside
  <2>3. CASE Save(p)
    BY <2>3, SavesOn
  <2> QED BY <1>3, <2>1, <2>2, <2>3 DEF CmdStep
<1>4. ASSUME NEW p \in Cmds, Ask(p) PROVE SaveInv' /\ (~raced' => Keeps(mem, mem'))
  <2>1. ASSUME NEW c \in Requests, BeginApply(p, c)
        PROVE  SaveInv' /\ (~raced' => Keeps(mem, mem'))
    BY <1>0, <2>1, BeginSaves DEF BeginApply
  <2>2. ASSUME NEW s \in Ssids, BeginSwitch(p, s) \/ Connect(p, s)
        PROVE  Aside
    <3>1. UNCHANGED <<mem, saved, raced>> /\ pc[p] # "publish"
      BY <2>2 DEF BeginSwitch, Connect, history
    <3>2. \E label \in {"idle", "answered", "profile"}, l \in {loc'[p]} : Goto(p, label, l)
      BY <1>0, <2>2 DEF BeginSwitch, Connect, Return, Goto, Places
    <3> QED BY <1>0, <3>1, <3>2, GotoAside
  <2> QED BY <1>1, <1>4, <2>1, <2>2 DEF Ask
<1>5. CASE Restart
  BY <1>5, RestartSaves
<1>6. CASE Elapse \/ Report \/ Drift \/ (\E s \in Ssids : Autoconnect(s)) \/ UNCHANGED vars
  <2>1. UNCHANGED <<mem, saved, raced, pc, loc>>
    BY <1>6 DEF Elapse, Report, Drift, Autoconnect, vars, history
  <2> QED BY <1>1, <2>1, StillAside
<1> QED BY <1>2, <1>3, <1>4, <1>5, <1>6 DEF Next, EngineActs, CmdActs, Others

LEMMA SavesHold == Spec => []SaveInv
<1>1. TypeInv /\ SaveInv /\ [Next]_vars => SaveInv'
  BY SaveStep
<1> QED BY <1>1, SaveInit, TypesHold, PTL DEF Spec

\* Unless two saves have overlapped, the file holds what the memory has
\* whenever none is under way: a restart, also in the middle of one, loses
\* no configuration.
THEOREM FileFollowsMemory == Spec => []DiskIsMemory
<1>1. SaveInv => DiskIsMemory
  <2> SUFFICES ASSUME SaveInv, ~raced, \A p \in Cmds : ~Saving(p)
               PROVE  \E c \in content[disk] : sanitize(c) = mem
    BY DEF DiskIsMemory
  <2>1. PICK c \in Config : Unsaved(c)
    BY DEF SaveInv, Saving
  <2> QED BY <2>1 DEF Unsaved
<1> QED BY <1>1, SavesHold, PTL

\* No step, a restart included, replaces a password of a network that stays
\* listed by a blank one, unless two saves have overlapped.
THEOREM PasswordsStay == Spec => PasswordsAreKept
<1>1. TypeInv /\ SaveInv /\ [Next]_vars =>
        [~raced' => \A s \in WithPassword(mem) \cap DOMAIN mem'.wl : mem'.wl[s] # Blank]_vars
  BY SaveStep DEF Keeps
<1> QED BY <1>1, SavesHold, TypesHold, PTL DEF Spec, PasswordsAreKept

-----------------------------------------------------------------------------
(* The way back.  What the engine brought up is what it is connected to,   *)
(* as long as nothing else has acted; and on its way back it brings up the *)
(* network that it came from.                                              *)

BackInv ==
    /\ mishaps \in Nat
    /\ pc[Engine] \in Turn /\ loc[Engine].rolling => loc[Engine].target = loc[Engine].from
    /\ calm /\ pc[Engine] = "verify" => link = loc[Engine].target

\* What of the engine the invariant is about.
EngineAt == <<pc[Engine], loc[Engine].rolling, loc[Engine].target, loc[Engine].from>>

LEMMA BackInit == Init => BackInv
  BY DEF Init, BackInv, Turn, Procs

\* A step of others ends the calm.
LEMMA OthersBack ==
    ASSUME BackInv, mishaps' \in Nat, EngineAt' = EngineAt \/ pc'[Engine] = "idle", ~calm'
    PROVE  BackInv'
  BY DEF BackInv, EngineAt, Turn

\* A network that the engine gives up is left on the way back, or the turn is over.
LEMMA GiveUpBack ==
    ASSUME Places, GiveUp(Engine)
    PROVE  \/ ~loc[Engine].rolling /\ pc'[Engine] = "profile" /\ loc'[Engine].target = loc'[Engine].from
           \/ loc[Engine].rolling /\ pc'[Engine] = "idle"
<1>1. CASE ~loc[Engine].rolling
  <2> DEFINE l == [loc[Engine] EXCEPT !.target = loc[Engine].from, !.pw = Blank, !.rolling = TRUE]
  <2>1. pc'[Engine] = "profile" /\ loc'[Engine] = l
    BY <1>1, EngineGoes DEF GiveUp
  <2>2. l.target = l.from
    BY LocFields DEF Locals, Procs
  <2> QED BY <1>1, <2>1, <2>2
<1>2. CASE loc[Engine].rolling
  BY <1>2, EngineGoes DEF GiveUp, Return
<1> QED BY <1>1, <1>2

\* The engine syncs no profiles: ensureProfile leads up or is given up.
LEMMA EnsuredBack ==
    ASSUME Places, pc[Engine] \in {"profile", "add"}, NEW ok, Ensured(Engine, ok)
    PROVE  \/ ok /\ pc'[Engine] = "up" /\ loc'[Engine] = loc[Engine]
           \/ ~ok /\ GiveUp(Engine)
<1>1. loc[Engine].op # "apply"
  BY LocFields DEF Fits, Procs
<1> QED BY <1>1, EngineGoes DEF Ensured

\* The property of a turn's end, beside the invariant.
Ends == profile[loc[Engine].from] = {Secret[loc[Engine].from]} /\ TurnEnds
            => link' \notin Dead \cup {NoSsid}

LEMMA SwitchingBack ==
    ASSUME TypeInv, BackInv, Switching(Engine), calm' => calm /\ mishaps' = mishaps
    PROVE  BackInv' /\ Ends
<1> DEFINE from == loc[Engine].from
<1>a. Places /\ pc[Engine] \in Turn
  BY DEF TypeInv, Switching, CheckProfile, AddProfile, Up, Verify, Turn
<1>b. from \in Ssids /\ loc[Engine].target \in Ssids
  BY <1>a, LocFields DEF Fits, Procs
<1>c. NoSsid \notin Ssids /\ mishaps \in Nat /\ mishaps # mishaps + 1
  BY ConstantsAssumption DEF BackInv
<1>0. /\ Places /\ from \in Ssids /\ loc[Engine].target \in Ssids /\ pc[Engine] \in Turn
      /\ NoSsid \notin Ssids /\ mishaps \in Nat /\ mishaps # mishaps + 1
  BY <1>a, <1>b, <1>c
<1>1. CASE CheckProfile(Engine)
  <2>0. mishaps' = mishaps \/ mishaps' = mishaps + 1
    BY <1>1 DEF CheckProfile, Fails
  <2>1. mishaps' \in Nat /\ (mishaps' # mishaps => ~calm')
    BY <1>0, <2>0
  <2>2. CASE Ensured(Engine, TRUE)
    <3>1. pc'[Engine] = "up" /\ loc'[Engine] = loc[Engine]
      BY <1>0, <1>1, <2>2, EnsuredBack DEF CheckProfile
    <3> QED BY <1>0, <2>1, <3>1 DEF BackInv, Ends, TurnEnds, Turn
  <2>3. CASE \E w : Goto(Engine, "add", [loc[Engine] EXCEPT !.pw = w])
    <3>1. PICK w : Goto(Engine, "add", [loc[Engine] EXCEPT !.pw = w])
      BY <2>3
    <3>2. pc'[Engine] = "add" /\ loc'[Engine] = [loc[Engine] EXCEPT !.pw = w]
      BY <1>0, <3>1, EngineGoes
    <3>3. EngineAt' = <<"add", loc[Engine].rolling, loc[Engine].target, from>>
      BY <1>0, <3>2, LocFields DEF EngineAt, Locals, Procs
    <3> QED BY <1>0, <2>1, <3>3 DEF BackInv, Ends, TurnEnds, Turn, EngineAt
  <2>4. CASE Ensured(Engine, FALSE) /\ (profile[loc[Engine].target] = {} \/ Fails)
    <3>1. GiveUp(Engine)
      BY <1>0, <1>1, <2>4, EnsuredBack DEF CheckProfile
    <3>2. CASE ~loc[Engine].rolling
      <4>1. pc'[Engine] = "profile" /\ loc'[Engine].target = loc'[Engine].from
        BY <1>0, <3>1, <3>2, GiveUpBack
      <4> QED BY <1>0, <2>1, <4>1 DEF BackInv, Ends, TurnEnds
    <3>3. CASE loc[Engine].rolling
      <4>1. pc'[Engine] = "idle" /\ loc[Engine].target = from
        BY <1>0, <3>1, <3>3, GiveUpBack DEF BackInv
      <4>2. profile[from] # {Secret[from]} \/ ~calm'
        BY <1>0, <2>4, <4>1 DEF Fails
      <4> QED BY <1>0, <2>1, <4>1, <4>2 DEF BackInv, Ends, TurnEnds, Turn
    <3> QED BY <3>2, <3>3
  <2> QED BY <1>1, <2>2, <2>3, <2>4 DEF CheckProfile
<1>2. CASE AddProfile(Engine)
  <2>1. CASE Ensured(Engine, TRUE) /\ mishaps' = mishaps
    <3>1. pc'[Engine] = "up" /\ loc'[Engine] = loc[Engine]
      BY <1>0, <1>2, <2>1, EnsuredBack DEF AddProfile
    <3> QED BY <1>0, <2>1, <3>1 DEF BackInv, Ends, TurnEnds, Turn
  <2>2. CASE Ensured(Engine, FALSE) /\ Fails
    <3>0. GiveUp(Engine)
      BY <1>0, <1>2, <2>2, EnsuredBack DEF AddProfile
    <3>1. GiveUp(Engine) /\ ~calm' /\ mishaps' \in Nat
      BY <1>0, <2>2, <3>0 DEF Fails
    <3>2. \/ pc'[Engine] = "profile" /\ loc'[Engine].target = loc'[Engine].from
          \/ pc'[Engine] = "idle"
      BY <1>0, <3>1, GiveUpBack
    <3> QED BY <3>1, <3>2 DEF BackInv, Ends, TurnEnds, Turn
  <2> QED BY <1>2, <2>1, <2>2 DEF AddProfile
<1>3. CASE Up(Engine)
  <2>1. CASE link' = loc[Engine].target /\ Goto(Engine, "verify", loc[Engine]) /\ mishaps' = mishaps
    <3>1. pc'[Engine] = "verify" /\ loc'[Engine] = loc[Engine]
      BY <1>0, <2>1, EngineGoes
    <3> QED BY <1>0, <2>1, <3>1 DEF BackInv, Ends, TurnEnds, Turn
  <2>2. CASE /\ GiveUp(Engine)
             /\ IF loc[Engine].target \in DOMAIN radio /\ profile[loc[Engine].target] = {Secret[loc[Engine].target]}
                THEN Fails ELSE UNCHANGED mishaps
    <3>1. mishaps' \in Nat
      BY <1>0, <2>2 DEF Fails
    <3>2. CASE ~loc[Engine].rolling
      <4>1. pc'[Engine] = "profile" /\ loc'[Engine].target = loc'[Engine].from
        BY <1>0, <2>2, <3>2, GiveUpBack
      <4> QED BY <3>1, <4>1 DEF BackInv, Ends, TurnEnds
    <3>3. CASE loc[Engine].rolling
      <4>1. pc'[Engine] = "idle" /\ loc[Engine].target = from
        BY <1>0, <2>2, <3>3, GiveUpBack DEF BackInv
      <4>2. Ends
        <5> SUFFICES ASSUME profile[from] = {Secret[from]}, TurnEnds PROVE FALSE
          BY DEF Ends
        <5>1. from \in DOMAIN radio /\ mishaps' = mishaps
          BY DEF TurnEnds
        <5> QED BY <1>0, <2>2, <4>1, <5>1 DEF Fails
      <4> QED BY <3>1, <4>1, <4>2 DEF BackInv, Turn
    <3> QED BY <3>2, <3>3
  <2> QED BY <1>3, <2>1, <2>2 DEF Up
<1>4. CASE Verify(Engine)
  <2>0. link' = link
    BY <1>4 DEF Verify, air
  <2>1. CASE link \notin Dead \cup {NoSsid} /\ Return(Engine) /\ mishaps' = mishaps
    <3>1. pc'[Engine] = "idle"
      BY <1>0, <2>1, EngineGoes DEF Return
    <3> QED BY <1>0, <2>0, <2>1, <3>1 DEF BackInv, Ends, Turn
  <2>2. CASE link \in Dead \cup {NoSsid} /\ GiveUp(Engine) /\ mishaps' = mishaps
    <3>1. CASE ~loc[Engine].rolling
      <4>1. pc'[Engine] = "profile" /\ loc'[Engine].target = loc'[Engine].from
        BY <1>0, <2>2, <3>1, GiveUpBack
      <4> QED BY <1>0, <2>2, <4>1 DEF BackInv, Ends, TurnEnds
    <3>2. CASE loc[Engine].rolling
      <4>1. pc'[Engine] = "idle" /\ loc[Engine].target = from
        BY <1>0, <2>2, <3>2, GiveUpBack DEF BackInv
      <4>2. Ends
        <5> SUFFICES ASSUME TurnEnds PROVE FALSE
          BY DEF Ends
        <5>1. from \notin Dead /\ calm
          BY DEF TurnEnds
        <5>2. link = from
          BY <1>4, <4>1, <5>1 DEF BackInv, Verify
        <5> QED BY <1>0, <2>2, <5>1, <5>2
      <4> QED BY <1>0, <2>2, <4>1, <4>2 DEF BackInv, Turn
    <3> QED BY <3>1, <3>2
  <2>3. CASE Fails /\ GiveUp(Engine)
    <3>1. ~calm' /\ mishaps' \in Nat
      BY <1>0, <2>3 DEF Fails
    <3>2. \/ pc'[Engine] = "profile" /\ loc'[Engine].target = loc'[Engine].from
          \/ pc'[Engine] = "idle"
      BY <1>0, <2>3, GiveUpBack
    <3> QED BY <3>1, <3>2 DEF BackInv, Ends, TurnEnds, Turn
  <2> QED BY <1>4, <2>1, <2>2, <2>3 DEF Verify
<1> QED BY <1>1, <1>2, <1>3, <1>4 DEF Switching

\* Steps of the engine before it has a network to try.
LEMMA LookingBack ==
    ASSUME TypeInv, BackInv, Tick \/ Scan \/ ReadLink \/ Choose
    PROVE  BackInv' /\ Ends
<1>0. Places /\ pc[Engine] \notin Turn /\ mishaps \in Nat
  BY DEF TypeInv, BackInv, Tick, Scan, ReadLink, Choose, Turn
<1>1. mishaps' \in Nat
  <2>1. mishaps' = mishaps \/ Fails
    BY DEF Tick, Scan, ReadLink, Choose
  <2> QED BY <1>0, <2>1 DEF Fails
<1>2. Ends
  BY <1>0 DEF Ends, TurnEnds, Turn
<1>3. CASE Tick \/ Scan \/ ReadLink \/ Return(Engine)
  <2>1. pc'[Engine] \in {"idle", "scan", "assess", "choose"}
    BY <1>0, <1>3, EngineGoes DEF Tick, Scan, ReadLink, Return
  <2> QED BY <1>1, <1>2, <2>1 DEF BackInv, Turn
<1>4. CASE Choose /\ ~Return(Engine)
  <2>1. PICK s : Goto(Engine, "profile", [Fresh EXCEPT !.from = loc[Engine].from, !.target = s])
    BY <1>4 DEF Choose
  <2> DEFINE l == [Fresh EXCEPT !.from = loc[Engine].from, !.target = s]
  <2>2. pc'[Engine] = "profile" /\ loc'[Engine] = l
    BY <1>0, <2>1, EngineGoes
  <2>3. l.rolling = Fresh.rolling /\ Fresh.rolling = FALSE
    BY FreshType DEF Locals, Fresh
  <2> QED BY <1>1, <1>2, <2>2, <2>3 DEF BackInv
<1> QED BY <1>3, <1>4

LEMMA BackStep == TypeInv /\ BackInv /\ [Next]_vars => BackInv' /\ (Ends \/ UNCHANGED vars)
<1> SUFFICES ASSUME TypeInv, BackInv, [Next]_vars PROVE BackInv' /\ (Ends \/ UNCHANGED vars)
  OBVIOUS
<1>0. Engine \in Procs /\ Engine \notin Cmds /\ Places /\ mishaps \in Nat
  BY ConstantsAssumption DEF Procs, TypeInv, BackInv
<1>1. ~calm' => Ends
  BY DEF Ends, TurnEnds
<1>2. CASE EngineActs
  <2>1. CASE Tick \/ Scan \/ ReadLink \/ Choose
    BY <2>1, LookingBack
  <2>2. CASE Switching(Engine)
    <3>1. pc[Engine] # "idle"
      BY <2>2 DEF Switching, CheckProfile, AddProfile, Up, Verify
    <3>2. calm' => calm /\ mishaps' = mishaps
      BY <1>2, <3>1 DEF EngineActs
    <3> QED BY <2>2, <3>2, SwitchingBack
  <2> QED BY <1>2, <2>1, <2>2 DEF EngineActs, EngineStep
<1>3. ASSUME NEW p \in Cmds, CmdActs(p) PROVE BackInv' /\ (Ends \/ UNCHANGED vars)
  <2>0. mishaps' = mishaps \/ Fails
    BY <1>3 DEF CmdActs, CmdStep, Save, OpenTmp, WriteTmp, Rename, Publish, ListEntries, SyncNext,
       Switching, CheckProfile, AddProfile, Up, Verify
  <2>1. mishaps' \in Nat /\ ~calm'
    BY <1>0, <1>3, <2>0 DEF CmdActs, Fails
  <2>2. \E label, l : Goto(p, label, l)
    BY <1>3 DEF CmdActs, CmdStep, Save, OpenTmp, WriteTmp, Rename, Publish, ListEntries, SyncNext,
       Switching, CheckProfile, AddProfile, Up, Verify, Ensured, GiveUp, Return
  <2>3. EngineAt' = EngineAt
    BY <1>0, <2>2 DEF Goto, EngineAt, Places
  <2> QED BY <1>1, <2>1, <2>3, OthersBack
<1>4. CASE Elapse /\ UNCHANGED calm
  <2>1. UNCHANGED <<pc, loc, mishaps, link>>
    BY <1>4 DEF Elapse, air
  <2>2. Ends
    BY <2>1 DEF Ends, TurnEnds
  <2> QED BY <1>4, <2>1, <2>2 DEF BackInv
<1>5. CASE Others /\ calm' = FALSE
  <2>1. ASSUME NEW p \in Cmds, Ask(p) PROVE mishaps' \in Nat /\ EngineAt' = EngineAt
    <3>1. mishaps' = mishaps
      BY <2>1 DEF Ask, BeginApply, BeginSwitch, Connect
    <3>2. \E label, l : Goto(p, label, l)
      BY <2>1 DEF Ask, BeginApply, BeginSwitch, Connect, Return
    <3> QED BY <1>0, <3>1, <3>2 DEF Goto, EngineAt, Places
  <2>2. ASSUME Report \/ Drift \/ \E s \in Ssids : Autoconnect(s)
        PROVE  mishaps' \in Nat /\ EngineAt' = EngineAt
    BY <1>0, <2>2 DEF Report, Drift, Autoconnect, EngineAt
  <2>3. ASSUME Restart PROVE mishaps' \in Nat /\ pc'[Engine] = "idle"
    BY <1>0, <2>3 DEF Restart
  <2> QED BY <1>1, <1>5, <2>1, <2>2, <2>3, OthersBack DEF Others
<1>6. CASE UNCHANGED vars
  BY <1>6 DEF vars, BackInv, air
<1> QED BY <1>2, <1>3, <1>4, <1>5, <1>6 DEF Next

\* A turn of the engine that nothing disturbs ends with a working network, if
\* it began with one that it has a good profile for: when the switch fails and
\* whatever was tried in between, the way back is taken and does not fail.
THEOREM LostGroundIsRegained == Spec => StrandsOnlyUnmanaged
<1>1. TypeInv /\ BackInv /\ [Next]_vars => BackInv'
  BY BackStep
<1>2. TypeInv /\ BackInv /\ [Next]_vars =>
        [TurnEnds /\ profile[loc[Engine].from] = {Secret[loc[Engine].from]}
           => link' \notin Dead \cup {NoSsid}]_vars
  BY BackStep DEF Ends
<1> QED BY <1>1, <1>2, BackInit, TypesHold, PTL DEF Spec, StrandsOnlyUnmanaged

=============================================================================
