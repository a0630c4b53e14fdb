------------------------------ MODULE WifiGuard ------------------------------
(***************************************************************************)
(* The Wi-Fi guard of the agent (wifimgr.go) and the commands that share   *)
(* its state: one engine goroutine (Run/engineTick), and one goroutine per *)
(* command of the console (executor/netmgmt.go) that replaces the          *)
(* configuration, switches by hand, connects to any network or asks for a  *)
(* report.  Nothing but the mutex of Manager, held for single reads and    *)
(* writes, orders them.  The networks are names; the radio gives the       *)
(* strongest signal of each.  Left out: the log window, the scan formats   *)
(* (WifiReport) and the wording of answers.                                *)
(***************************************************************************)
EXTENDS WifiRadio, TLC

CONSTANTS
  Ssids,       \* networks
  Secret,      \* Secret[s]: the password s really has
  Passwords,   \* passwords a configuration may carry
  Radios,      \* what may be heard: functions from networks to RSSI
  FirstRadio,  \* what is heard at the first start
  Requests,    \* configurations the console may send, before sanitize
  Start,       \* the configuration on disk at the first start
  Made,        \* networks with a connection profile at the first start
  Own,         \* networks NetworkManager knows by itself, under other names
  Dead,        \* networks whose gateway does not answer
  Cmds,        \* goroutines of console commands, numbered as they start
  Ops,         \* what the console may ask: "apply", "switch", "connect", "report"
  Engine,      \* the engine goroutine
  Inodes,      \* files that hold a configuration
  MaxMishaps   \* bound: restarts of the agent, changes of the radio, and failures
               \* of nmcli and sudo which the radio does not explain

Blank == ""            \* a password left empty
Torn == {}             \* a file without a whole configuration; else it holds one
NoInode == 0
DefaultThreshold == -75
DefaultMinMargin == 8

Procs == Cmds \cup {Engine}
EngineOff == [enabled |-> FALSE, threshold |-> DefaultThreshold,
              margin |-> DefaultMinMargin, wl |-> [s \in {} |-> Blank]]

\* Names are the keys of wl, so the removal of blanks and of doubles is in its
\* shape; thresholds above -50 and zeros get the defaults.
sanitize(c) ==
  [c EXCEPT !.threshold = IF @ = 0 \/ @ > -50 THEN DefaultThreshold ELSE @,
            !.margin = IF @ = 0 THEN DefaultMinMargin ELSE @]

PartOf(S, T) == UNION {[D -> T] : D \in SUBSET S}

Config == [enabled : BOOLEAN, threshold : Int, margin : Int,
           wl : PartOf(Ssids, Passwords \cup {Blank})]

ASSUME ConstantsAssumption ==
  /\ IsFiniteSet(Ssids) /\ NoSsid \notin Ssids
  /\ Blank \notin Passwords /\ Secret \in [Ssids -> Passwords]
  /\ Made \subseteq Ssids /\ Dead \subseteq Ssids /\ Own \subseteq Ssids
  /\ FirstRadio \in Radios
  /\ \A r \in Radios : DOMAIN r \subseteq Ssids /\ r \in [DOMAIN r -> Int]
  /\ Requests \subseteq Config /\ Start \in Config
  /\ Cmds \subseteq Nat /\ Engine \notin Cmds
  /\ Inodes \subseteq Nat \ {NoInode} /\ Inodes # {}

\* Whatever files the others have open, there is one to make.
ASSUME InodesAssumption ==
  \A p \in Cmds : \A fd \in [Cmds \ {p} -> Inodes \cup {NoInode}] :
    \A d \in Inodes : \E i \in Inodes : i # d /\ \A q \in Cmds \ {p} : fd[q] # i

VARIABLES
  mem,       \* m.cfg
  disk,      \* inode of wifi_guard.json
  tmp,       \* inode of wifi_guard.json.tmp, or none
  content,   \* content of each inode
  profile,   \* profile[s]: passwords of the connections named ecp-s
  link,      \* network the interface is connected to
  radio,     \* signal of each network heard
  due,       \* lastCheck is older than the interval
  pc,        \* where each goroutine is
  loc,       \* its local variables
  mishaps,   \* number of such events
  listed,    \* history: networks ever listed with a password
  raced,     \* history: two configurations were being saved at once
  lateUps,   \* history: networks the engine brought up since it was switched off
  calm       \* history: nothing but the engine has acted since its tick

saved == <<disk, tmp, content>>
air == <<link, radio>>
history == <<listed, raced, lateUps>>
vars == <<mem, saved, profile, air, due, pc, loc, mishaps, history, calm>>

Fresh == [op |-> "none", cfg |-> EngineOff, fd |-> NoInode, target |-> NoSsid,
          from |-> NoSsid, rssi |-> 0, todo |-> {}, pw |-> Blank, thr |-> 0,
          margin |-> 0, heard |-> [s \in {} |-> 0], rolling |-> FALSE]

WithPassword(c) == {s \in DOMAIN c.wl : c.wl[s] # Blank}

\* The goroutine is between reading the old configuration and publishing.
Saving(p) == pc[p] \in {"open", "write", "rename", "publish"}

Init ==
  /\ mem = sanitize(Start)
  /\ disk = CHOOSE i \in Inodes : TRUE
  /\ tmp = NoInode
  /\ content = [i \in Inodes |-> {Start}]
  /\ profile = [s \in Ssids |-> IF s \in Made THEN {Secret[s]} ELSE {}]
  /\ radio = FirstRadio
  /\ link \in (Own \cup Made) \cap DOMAIN radio
  /\ due = TRUE
  /\ pc = [p \in Procs |-> "idle"]
  /\ loc = [p \in Procs |-> Fresh]
  /\ mishaps = 0
  /\ listed = Made \cup WithPassword(Start)
  /\ raced = FALSE /\ lateUps = 0 /\ calm = FALSE

-----------------------------------------------------------------------------
(* Bookkeeping of the model: a step of p, and a new configuration.         *)

Goto(p, label, l) == pc' = [pc EXCEPT ![p] = label] /\ loc' = [loc EXCEPT ![p] = l]

\* Where a goroutine goes when it is done: the engine waits for its next tick,
\* a command is answered.
Return(p) == Goto(p, IF p = Engine THEN "idle" ELSE "answered", Fresh)

SetMem(c) ==
  /\ mem' = c
  /\ listed' = listed \cup WithPassword(c)
  /\ lateUps' = IF c.enabled THEN 0 ELSE lateUps

\* An external command fails for a reason of its own (sudo, time limit).
Fails == mishaps < MaxMishaps /\ mishaps' = mishaps + 1

-----------------------------------------------------------------------------
(* engineTick *)

\* Enabled, and the interval is over: threshold and margin are read now.
Tick ==
  /\ pc[Engine] = "idle" /\ due /\ mem.enabled
  /\ Goto(Engine, "scan", [Fresh EXCEPT !.thr = mem.threshold, !.margin = mem.margin])
  /\ UNCHANGED <<mem, saved, profile, air, due, mishaps, history>>

\* Fault: a failed scan ends the engine's goroutine.
ScanEnds ==
  /\ pc[Engine] = "scan"
  /\ \/ /\ Goto(Engine, "assess", [loc[Engine] EXCEPT !.heard = radio])
        /\ UNCHANGED mishaps
     \/ Fails /\ Goto(Engine, "ended", Fresh)
  /\ UNCHANGED <<mem, saved, profile, air, due, history>>

\* Assess: the scan takes seconds; a failure leaves lastCheck as it was.
Scan ==
  /\ pc[Engine] = "scan"
  /\ \/ /\ Goto(Engine, "assess", [loc[Engine] EXCEPT !.heard = radio])
        /\ UNCHANGED mishaps
     \/ Fails /\ Return(Engine)
  /\ UNCHANGED <<mem, saved, profile, air, due, history>>

\* ... then the link is read, and lastCheck is set.  No link, or one above the
\* threshold read before the scan: the engine is done.
ReadLink ==
  /\ pc[Engine] = "assess"
  /\ due' = FALSE
  /\ IF link = NoSsid \/ radio[link] > loc[Engine].thr
     THEN Return(Engine)
     ELSE Goto(Engine, "choose", [loc[Engine] EXCEPT !.from = link, !.rssi = radio[link]])
  /\ UNCHANGED <<mem, saved, profile, air, mishaps, history>>

\* The switch and the whitelist are read again, threshold and margin are not.
Choose ==
  /\ pc[Engine] = "choose"
  /\ LET l == loc[Engine]
         cur == [NoLink EXCEPT !.ssid = l.from, !.rssi = l.rssi]
         best == pick(l.heard, cur, DOMAIN mem.wl, l.thr, l.margin)
     IN  IF mem.enabled /\ best # {}
         THEN \E s \in best :
                Goto(Engine, "profile", [Fresh EXCEPT !.from = l.from, !.target = s])
         ELSE Return(Engine)
  /\ UNCHANGED <<mem, saved, profile, air, due, mishaps, history>>

-----------------------------------------------------------------------------
(* switchTo and ensureProfile, run by the engine and by commands           *)

\* Fault: the engine gives up without going back.
GiveUpAtOnce(p) == Return(p)

\* Fault: the way back is tried again and again.
GiveUpAgain(p) ==
  IF p = Engine
  THEN Goto(p, "profile", [loc[p] EXCEPT !.target = loc[p].from, !.pw = Blank])
  ELSE Return(p)

\* switchTo has failed: the engine goes back, once, to where it came from; the
\* network it goes back to need not be listed.  A command is answered.
GiveUp(p) ==
  IF p = Engine /\ ~loc[p].rolling
  THEN Goto(p, "profile", [loc[p] EXCEPT !.target = loc[p].from, !.pw = Blank, !.rolling = TRUE])
  ELSE Return(p)

\* ensureProfile has returned: SyncProfiles takes the next network whatever the
\* result, switchTo needs it to be TRUE.
Ensured(p, ok) ==
  IF loc[p].op = "apply"
  THEN Goto(p, "sync", [loc[p] EXCEPT !.todo = @ \ {loc[p].target}])
  ELSE IF ok THEN Goto(p, "up", loc[p]) ELSE GiveUp(p)

\* A profile of that name is used as it is, whatever password it has.  One that
\* is missing, or not seen because the list of connections cannot be had (one
\* mishap stands for both looks of switchTo), is made with the password listed
\* now, if there is one.
CheckProfile(p) ==
  /\ pc[p] = "profile"
  /\ LET s == loc[p].target
     IN  \/ profile[s] # {} /\ Ensured(p, TRUE) /\ UNCHANGED mishaps
         \/ /\ IF profile[s] = {} THEN UNCHANGED mishaps ELSE Fails
            /\ IF s \in WithPassword(mem)
               THEN Goto(p, "add", [loc[p] EXCEPT !.pw = mem.wl[s]])
               ELSE Ensured(p, FALSE)
  /\ UNCHANGED <<mem, saved, profile, air, due, history>>

\* NetworkManager keeps several profiles of one name.
AddProfile(p) ==
  /\ pc[p] = "add"
  /\ \/ /\ profile' = [profile EXCEPT ![loc[p].target] = @ \cup {loc[p].pw}]
        /\ Ensured(p, TRUE)
        /\ UNCHANGED mishaps
     \/ Fails /\ Ensured(p, FALSE) /\ UNCHANGED profile
  /\ UNCHANGED <<mem, saved, air, due, history>>

\* nmcli connection up: one of the profiles of that name.  A failed activation
\* may have cost the link there was.
Up(p) ==
  /\ pc[p] = "up"
  /\ LET s == loc[p].target
     IN  \/ /\ s \in DOMAIN radio /\ Secret[s] \in profile[s]
            /\ link' = s
            /\ Goto(p, "verify", loc[p])
            /\ UNCHANGED mishaps
         \/ /\ IF s \in DOMAIN radio /\ profile[s] = {Secret[s]} THEN Fails ELSE UNCHANGED mishaps
            /\ link' \in {link, NoSsid}
            /\ GiveUp(p)
  /\ lateUps' = IF p = Engine /\ ~mem.enabled THEN lateUps + 1 ELSE lateUps
  /\ UNCHANGED <<mem, saved, profile, radio, due, listed, raced>>

\* Up to 25 s: any Wi-Fi connection whose gateway answers will do, that of
\* another goroutine included.
Verify(p) ==
  /\ pc[p] = "verify"
  /\ \/ link \notin Dead \cup {NoSsid} /\ Return(p) /\ UNCHANGED mishaps
     \/ link \in Dead \cup {NoSsid} /\ GiveUp(p) /\ UNCHANGED mishaps
     \/ Fails /\ GiveUp(p)
  /\ UNCHANGED <<mem, saved, profile, air, due, history>>

-----------------------------------------------------------------------------
(* Commands of the console                                                 *)

\* Fault: the passwords left blank are taken for new ones.
ApplyAsIs(p, c) ==
  /\ pc[p] = "idle" /\ p \in Cmds
  /\ Goto(p, "open", [Fresh EXCEPT !.op = "apply", !.cfg = sanitize(c)])
  /\ raced' = (raced \/ \E q \in Cmds : Saving(q))
  /\ UNCHANGED <<mem, saved, profile, air, due, mishaps, listed, lateUps>>

\* wifi_guard_config: parsed, sanitized, and merged under the mutex with the
\* passwords known now.
BeginApply(p, c) ==
  /\ pc[p] = "idle" /\ p \in Cmds
  /\ LET new == sanitize(c)
         merged == [new EXCEPT !.wl = [s \in DOMAIN new.wl |->
                      IF new.wl[s] = Blank /\ s \in DOMAIN mem.wl THEN mem.wl[s] ELSE new.wl[s]]]
     IN  Goto(p, "open", [Fresh EXCEPT !.op = "apply", !.cfg = merged])
  /\ raced' = (raced \/ \E q \in Cmds : Saving(q))
  /\ UNCHANGED <<mem, saved, profile, air, due, mishaps, listed, lateUps>>

\* os.WriteFile opens and truncates the one temporary file there is ...
OpenTmp(p) ==
  /\ pc[p] = "open"
  /\ LET i == IF tmp # NoInode THEN tmp
              ELSE CHOOSE i \in Inodes : i # disk /\ \A q \in Cmds : loc[q].fd # i
     IN  /\ tmp' = i
         /\ content' = [content EXCEPT ![i] = Torn]
         /\ Goto(p, "write", [loc[p] EXCEPT !.fd = i])
  /\ UNCHANGED <<mem, disk, profile, air, due, mishaps, history>>

\* ... and writes into it, wherever it has been moved meanwhile.
WriteTmp(p) ==
  /\ pc[p] = "write"
  /\ \/ /\ content' = [content EXCEPT ![loc[p].fd] = {loc[p].cfg}]
        /\ Goto(p, "rename", loc[p])
        /\ UNCHANGED mishaps
     \/ Fails /\ Return(p) /\ UNCHANGED content
  /\ UNCHANGED <<mem, disk, tmp, profile, air, due, history>>

\* The rename fails if another one has taken the file.
Rename(p) ==
  /\ pc[p] = "rename"
  /\ IF tmp = NoInode
     THEN Return(p) /\ UNCHANGED saved
     ELSE /\ disk' = tmp /\ tmp' = NoInode
          /\ Goto(p, "publish", [loc[p] EXCEPT !.fd = NoInode])
          /\ UNCHANGED content
  /\ UNCHANGED <<mem, profile, air, due, mishaps, history>>

Publish(p) ==
  /\ pc[p] = "publish"
  /\ SetMem(loc[p].cfg)
  /\ Goto(p, "list", [Fresh EXCEPT !.op = "apply"])
  /\ UNCHANGED <<saved, profile, air, due, mishaps, raced>>

\* SyncProfiles: the networks listed with a password now ...
ListEntries(p) ==
  /\ pc[p] = "list"
  /\ Goto(p, "sync", [loc[p] EXCEPT !.todo = WithPassword(mem)])
  /\ UNCHANGED <<mem, saved, profile, air, due, mishaps, history>>

\* ... get a profile each.
SyncNext(p) ==
  /\ pc[p] = "sync"
  /\ \/ loc[p].todo = {} /\ Return(p)
     \/ \E s \in loc[p].todo : Goto(p, "profile", [loc[p] EXCEPT !.target = s, !.pw = Blank])
  /\ UNCHANGED <<mem, saved, profile, air, due, mishaps, history>>

\* wifi_switch: the whitelist is looked at once, before switchTo.
BeginSwitch(p, s) ==
  /\ pc[p] = "idle" /\ p \in Cmds
  /\ IF s \in DOMAIN mem.wl
     THEN Goto(p, "profile", [Fresh EXCEPT !.op = "switch", !.target = s])
     ELSE Return(p)
  /\ UNCHANGED <<mem, saved, profile, air, due, mishaps, history>>

\* wifi_connect: nmcli connects to any network, listed or not.
Connect(p, s) ==
  /\ pc[p] = "idle" /\ p \in Cmds
  /\ link' \in {link, NoSsid} \cup ({s} \cap DOMAIN radio)
  /\ Return(p)
  /\ UNCHANGED <<mem, saved, profile, radio, due, mishaps, history>>

\* wifi_quality: a report for the console, which its page asks for every minute,
\* sets lastCheck as well, and so puts the engine off.
Report ==
  /\ "report" \in Ops
  /\ due' = FALSE
  /\ UNCHANGED <<mem, saved, profile, air, pc, loc, mishaps, history>>

-----------------------------------------------------------------------------
(* Time, radio, NetworkManager, restarts                                   *)

Elapse ==
  /\ ~due
  /\ due' = TRUE
  /\ UNCHANGED <<mem, saved, profile, air, pc, loc, mishaps, history>>

Drift ==
  /\ mishaps < MaxMishaps /\ mishaps' = mishaps + 1
  /\ radio' \in Radios \ {radio}
  /\ link' = IF link \in DOMAIN radio' THEN link ELSE NoSsid
  /\ UNCHANGED <<mem, saved, profile, due, pc, loc, history>>

\* NetworkManager connects by itself to a network it knows.
Autoconnect(s) ==
  /\ link = NoSsid /\ s \in DOMAIN radio
  /\ s \in Own \/ Secret[s] \in profile[s]
  /\ link' = s
  /\ UNCHANGED <<mem, saved, profile, radio, due, pc, loc, mishaps, history>>

\* Fault: the configuration is not read at start-up.
LoadNothing == SetMem(EngineOff)

\* A file that cannot be parsed leaves the defaults, without a word.
loadConfig == 
  SetMem(IF content[disk] = Torn THEN EngineOff
         ELSE sanitize(CHOOSE c \in content[disk] : TRUE))

\* The agent restarts: goroutines and memory are gone, files and profiles stay.
Restart ==
  /\ mishaps < MaxMishaps /\ mishaps' = mishaps + 1
  /\ loadConfig
  /\ due' = TRUE
  /\ pc' = [p \in Procs |-> IF pc[p] = "idle" \/ p = Engine THEN "idle" ELSE "answered"]
  /\ loc' = [p \in Procs |-> Fresh]
  /\ UNCHANGED <<saved, profile, air, raced>>

-----------------------------------------------------------------------------
Switching(p) == CheckProfile(p) \/ AddProfile(p) \/ Up(p) \/ Verify(p)

EngineStep == Tick \/ Scan \/ ReadLink \/ Choose \/ Switching(Engine)

Save(p) == OpenTmp(p) \/ WriteTmp(p) \/ Rename(p) \/ Publish(p)

CmdStep(p) == Save(p) \/ ListEntries(p) \/ SyncNext(p) \/ Switching(p)

Ask(p) ==
  /\ \A q \in Cmds : q < p => pc[q] # "idle"
  /\ \/ "apply" \in Ops /\ \E c \in Requests : BeginApply(p, c)
     \/ "switch" \in Ops /\ \E s \in Ssids : BeginSwitch(p, s)
     \/ "connect" \in Ops /\ \E s \in Ssids : Connect(p, s)

\* calm is the only thing these two add.
EngineActs == EngineStep /\ calm' = ((pc[Engine] = "idle" \/ calm) /\ mishaps' = mishaps)

CmdActs(p) == CmdStep(p) /\ calm' = FALSE

Others ==
  \/ \E p \in Cmds : Ask(p)
  \/ Report
  \/ Drift
  \/ \E s \in Ssids : Autoconnect(s)
  \/ Restart

Next ==
  \/ EngineActs
  \/ \E p \in Cmds : CmdActs(p)
  \/ Elapse /\ UNCHANGED calm
  \/ Others /\ calm' = FALSE

Spec == Init /\ [][Next]_vars

\* The engine's goroutine runs, an interval that nobody starts again ends, and a
\* command that has begun goes on.  Commands are finitely many and each has
\* finitely many steps, so that fairness to all of them is fairness to each.
FairSpec ==
  /\ Spec
  /\ WF_vars(EngineActs)
  /\ WF_vars(Elapse /\ UNCHANGED calm)
  /\ WF_vars(\E p \in Cmds : CmdActs(p))

-----------------------------------------------------------------------------
TypeOK ==
  /\ mem \in Config /\ mem = sanitize(mem)
  /\ disk \in Inodes /\ tmp \in Inodes \cup {NoInode} /\ tmp # disk
  /\ content \in [Inodes -> SUBSET Config]
  /\ profile \in [Ssids -> SUBSET Passwords]
  /\ radio \in Radios /\ link \in DOMAIN radio \cup {NoSsid}
  /\ \A p \in Procs : pc[p] = "write" => loc[p].fd \in Inodes
  /\ listed \subseteq Ssids

(***************************************************************************)
(* wifimgr.go:9 promises that only networks of the whitelist are connected *)
(* to.  What the code keeps, through restarts, replaced configurations and *)
(* the way back to an unlisted network: a network brought up by the engine *)
(* or by wifi_switch was listed with a password at some time.              *)
(***************************************************************************)
OnlyListed ==
  /\ \A s \in Ssids : profile[s] # {} => s \in listed
  /\ \A p \in Procs : pc[p] \in {"up", "verify"} => loc[p].target \in listed

(***************************************************************************)
(* Unless two configurations were once saved at the same time, the file    *)
(* agrees with the memory whenever no save is under way, so that a restart *)
(* changes nothing; a restart in the middle of a save is no exception.     *)
(***************************************************************************)
DiskIsMemory ==
  ~raced /\ (\A p \in Cmds : ~Saving(p))
    => \E c \in content[disk] : sanitize(c) = mem

(***************************************************************************)
(* A password the console leaves blank is kept (wifimgr.go:245): no step,  *)
(* a restart included, loses that of a network which stays listed, unless  *)
(* two configurations were saved at once.                                  *)
(***************************************************************************)
PasswordsAreKept ==
  [][~raced' => \A s \in WithPassword(mem) \cap DOMAIN mem'.wl : mem'.wl[s] # Blank]_vars

(***************************************************************************)
(* Once switched off, the engine finishes at most the turn it is in: one   *)
(* network tried and the way back.                                         *)
(***************************************************************************)
OffMeansOff == lateUps <= 2

(***************************************************************************)
(* The engine acts within what it was told: on listed networks, and once   *)
(* switched off on none but those of the turn it is in.                    *)
(***************************************************************************)
EngineObeys == OnlyListed /\ OffMeansOff

\* The engine's turn, in which it has tried a network, ends with nothing else
\* having happened, and the network it left is still there and working.
TurnEnds ==
  /\ pc[Engine] \in {"profile", "add", "up", "verify"} /\ pc'[Engine] = "idle"
  /\ calm'
  /\ loc[Engine].from \in DOMAIN radio \ Dead

(***************************************************************************)
(* wifimgr.go:6 promises that lost ground is given back after a switch.  A *)
(* turn of the engine never leaves the node without a working network if   *)
(* it had one and the guard had a good profile of its own for it.  For a   *)
(* network without one the way back fails, and this is false.              *)
(***************************************************************************)
StrandsOnlyUnmanaged ==
  [][TurnEnds /\ profile[loc[Engine].from] = {Secret[loc[Engine].from]}
       => link' \notin Dead \cup {NoSsid}]_vars

\* A weak link, and the engine could do better.
Better ==
  LET best == pick(radio, [NoLink EXCEPT !.ssid = link, !.rssi = radio[link]],
                   DOMAIN mem.wl, mem.threshold, mem.margin)
  IN  best # {} /\ \A s \in best : profile[s] = {Secret[s]} /\ s \notin Dead

(***************************************************************************)
(* The guard's purpose: an enabled guard does not stay for ever on a weak  *)
(* link while a better listed network that works is in range.  Only the    *)
(* console can keep it there: every report starts the interval again, and  *)
(* reports that never end, each before the interval is over, keep the      *)
(* engine from ever looking.  Commands, however many, cannot.              *)
(***************************************************************************)
WeakLinkIsLeft ==
  \/ []<>~(mem.enabled /\ link # NoSsid /\ Better)
  \/ []<><<Report>>_vars
=============================================================================
