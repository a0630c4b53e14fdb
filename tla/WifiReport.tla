----------------------------- MODULE WifiReport -----------------------------
(***************************************************************************)
(* Assess (wifimgr.go): one scan read block by block (iw) or line by line  *)
(* (nmcli), the current link, and the report made of both.  The networks,  *)
(* signals and links that may be seen are constants.                       *)
(***************************************************************************)
EXTENDS WifiRadio

CONSTANTS
  Blocks,      \* blocks `iw dev scan` may print: [bssid, ssid, freq, rssi]
  Lines,       \* lines `nmcli dev wifi list` may print: [ssid, signal, channel]
  IwLinks,     \* what `iw dev link` may say: [bssid, ssid, freq, rssi]
  NmcliLinks,  \* what nmcli may say of the interface: [ssid, signal, channel]
  Settings,    \* [whitelist, threshold, margin] after sanitize
  MaxHeard     \* bound: access points in one scan

\* Signals are negative dBm (wifimgr.go:429) and percentages; and a BSSID is one network's.
ASSUME HeardAssumption ==
  /\ \A b \in Blocks \cup IwLinks : b.rssi \in Floor..0
  /\ \A l \in Lines \cup NmcliLinks : l.signal \in 0..100
  /\ \A a, b \in Blocks :
       a.bssid = b.bssid /\ NoSsid \notin {a.ssid, b.ssid} => a.ssid = b.ssid
  /\ MaxHeard \in Nat
  /\ \A s \in Settings : s.threshold \in Int /\ s.margin \in Int

VARIABLES
  tool,        \* "iw" or "nmcli"
  aps,         \* the scan read so far
  set,         \* the settings in force
  report       \* [aps, cur, bands] or << >> before Assess

vars == <<tool, aps, set, report>>

\* currentLink: iw first, and nmcli if iw shows no link.
Links == {parseIwLink(l) : l \in IwLinks} \cup {parseNmcliLink(l) : l \in NmcliLinks}

TypeOK ==
  /\ tool \in {"iw", "nmcli"}
  /\ Len(aps) <= MaxHeard
  /\ \A i \in DOMAIN aps : /\ aps[i].ssid # NoSsid
                           /\ aps[i].rssi \in Floor..0
                           /\ aps[i].band \in {NoBand, "2.4", "5", "6"}
  /\ set \in Settings
  /\ report # << >> => report.cur \in Links

Init ==
  /\ tool = "iw"
  /\ aps = << >>
  /\ set \in Settings
  /\ report = << >>

\* A block of iw's output ends; one without a name is forgotten.
IwBlock(b) ==
  /\ report = << >> /\ tool = "iw" /\ Len(aps) < MaxHeard
  /\ aps' = IF b.ssid = NoSsid THEN aps ELSE Append(aps, compute(b))
  /\ UNCHANGED <<tool, set, report>>

\* iw is missing, is refused by the driver or prints nothing.
IwFails ==
  /\ report = << >> /\ tool = "iw" /\ aps = << >>
  /\ tool' = "nmcli"
  /\ UNCHANGED <<aps, set, report>>

NmcliLine(l) ==
  /\ report = << >> /\ tool = "nmcli" /\ Len(aps) < MaxHeard
  /\ aps' = IF l.ssid = NoSsid THEN aps ELSE Append(aps, parseNmcliLine(l))
  /\ UNCHANGED <<tool, set, report>>

Assess(cur) ==
  /\ report = << >>
  /\ LET kept == dedupAPs(aps)
     IN  report' = [aps |-> kept, cur |-> cur, bands |-> aggregateBands(kept)]
  /\ UNCHANGED <<tool, aps, set>>

\* The next scan, of the engine or of the console.
ScanAgain ==
  /\ report # << >>
  /\ tool' = "iw" /\ aps' = << >> /\ report' = << >>
  /\ UNCHANGED set

Next ==
  \/ \E b \in Blocks : IwBlock(b)
  \/ IwFails
  \/ \E l \in Lines : NmcliLine(l)
  \/ \E cur \in Links : Assess(cur)
  \/ ScanAgain

Spec == Init /\ [][Next]_vars

-----------------------------------------------------------------------------
(* Properties of a finished report. *)

Done == report # << >>

Picked == pick(bySSID(report.aps), report.cur, set.whitelist, set.threshold, set.margin)

Advised ==
  recommendedSsids(bySSID(report.aps), report.cur, set.whitelist, set.threshold, set.margin)

(***************************************************************************)
(* Two loops decide about the same networks: recommend, for the operator,  *)
(* and engineTick, which acts.  On one report and one setting they agree:  *)
(* the engine only goes where the operator is advised to go, and if the    *)
(* link is weak it stays only if no network is advised.                    *)
(***************************************************************************)
EngineFollowsAdvice ==
  Done => /\ Picked \subseteq Advised
          /\ (report.cur # NoLink /\ report.cur.rssi <= set.threshold /\ Picked = {})
               => Advised = {}

(***************************************************************************)
(* The engine picks the strongest of everything the radio heard: neither   *)
(* the removal of duplicates nor the grouping by name may hide a reading   *)
(* of a listed network that is better than the one picked.                 *)
(***************************************************************************)
PickIsStrongest ==
  Done => \A s \in Picked :
            \A i \in DOMAIN aps :
              (aps[i].ssid \in set.whitelist \ {report.cur.ssid})
                => aps[i].rssi <= bySSID(report.aps)[s]

\* The sum of the readings at these places.
Sum(list, places) ==
  LET upTo[n \in 0..Len(list)] ==
        IF n = 0 THEN 0 ELSE upTo[n - 1] + (IF n \in places THEN list[n].rssi ELSE 0)
  IN  upTo[Len(list)]

(***************************************************************************)
(* Every access point of a known band is counted on exactly one channel,   *)
(* and the running mean, rounded at each step, is never below the true one *)
(* and at most (n-1)/2 dB above it.                                        *)
(***************************************************************************)
StatsAddUp ==
  Done => /\ \A i \in DOMAIN report.aps :
               LET ap == report.aps[i]
               IN  ap.band # NoBand => report.bands[ap.band][ap.channel].count > 0
          /\ \A b \in DOMAIN report.bands : \A ch \in DOMAIN report.bands[b] :
               LET st == report.bands[b][ch]
                   mine == {i \in DOMAIN report.aps :
                              report.aps[i].band = b /\ report.aps[i].channel = ch}
               IN  /\ st.count = Cardinality(mine)
                   /\ st.count * st.avg - Sum(report.aps, mine) \in 0..((st.count * (st.count - 1)) \div 2)

(***************************************************************************)
(* A channel advised to someone on a crowded one never scores below it,    *)
(* whichever of several equal ones the map order yields.                   *)
(***************************************************************************)
AdviceIsNoWorse ==
  Done => \A ch \in recommendedChannels(report.bands, report.cur) :
            /\ ch # report.cur.channel
            /\ report.bands[report.cur.band][ch].score
                 >= report.bands[report.cur.band][report.cur.channel].score

(***************************************************************************)
(* What the operator is told and what the engine does on one scan is the   *)
(* same, and it is the best that was heard.                                *)
(***************************************************************************)
AdviceIsSound == EngineFollowsAdvice /\ PickIsStrongest /\ AdviceIsNoWorse
=============================================================================
