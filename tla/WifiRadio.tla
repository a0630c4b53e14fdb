----------------------------- MODULE WifiRadio -----------------------------
(***************************************************************************)
(* The pure part of agent/internal/wifimgr: from what `iw` or `nmcli`      *)
(* print of the surrounding access points to the report the console shows  *)
(* and the network the automatic engine picks.  An access point is a       *)
(* record [bssid, ssid, freq, channel, band, rssi]; security, bit rate and *)
(* the 0-100 signal are shown only and left out.                           *)
(***************************************************************************)
EXTENDS Integers, Sequences, FiniteSets, SequencesExt, FiniteSetsExt

NoSsid == ""       \* hidden network, or no link
NoBssid == ""      \* nmcli does not list the BSSID
NoBand == ""
Floor == -200      \* the RSSI that stands for "nothing heard"

NoLink == [ssid |-> NoSsid, channel |-> 0, band |-> NoBand, rssi |-> Floor]

\* Go's integer division rounds towards zero.
Quot(a, b) == IF a >= 0 THEN a \div b ELSE -((-a) \div b)

-----------------------------------------------------------------------------
(* Frequencies (MHz), channels and bands. *)

channelOfFreq(freq) ==
  IF freq \in 2412..2484 THEN (freq - 2407) \div 5
  ELSE IF freq \in 5005..5825
       THEN LET ch == (freq - 5000) \div 5 IN IF ch < 36 THEN 0 ELSE ch
  ELSE IF freq \in 5935..7115 THEN Quot(freq - 5950, 5)
  ELSE 0

freqOfChannel(ch) ==
  IF ch \in 1..14 THEN 2407 + ch * 5
  ELSE IF ch \in 36..165 THEN 5000 + ch * 5
  ELSE IF ch \in 1..233 THEN 5950 + ch * 5
  ELSE 0

bandOfFreq(freq) ==
  IF freq \in 2412..2484 THEN "2.4"
  ELSE IF freq \in 5000..5825 THEN "5"
  ELSE IF freq \in 5935..7115 THEN "6"
  ELSE NoBand

bandOfChannel(ch) ==
  IF ch \in 1..14 THEN "2.4"
  ELSE IF ch \in 36..165 THEN "5"
  ELSE IF ch \in 1..233 THEN "6"
  ELSE NoBand

-----------------------------------------------------------------------------
(* One block of `iw scan`, one line of `nmcli dev wifi list`. *)

\* flush and compute: the derived fields come from the frequency.
compute(b) ==
  [bssid |-> b.bssid, ssid |-> b.ssid, rssi |-> b.rssi, freq |-> b.freq,
   channel |-> channelOfFreq(b.freq), band |-> bandOfFreq(b.freq)]

\* nmcli gives a percentage and a channel: 100 % becomes -50 dBm.
parseNmcliLine(l) ==
  [bssid |-> NoBssid, ssid |-> l.ssid, rssi |-> (l.signal \div 2) - 100,
   freq |-> freqOfChannel(l.channel), channel |-> l.channel,
   band |-> bandOfChannel(l.channel)]

\* The link of `iw dev link` and of nmcli; neither name nor BSSID: no link.
parseIwLink(l) ==
  IF l.ssid = NoSsid /\ l.bssid = NoBssid THEN NoLink
  ELSE [ssid |-> l.ssid, rssi |-> l.rssi,
        channel |-> channelOfFreq(l.freq), band |-> bandOfFreq(l.freq)]

parseNmcliLink(l) ==
  IF l.ssid = NoSsid THEN NoLink
  ELSE [ssid |-> l.ssid, rssi |-> (l.signal \div 2) - 100,
        channel |-> l.channel, band |-> bandOfChannel(l.channel)]

\* Where an entry of this BSSID is; one without a BSSID is nobody's double.
Known(out, ap) == {i \in DOMAIN out : ap.bssid # NoBssid /\ out[i].bssid = ap.bssid}

\* Fault: the first reading of a BSSID is kept.
KeepFirst(out, ap) == IF Known(out, ap) = {} THEN Append(out, ap) ELSE out

Keep(out, ap) ==
  IF Known(out, ap) = {} THEN Append(out, ap)
  ELSE [i \in DOMAIN out |-> IF i \in Known(out, ap) /\ ap.rssi > out[i].rssi THEN ap ELSE out[i]]

\* One entry per BSSID, in the order first heard, the strongest reading kept.
dedupAPs(aps) ==
  LET out[n \in 0..Len(aps)] == IF n = 0 THEN << >> ELSE Keep(out[n - 1], aps[n])
  IN  out[Len(aps)]

-----------------------------------------------------------------------------
(* Channels: crowding and strength. *)

congestion(count) == Min({count * 20, 100})
strength(best) == Min({100, Max({0, Quot((best + 90) * 100, 40)})})
score(count, best) == (strength(best) * 6) \div 10 - (congestion(count) * 4) \div 10

onChannel(aps, band, ch) == {i \in DOMAIN aps : aps[i].band = band /\ aps[i].channel = ch}

\* Fault: each new reading is averaged with the mean so far.
CountedHalf(st, ap) ==
  [count |-> st.count + 1, avg |-> IF st.count = 0 THEN ap.rssi ELSE Quot(st.avg + ap.rssi, 2)]

\* The mean is updated per access point, each time rounded towards zero.
Counted(st, ap) ==
  [count |-> st.count + 1, avg |-> Quot(st.avg * st.count + ap.rssi, st.count + 1)]

\* Count and mean of a channel, after all access points have been gone through.
tally(aps, band, ch) ==
  LET st[n \in 0..Len(aps)] ==
        IF n = 0 THEN [count |-> 0, avg |-> 0]
        ELSE IF n \in onChannel(aps, band, ch) THEN Counted(st[n - 1], aps[n]) ELSE st[n - 1]
  IN  st[Len(aps)]

bestRssi(aps, band, ch) == Max({Floor} \cup {aps[i].rssi : i \in onChannel(aps, band, ch)})

channelStat(aps, band, ch) ==
  LET st == tally(aps, band, ch)
      best == bestRssi(aps, band, ch)
  IN  [channel |-> ch, count |-> st.count, best |-> best, avg |-> st.avg,
       congestion |-> congestion(st.count), score |-> score(st.count, best)]

\* aggregateBands: every band heard, every channel of it, in a map.
aggregateBands(aps) ==
  LET heard == {aps[i] : i \in {i \in DOMAIN aps : aps[i].band # NoBand}}
  IN  [b \in {ap.band : ap \in heard} |->
        [ch \in {ap.channel : ap \in {a \in heard : a.band = b}} |->
           channelStat(aps, b, ch)]]

\* The best channel of a band: of equal scores the one the map yields first,
\* which Go leaves open.
bestChannels(stats) ==
  {ch \in DOMAIN stats : \A c \in DOMAIN stats : stats[c].score <= stats[ch].score}

-----------------------------------------------------------------------------
(* Networks: what is heard of each, what the console is advised, what the  *)
(* engine picks.                                                           *)

\* The strongest access point of every network heard.
bySSID(aps) ==
  LET named == {i \in DOMAIN aps : aps[i].ssid # NoSsid}
  IN  [s \in {aps[i].ssid : i \in named} |->
        Max({aps[i].rssi : i \in {j \in named : aps[j].ssid = s}})]

\* recommend, first part: networks of the whitelist worth switching to.
recommendedSsids(heard, cur, whitelist, threshold, margin) ==
  {s \in whitelist \cap DOMAIN heard :
     /\ s # cur.ssid
     /\ heard[s] >= threshold
     /\ heard[s] > cur.rssi + margin}

\* recommend, second part: a better channel when the current one is crowded.
recommendedChannels(bands, cur) ==
  IF cur.band \in DOMAIN bands /\ cur.channel \in DOMAIN bands[cur.band]
  THEN LET stats == bands[cur.band]
       IN  IF stats[cur.channel].congestion >= 60
           THEN bestChannels(stats) \ {cur.channel}
           ELSE {}
  ELSE {}

\* engineTick: nothing unless the link is at or below the threshold; then the
\* strongest network of the whitelist that is good enough (of equals, the
\* first of the list).
pick(heard, cur, whitelist, threshold, margin) ==
  LET fits == {s \in whitelist \cap DOMAIN heard :
                 /\ s # cur.ssid
                 /\ ~(heard[s] < threshold \/ heard[s] <= cur.rssi + margin)}
  IN  IF cur = NoLink \/ cur.rssi > threshold THEN {}
      ELSE {s \in fits : \A t \in fits : heard[t] <= heard[s]}
=============================================================================
