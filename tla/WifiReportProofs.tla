-------------------------- MODULE WifiReportProofs --------------------------
(***************************************************************************)
(* Proofs about WifiReport, for any scans, links and settings.  What the   *)
(* loops of wifimgr.go compute is proved by induction over the access      *)
(* points gone through.                                                    *)
(***************************************************************************)
EXTENDS WifiReport, FiniteSetTheorems, SequenceTheorems, WellFoundedInduction, TLAPS

-----------------------------------------------------------------------------
(* Induction over sets of numbers.                                         *)

LEMMA Least ==
    ASSUME NEW T, T \subseteq Nat, T # {}
    PROVE  \E n \in T : \A m \in T : n <= m
<1> DEFINE R == OpToRel(<, Nat)
<1>1. PICK n \in T : \A m \in T : ~(<<m, n>> \in R)
  <2>1. IsWellFoundedOn(R, Nat)
    BY NatLessThanWellFounded
  <2> HIDE DEF R
  <2> QED BY <2>1, WFMin
<1>2. \A m \in T : ~(m < n)
  BY <1>1 DEF OpToRel
<1> QED BY <1>2

LEMMA Induct ==
    ASSUME NEW N \in Nat, NEW S, 0 \in S, \A n \in 0..(N - 1) : n \in S => n + 1 \in S
    PROVE  \A n \in 0..N : n \in S
<1> SUFFICES ASSUME NEW k \in 0..N, k \notin S PROVE FALSE
  OBVIOUS
<1> DEFINE T == {n \in 0..N : n \notin S}
<1>0. T \subseteq Nat /\ k \in T
  OBVIOUS
<1>1. PICK n \in T : \A m \in T : n <= m
  <2> HIDE DEF T
  <2> QED BY <1>0, Least
<1>2. n # 0 /\ n - 1 \in 0..(N - 1) /\ n - 1 \notin T
  BY <1>1
<1> QED BY <1>1, <1>2

\* A recurrence over 0..N, given as a function, and its solution: what a
\* recursive definition stands for.
Closed(step, N, A) == \A n \in 1..N : \A a \in A : step[n][a] \in A
Solves(f, N, A, base, step) ==
    f \in [0..N -> A] /\ f[0] = base /\ \A n \in 1..N : f[n] = step[n][f[n - 1]]

LEMMA Recursion ==
    ASSUME NEW N \in Nat, NEW A, NEW base \in A, NEW step, Closed(step, N, A)
    PROVE  \E f : Solves(f, N, A, base, step)
<1> DEFINE Then(n, a) == step[n][a]
           Upto(f, k) == f \in [0..N -> A] /\ f[0] = base /\ \A n \in 1..k : f[n] = Then(n, f[n - 1])
           S == {k \in 0..N : \E f : Upto(f, k)}
<1>0. \A n \in 1..N : \A a \in A : Then(n, a) \in A
  BY DEF Closed
<1> HIDE DEF Then
<1>1. 0 \in S
  <2> DEFINE f == [n \in 0..N |-> base]
  <2>1. f \in [0..N -> A] /\ f[0] = base
    OBVIOUS
  <2>2. Upto(f, 0)
    BY <2>1
  <2> HIDE DEF f, Upto
  <2> QED BY <2>2
<1>2. ASSUME NEW k \in 0..(N - 1), k \in S PROVE k + 1 \in S
  <2>1. PICK f : Upto(f, k)
    BY <1>2
  <2> DEFINE new == Then(k + 1, f[k])
             g == [f EXCEPT ![k + 1] = new]
  <2>2. k + 1 \in 1..N /\ k \in 0..N /\ f[k] \in A
    BY <2>1
  <2>3. new \in A
    BY <1>0, <2>2
  <2> HIDE DEF new
  <2>4. g \in [0..N -> A] /\ \A n \in 0..N : g[n] = IF n = k + 1 THEN new ELSE f[n]
    BY <2>1, <2>2, <2>3
  <2> HIDE DEF g
  <2>5. g[0] = base
    BY <2>1, <2>2, <2>4
  <2>6. ASSUME NEW n \in 1..(k + 1) PROVE g[n] = Then(n, g[n - 1])
    <3>1. n - 1 \in 0..N /\ n - 1 # k + 1 /\ n \in 0..N /\ g[n - 1] = f[n - 1]
      BY <2>2, <2>4
    <3>2. CASE n = k + 1
      BY <2>4, <3>1, <3>2 DEF new
    <3>3. CASE n # k + 1
      <4>1. n \in 1..k
        BY <3>3
      <4> QED BY <2>1, <2>4, <3>1, <3>3, <4>1
    <3> QED BY <3>2, <3>3
  <2>7. Upto(g, k + 1)
    BY <2>4, <2>5, <2>6
  <2> HIDE DEF Upto
  <2> QED BY <2>2, <2>7
<1>3. N \in S
  <2> HIDE DEF S
  <2>1. N \in 0..N
    OBVIOUS
  <2> QED BY <1>1, <1>2, <2>1, Induct
<1>4. PICK f : Upto(f, N)
  BY <1>3
<1> QED BY <1>4 DEF Then, Solves

\* What the first value has and each step keeps, all values have.
LEMMA Along ==
    ASSUME NEW N \in Nat, NEW A, NEW f, f[0] \in A, \A n \in 1..N : f[n - 1] \in A => f[n] \in A
    PROVE  \A n \in 0..N : f[n] \in A
<1> DEFINE S == {n \in 0..N : f[n] \in A}
<1>1. 0 \in S
  OBVIOUS
<1>2. ASSUME NEW n \in 0..(N - 1), n \in S PROVE n + 1 \in S
  <2>1. n + 1 \in 1..N /\ (n + 1) - 1 = n
    OBVIOUS
  <2> QED BY <1>2, <2>1
<1>3. \A n \in 0..N : n \in S
  <2> HIDE DEF S
  <2> QED BY <1>1, <1>2, Induct
<1> QED BY <1>3

\* A finite set of integers that is not empty has a greatest element.
LEMMA Greatest ==
    ASSUME NEW T, T \subseteq Int, T # {}, IsFiniteSet(T)
    PROVE  \E x \in T : \A y \in T : y <= x
<1> DEFINE Has(U) == \E x \in U : \A y \in U : y <= x
           Sizes == {n \in Nat : \E U \in SUBSET T : U # {} /\ IsFiniteSet(U) /\ Cardinality(U) = n /\ ~Has(U)}
<1> SUFFICES ASSUME ~Has(T) PROVE FALSE
  OBVIOUS
<1>1. Cardinality(T) \in Sizes
  BY FS_CardinalityType
<1>2. PICK n \in Sizes : \A m \in Sizes : n <= m
  <2>1. Sizes \subseteq Nat
    OBVIOUS
  <2> HIDE DEF Sizes
  <2> QED BY <1>1, <2>1, Least
<1>3. PICK U \in SUBSET T : U # {} /\ IsFiniteSet(U) /\ Cardinality(U) = n /\ ~Has(U)
  BY <1>2
<1>4. PICK u \in U : TRUE
  BY <1>3
<1> DEFINE V == U \ {u}
<1>5. IsFiniteSet(V) /\ Cardinality(V) = n - 1 /\ V \in SUBSET T /\ n - 1 \in Nat
  <2>1. IsFiniteSet(V) /\ Cardinality(V) = Cardinality(U) - 1
    BY <1>3, <1>4, FS_RemoveElement
  <2>2. Cardinality(V) \in Nat
    BY <2>1, FS_CardinalityType
  <2> QED BY <1>3, <2>1, <2>2
<1>6. n - 1 \notin Sizes
  BY <1>2, <1>5
<1>7. V = {} \/ Has(V)
  BY <1>5, <1>6
<1>8. Has(U)
  BY <1>4, <1>7
<1> QED BY <1>3, <1>8

LEMMA MaxFacts ==
    ASSUME NEW T, T \subseteq Int, T # {}, IsFiniteSet(T)
    PROVE  Max(T) \in T /\ \A y \in T : y <= Max(T)
<1>1. PICK x \in T : \A y \in T : y <= x
  BY Greatest
<1>2. \A y \in T : x >= y
  BY <1>1
<1>3. Max(T) \in T /\ \A y \in T : Max(T) >= y
  BY <1>2 DEF Max
<1> QED BY <1>3

\* The values of a list at some of its places are finitely many.
LEMMA FinitelyMany ==
    ASSUME NEW S, NEW list \in Seq(S), NEW P \in SUBSET DOMAIN list, NEW f \in [DOMAIN list -> Int]
    PROVE  IsFiniteSet({f[i] : i \in P})
<1>1. IsFiniteSet(DOMAIN list)
  BY FS_Interval
<1>2. IsFiniteSet(P)
  BY <1>1, FS_Subset
<1> DEFINE g == [i \in P |-> f[i]] T == {f[i] : i \in P}
<1>3. g \in Surjection(P, T)
  BY DEF Surjection
<1> QED BY <1>2, <1>3, FS_Surjection

-----------------------------------------------------------------------------
(* What is heard.                                                          *)

\* Access points as they are read: those of named networks.
Named == {compute(b) : b \in {b \in Blocks : b.ssid # NoSsid}}
           \cup {parseNmcliLine(l) : l \in {l \in Lines : l.ssid # NoSsid}}

Bands == {NoBand, "2.4", "5", "6"}

LEMMA NamedFacts ==
    /\ \A a \in Named : a.ssid # NoSsid /\ a.rssi \in Floor..0 /\ a.rssi \in Int /\ a.band \in Bands
    /\ \A a, b \in Named : a.bssid = b.bssid /\ a.bssid # NoBssid => a.ssid = b.ssid
<1>1. ASSUME NEW b \in Blocks, b.ssid # NoSsid
      PROVE  LET a == compute(b) IN
             a.ssid = b.ssid /\ a.bssid = b.bssid /\ a.rssi \in Floor..0 /\ a.band \in Bands
  BY HeardAssumption DEF compute, bandOfFreq, Bands
<1>2. ASSUME NEW l \in Lines, l.ssid # NoSsid
      PROVE  LET a == parseNmcliLine(l) IN
             a.ssid = l.ssid /\ a.bssid = NoBssid /\ a.rssi \in Floor..0 /\ a.band \in Bands
  BY HeardAssumption DEF parseNmcliLine, bandOfChannel, Bands, Floor
<1>3. \A a \in Named : \/ \E b \in Blocks : b.ssid # NoSsid /\ a = compute(b)
                       \/ \E l \in Lines : l.ssid # NoSsid /\ a = parseNmcliLine(l)
  BY DEF Named
<1>4. \A r \in Floor..0 : r \in Int
  BY DEF Floor
<1>5. ASSUME NEW a \in Named PROVE a.ssid # NoSsid /\ a.rssi \in Floor..0 /\ a.band \in Bands
  BY <1>1, <1>2, <1>3
<1>6. ASSUME NEW a \in Named, NEW b \in Named, a.bssid = b.bssid, a.bssid # NoBssid
      PROVE  a.ssid = b.ssid
  <2>1. PICK x \in Blocks : x.ssid # NoSsid /\ a = compute(x)
    BY <1>2, <1>3, <1>6
  <2>2. PICK y \in Blocks : y.ssid # NoSsid /\ b = compute(y)
    BY <1>2, <1>3, <1>6
  <2>3. a.ssid = x.ssid /\ b.ssid = y.ssid /\ x.bssid = y.bssid
    BY <1>1, <1>6, <2>1, <2>2
  <2> QED BY <2>1, <2>2, <2>3, HeardAssumption
<1> QED BY <1>4, <1>5, <1>6

-----------------------------------------------------------------------------
(* dedupAPs.                                                               *)

\* The list has a reading of this network that is as strong.
Covers(list, ap) == \E k \in 1..Len(list) : list[k].ssid = ap.ssid /\ ap.rssi <= list[k].rssi

LEMMA KeepCovers ==
    ASSUME NEW out \in Seq(Named), NEW ap \in Named
    PROVE  /\ Keep(out, ap) \in Seq(Named)
           /\ Covers(Keep(out, ap), ap)
           /\ \A a \in Named : Covers(out, a) => Covers(Keep(out, ap), a)
<1>0. \A i \in 1..Len(out) : out[i] \in Named
  OBVIOUS
<1>1. CASE Known(out, ap) = {}
  <2>1. Keep(out, ap) = Append(out, ap)
    BY <1>1 DEF Keep
  <2>2. /\ Append(out, ap) \in Seq(Named) /\ Len(Append(out, ap)) = Len(out) + 1
        /\ Append(out, ap)[Len(out) + 1] = ap
        /\ \A i \in 1..Len(out) : Append(out, ap)[i] = out[i]
    OBVIOUS
  <2>3. ap.rssi <= ap.rssi
    BY NamedFacts
  <2> QED BY <2>1, <2>2, <2>3 DEF Covers
<1>2. CASE Known(out, ap) # {}
  <2> DEFINE Now(i) == IF i \in Known(out, ap) /\ ap.rssi > out[i].rssi THEN ap ELSE out[i]
             now == [i \in 1..Len(out) |-> Now(i)]
  <2>1. Keep(out, ap) = now
    <3>1. DOMAIN out = 1..Len(out)
      OBVIOUS
    <3> QED BY <1>2, <3>1 DEF Keep
  <2>2. \A i \in 1..Len(out) : Now(i) \in Named /\ Now(i) \in {ap, out[i]}
    BY <1>0
  <2>3. ASSUME NEW i \in 1..Len(out)
        PROVE  /\ Now(i).ssid = out[i].ssid /\ out[i].rssi <= Now(i).rssi
               /\ i \in Known(out, ap) => ap.rssi <= Now(i).rssi /\ ap.ssid = out[i].ssid
    <3>1. out[i] \in Named /\ out[i].rssi \in Int /\ ap.rssi \in Int
      BY <1>0, NamedFacts
    <3>2. i \in Known(out, ap) => ap.ssid = out[i].ssid
      BY <3>1, NamedFacts DEF Known
    <3> QED BY <3>1, <3>2
  <2> HIDE DEF Now
  <2>4. now \in Seq(Named) /\ Len(now) = Len(out)
    BY <2>2
  <2>5. \A i \in 1..Len(out) : now[i] = Now(i)
    OBVIOUS
  <2>6. PICK j \in 1..Len(out) : j \in Known(out, ap)
    BY <1>2 DEF Known
  <2> HIDE DEF now
  <2>7. Covers(now, ap)
    BY <2>3, <2>4, <2>5, <2>6 DEF Covers
  <2>8. ASSUME NEW a \in Named, Covers(out, a) PROVE Covers(now, a)
    <3>1. PICK k \in 1..Len(out) : out[k].ssid = a.ssid /\ a.rssi <= out[k].rssi
      BY <2>8 DEF Covers
    <3>2. a.rssi \in Int /\ out[k].rssi \in Int /\ Now(k).rssi \in Int
      BY <1>0, <2>2, NamedFacts
    <3>3. a.rssi <= Now(k).rssi /\ Now(k).ssid = a.ssid
      BY <2>3, <3>1, <3>2
    <3> QED BY <2>4, <2>5, <3>3 DEF Covers
  <2> QED BY <2>1, <2>4, <2>7, <2>8
<1> QED BY <1>1, <1>2

\* The list without doubles is of access points that were read, and has of each
\* network one that was heard as well as any.
LEMMA DedupCovers ==
    ASSUME NEW list \in Seq(Named)
    PROVE  dedupAPs(list) \in Seq(Named) /\ \A i \in 1..Len(list) : Covers(dedupAPs(list), list[i])
<1> DEFINE N == Len(list)
           A == Seq(Named)
           Goes(f) == f = [n \in 0..N |-> IF n = 0 THEN << >> ELSE Keep(f[n - 1], list[n])]
           step == [n \in 1..N |-> [a \in A |-> Keep(a, list[n])]]
           out == CHOOSE f : Goes(f)
<1>0. N \in Nat /\ << >> \in A /\ \A n \in 1..N : list[n] \in Named
  OBVIOUS
<1>1. \A n \in 1..N : \A a \in A : step[n][a] = Keep(a, list[n]) /\ Keep(a, list[n]) \in A
  BY <1>0, KeepCovers
<1>2. \E f : Goes(f) /\ f \in [0..N -> A]
  <2> HIDE DEF step
  <2>1. Closed(step, N, A)
    BY <1>1 DEF Closed
  <2>2. PICK f : Solves(f, N, A, << >>, step)
    <3>1. N \in Nat /\ << >> \in A
      BY <1>0
    <3> HIDE DEF A, N
    <3> QED BY <2>1, <3>1, Recursion
  <2>3. \A n \in 1..N : f[n] = Keep(f[n - 1], list[n])
    <3> TAKE n \in 1..N
    <3>1. f[n - 1] \in A
      BY <1>0, <2>2 DEF Solves
    <3> QED BY <1>1, <2>2, <3>1 DEF Solves
  <2>4. \A n \in 0..N : f[n] = IF n = 0 THEN << >> ELSE Keep(f[n - 1], list[n])
    BY <1>0, <2>2, <2>3 DEF Solves
  <2>5. Goes(f)
    BY <2>2, <2>4 DEF Solves
  <2> QED BY <2>2, <2>5 DEF Solves
<1>3. Goes(out)
  BY <1>2
<1>4. dedupAPs(list) = out[N]
  BY DEF dedupAPs
<1> HIDE DEF out
<1>5. out[0] = << >> /\ \A n \in 1..N : out[n] = Keep(out[n - 1], list[n])
  BY <1>0, <1>3
<1> HIDE DEF Goes, step
<1> DEFINE S == {n \in 0..N : out[n] \in A /\ \A i \in 1..n : Covers(out[n], list[i])}
<1>6. 0 \in S
  <2>1. out[0] \in A /\ 1..0 = {} /\ 0 \in 0..N
    BY <1>0, <1>5
  <2> QED BY <2>1
<1>7. ASSUME NEW n \in 0..(N - 1), n \in S PROVE n + 1 \in S
  <2>1. n + 1 \in 1..N /\ (n + 1) - 1 = n /\ list[n + 1] \in Named /\ out[n] \in A
    BY <1>0, <1>7
  <2>2. out[n + 1] = Keep(out[n], list[n + 1])
    BY <1>5, <2>1
  <2>3. out[n + 1] \in A /\ Covers(out[n + 1], list[n + 1])
    BY <2>1, <2>2, KeepCovers
  <2>4. ASSUME NEW i \in 1..n PROVE Covers(out[n + 1], list[i])
    <3>1. Covers(out[n], list[i]) /\ list[i] \in Named
      BY <1>0, <1>7
    <3>2. \A a \in Named : Covers(out[n], a) => Covers(Keep(out[n], list[n + 1]), a)
      BY <2>1, KeepCovers
    <3> QED BY <2>2, <3>1, <3>2
  <2>5. \A i \in 1..(n + 1) : i = n + 1 \/ i \in 1..n
    BY <1>0
  <2> QED BY <2>1, <2>3, <2>4, <2>5
<1>8. N \in S
  <2>1. N \in 0..N
    BY <1>0
  <2> HIDE DEF S
  <2> QED BY <1>0, <1>6, <1>7, <2>1, Induct
<1> QED BY <1>4, <1>8

-----------------------------------------------------------------------------
(* The statistics of a channel.                                            *)

LEMMA DivFacts ==
    ASSUME NEW a \in Nat, NEW b \in Nat \ {0}
    PROVE  a \div b \in Nat /\ b * (a \div b) <= a /\ a < b * (a \div b) + b
  OBVIOUS

\* Go's division of what is not positive rounds up.
LEMMA QuotFacts ==
    ASSUME NEW a \in Int, a <= 0, NEW b \in Nat \ {0}
    PROVE  Quot(a, b) \in Int /\ Quot(a, b) <= 0 /\ b * Quot(a, b) - a \in 0..(b - 1)
<1> DEFINE q == (-a) \div b
<1>1. -a \in Nat
  OBVIOUS
<1>2. q \in Nat /\ b * q <= -a /\ -a < b * q + b /\ b * q \in Nat
  BY <1>1, DivFacts
<1>3. Quot(a, b) = -q
  <2>1. CASE a = 0
    <3>1. a \div b = 0 /\ q = 0
      BY <2>1
    <3> QED BY <2>1, <3>1 DEF Quot
  <2>2. CASE a < 0
    BY <2>2 DEF Quot
  <2> QED BY <2>1, <2>2
<1>4. b * (-q) = -(b * q)
  BY <1>2
<1> HIDE DEF q
<1> QED BY <1>2, <1>3, <1>4

\* Half of n(n-1) is a number, and n more is half of (n+1)n.
LEMMA Triangle ==
    ASSUME NEW n \in Nat
    PROVE  /\ (n * (n - 1)) \div 2 \in Nat
           /\ (n * (n - 1)) \div 2 + n = ((n + 1) * n) \div 2
<1>1. n * (n - 1) \in Nat
  <2>1. CASE n = 0
    BY <2>1
  <2>2. CASE n > 0
    BY <2>2
  <2> QED BY <2>1, <2>2
<1>2. (n + 1) * n = n * (n - 1) + 2 * n
  OBVIOUS
<1> DEFINE x == n * (n - 1)
<1> HIDE DEF x
<1>3. x \in Nat => (x + 2 * n) \div 2 = x \div 2 + n /\ x \div 2 \in Nat
  OBVIOUS
<1> QED BY <1>1, <1>2, <1>3 DEF x

Tallies == [count : Nat, avg : {v \in Int : v <= 0}]

\* What is left of rounding up, so far, is within half of n(n-1).
Near(st, sum) == st.count * st.avg - sum \in 0..((st.count * (st.count - 1)) \div 2)

LEMMA CountedTypes ==
    ASSUME NEW st \in Tallies, NEW ap \in Named
    PROVE  LET n == st.count
               a == st.avg * n + ap.rssi
               q == Quot(a, n + 1)
           IN  /\ n \in Nat /\ st.avg \in Int /\ st.avg * n \in Int /\ ap.rssi \in Int /\ a \in Int
               /\ q \in Int /\ (n + 1) * q - a \in 0..((n + 1) - 1)
               /\ Counted(st, ap) = [count |-> n + 1, avg |-> q]
               /\ Counted(st, ap) \in Tallies
<1> DEFINE n == st.count  v == st.avg  r == ap.rssi
           a == v * n + r
           q == Quot(a, n + 1)
<1>1. n \in Nat /\ v \in Int /\ v <= 0
  BY DEF Tallies
<1>2. r \in Int /\ r <= 0
  BY NamedFacts DEF Floor
<1>3. a \in Int /\ a <= 0 /\ v * n \in Int
  <2> HIDE DEF n, v, r
  <2> QED BY <1>1, <1>2
<1>4. n + 1 \in Nat \ {0}
  BY <1>1
<1>5. q \in Int /\ q <= 0 /\ (n + 1) * q - a \in 0..((n + 1) - 1)
  <2> HIDE DEF a, n
  <2> QED BY <1>3, <1>4, QuotFacts
<1>6. Counted(st, ap) = [count |-> n + 1, avg |-> q]
  BY DEF Counted
<1> HIDE DEF q
<1>7. [count |-> n + 1, avg |-> q] \in Tallies
  BY <1>4, <1>5 DEF Tallies
<1> QED BY <1>1, <1>2, <1>3, <1>5, <1>6, <1>7 DEF q

LEMMA CountedFacts ==
    ASSUME NEW st \in Tallies, NEW sum \in Int, Near(st, sum), NEW ap \in Named
    PROVE  /\ Counted(st, ap) \in Tallies /\ Counted(st, ap).count = st.count + 1
           /\ Near(Counted(st, ap), sum + ap.rssi)
<1> DEFINE n == st.count  v == st.avg  r == ap.rssi
           a == v * n + r
           q == Quot(a, n + 1)
           t == (n * (n - 1)) \div 2
<1>1. n \in Nat /\ v \in Int /\ r \in Int
  BY CountedTypes
<1>5. q \in Int /\ (n + 1) * q - a \in 0..((n + 1) - 1)
  BY CountedTypes
<1>6. Counted(st, ap) = [count |-> n + 1, avg |-> q] /\ Counted(st, ap) \in Tallies
  BY CountedTypes
<1>7. n * v - sum \in 0..t /\ t \in Nat /\ t + n = ((n + 1) * n) \div 2
  <2>1. n * v - sum \in 0..t
    BY DEF Near
  <2> HIDE DEF n
  <2> QED BY <1>1, <2>1, Triangle
<1>8. n * v = v * n
  BY <1>1
<1>9. a = v * n + r /\ v * n \in Int /\ (n + 1) * q \in Int
  BY <1>1, <1>5
<1>10. (n + 1) - 1 = n
  BY <1>1
<1> HIDE DEF n, v, r, a, q, t
<1>11. (n + 1) * q - (sum + r) \in 0..(t + n)
  <2> DEFINE vn == v * n  x == (n + 1) * q
  <2>1. x - a \in 0..n /\ vn - sum \in 0..t /\ a = vn + r /\ vn \in Int /\ x \in Int
    BY <1>5, <1>7, <1>8, <1>9, <1>10
  <2> HIDE DEF vn, x
  <2>2. x - (sum + r) \in 0..(t + n)
    BY <1>1, <1>7, <2>1
  <2> QED BY <2>2 DEF x
<1>12. (n + 1) * q - (sum + r) \in 0..(((n + 1) * ((n + 1) - 1)) \div 2)
  BY <1>7, <1>10, <1>11
<1>13. Near([count |-> n + 1, avg |-> q], sum + r)
  BY <1>12 DEF Near
<1> QED BY <1>6, <1>13 DEF n, r

\* Sum is a running sum.
LEMMA SumRuns ==
    ASSUME NEW list \in Seq(Named), NEW places
    PROVE  \E up \in [0..Len(list) -> Int] :
              /\ up[0] = 0 /\ Sum(list, places) = up[Len(list)]
              /\ \A n \in 1..Len(list) : up[n] = up[n - 1] + (IF n \in places THEN list[n].rssi ELSE 0)
<1> DEFINE N == Len(list)
           A == Int
           zero == 0
           More(a, n) == a + (IF n \in places THEN list[n].rssi ELSE 0)
           Goes(f) == f = [n \in 0..N |-> IF n = 0 THEN zero ELSE More(f[n - 1], n)]
           step == [n \in 1..N |-> [a \in A |-> More(a, n)]]
           up == CHOOSE f : Goes(f)
<1>0. N \in Nat /\ zero \in A /\ \A n \in 1..N : list[n].rssi \in Int
  BY NamedFacts
<1>1. \A n \in 1..N : \A a \in A : More(a, n) \in A
  BY <1>0
<1>2. Sum(list, places) = up[N]
  BY DEF Sum
<1> HIDE DEF More, A, zero, N
<1>3. \A n \in 1..N : \A a \in A : step[n][a] = More(a, n)
  OBVIOUS
<1>4. \E f : Goes(f)
  <2> HIDE DEF step
  <2>1. Closed(step, N, A)
    BY <1>1, <1>3 DEF Closed
  <2>2. PICK f : Solves(f, N, A, zero, step)
    BY <1>0, <2>1, Recursion
  <2>3. \A n \in 1..N : f[n] = More(f[n - 1], n)
    <3> TAKE n \in 1..N
    <3>1. f[n - 1] \in A
      BY <1>0, <2>2 DEF Solves
    <3> QED BY <1>3, <2>2, <3>1 DEF Solves
  <2>4. \A n \in 0..N : f[n] = IF n = 0 THEN zero ELSE More(f[n - 1], n)
    BY <1>0, <2>2, <2>3 DEF Solves
  <2> QED BY <2>2, <2>4 DEF Solves
<1>5. Goes(up)
  BY <1>4
<1> HIDE DEF up
<1>6. up[0] = zero /\ \A n \in 1..N : up[n] = More(up[n - 1], n)
  BY <1>0, <1>5
<1>7. up = [n \in 0..N |-> up[n]]
  BY <1>5
<1> HIDE DEF Goes, step
<1>8. \A n \in 0..N : up[n] \in A
  <2>1. \A n \in 1..N : up[n - 1] \in A => up[n] \in A
    BY <1>1, <1>6
  <2> QED BY <1>0, <1>6, <2>1, Along
<1>9. up \in [0..N -> A]
  BY <1>7, <1>8
<1> QED BY <1>2, <1>6, <1>9 DEF More, N, A, zero

\* So is the tally of a channel.
LEMMA TallyRuns ==
    ASSUME NEW list \in Seq(Named), NEW band, NEW ch
    PROVE  \E st :
              /\ st[0] = [count |-> 0, avg |-> 0] /\ tally(list, band, ch) = st[Len(list)]
              /\ \A n \in 1..Len(list) :
                   st[n] = IF n \in onChannel(list, band, ch) THEN Counted(st[n - 1], list[n]) ELSE st[n - 1]
<1> DEFINE N == Len(list)
           none == [count |-> 0, avg |-> 0]
           More(a, n) == IF n \in onChannel(list, band, ch) THEN Counted(a, list[n]) ELSE a
           Goes(f) == f = [n \in 0..N |-> IF n = 0 THEN none ELSE More(f[n - 1], n)]
           step == [n \in 1..N |-> [a \in Tallies |-> More(a, n)]]
           st == CHOOSE f : Goes(f)
<1>0. N \in Nat /\ none \in Tallies /\ \A n \in 1..N : list[n] \in Named
  BY DEF Tallies
<1>1. \A n \in 1..N : \A a \in Tallies : More(a, n) \in Tallies
  BY <1>0, CountedTypes
<1>2. tally(list, band, ch) = st[N]
  BY DEF tally
<1> HIDE DEF More, none, N
<1>3. \A n \in 1..N : \A a \in Tallies : step[n][a] = More(a, n)
  OBVIOUS
<1>4. \E f : Goes(f)
  <2> HIDE DEF step
  <2>1. Closed(step, N, Tallies)
    BY <1>1, <1>3 DEF Closed
  <2>2. PICK f : Solves(f, N, Tallies, none, step)
    BY <1>0, <2>1, Recursion
  <2>3. \A n \in 1..N : f[n] = More(f[n - 1], n)
    <3> TAKE n \in 1..N
    <3>1. f[n - 1] \in Tallies
      BY <1>0, <2>2 DEF Solves
    <3> QED BY <1>3, <2>2, <3>1 DEF Solves
  <2>4. \A n \in 0..N : f[n] = IF n = 0 THEN none ELSE More(f[n - 1], n)
    BY <1>0, <2>2, <2>3 DEF Solves
  <2> QED BY <2>2, <2>4 DEF Solves
<1>5. Goes(st)
  BY <1>4
<1> HIDE DEF st
<1>6. st[0] = none /\ \A n \in 1..N : st[n] = More(st[n - 1], n)
  BY <1>0, <1>5
<1> QED BY <1>2, <1>6 DEF More, N, none

\* What the count and the mean of a channel are.
LEMMA TallyFacts ==
    ASSUME NEW list \in Seq(Named), NEW band, NEW ch
    PROVE  LET on == onChannel(list, band, ch)
               st == tally(list, band, ch)
           IN  st \in Tallies /\ st.count = Cardinality(on) /\ Near(st, Sum(list, on))
<1> DEFINE N == Len(list)
           on == onChannel(list, band, ch)
           Before(n) == {i \in on : i <= n}
<1>1. PICK st : /\ st[0] = [count |-> 0, avg |-> 0] /\ tally(list, band, ch) = st[N]
                /\ \A n \in 1..N : st[n] = IF n \in on THEN Counted(st[n - 1], list[n]) ELSE st[n - 1]
  BY TallyRuns
<1>2. PICK up \in [0..N -> Int] :
         /\ up[0] = 0 /\ Sum(list, on) = up[N]
         /\ \A n \in 1..N : up[n] = up[n - 1] + (IF n \in on THEN list[n].rssi ELSE 0)
  BY SumRuns
<1>3. N \in Nat /\ on \subseteq 1..N /\ \A n \in 1..N : list[n] \in Named /\ list[n].rssi \in Int
  BY NamedFacts DEF onChannel
<1>4. \A n \in 0..N : IsFiniteSet(Before(n))
  <2>1. IsFiniteSet(1..N)
    BY <1>3, FS_Interval
  <2> QED BY <1>3, <2>1, FS_Subset
<1>3a. \A i \in on : i \in Int /\ 1 <= i /\ i <= N
  BY <1>3
<1>3b. Before(0) = {} /\ Before(N) = on
  BY <1>3a
<1>3c. \A n \in 0..(N - 1) :
         /\ n + 1 \in on => Before(n + 1) = Before(n) \cup {n + 1} /\ n + 1 \notin Before(n)
         /\ n + 1 \notin on => Before(n + 1) = Before(n)
  <2> HIDE DEF on
  <2> TAKE n \in 0..(N - 1)
  <2>1. \A i \in on : i <= n + 1 <=> i <= n \/ i = n + 1
    BY <1>3a
  <2>2. ~(n + 1 <= n)
    OBVIOUS
  <2> HIDE DEF N
  <2> QED BY <2>1, <2>2
<1> HIDE DEF on, N
<1> DEFINE Right(n) == st[n] \in Tallies /\ st[n].count = Cardinality(Before(n)) /\ Near(st[n], up[n])
           S == {n \in 0..N : Right(n)}
<1>5. 0 \in S
  <2>1. Before(0) = {}
    BY <1>3b
  <2>2. st[0] \in Tallies /\ st[0].count = 0 /\ st[0].avg = 0
    BY <1>1 DEF Tallies
  <2>3. Near(st[0], up[0])
    BY <1>2, <2>2 DEF Near
  <2>4. Cardinality(Before(0)) = 0
    BY <2>1, FS_EmptySet
  <2> HIDE DEF Before
  <2> QED BY <1>3, <2>2, <2>3, <2>4
<1>6. ASSUME NEW n \in 0..(N - 1), n \in S PROVE n + 1 \in S
  <2>0. n \in 0..N /\ n + 1 \in 1..N /\ (n + 1) - 1 = n /\ n + 1 \in 0..N /\ up[n] \in Int /\ Right(n)
    BY <1>3, <1>6
  <2>1. /\ st[n + 1] = IF n + 1 \in on THEN Counted(st[n], list[n + 1]) ELSE st[n]
        /\ up[n + 1] = up[n] + (IF n + 1 \in on THEN list[n + 1].rssi ELSE 0)
    BY <1>1, <1>2, <2>0
  <2>2. CASE n + 1 \in on
    <3>1. Before(n + 1) = Before(n) \cup {n + 1} /\ n + 1 \notin Before(n)
      <4> HIDE DEF Before
      <4> QED BY <1>3c, <1>6, <2>2
    <3>2. Cardinality(Before(n + 1)) = Cardinality(Before(n)) + 1
      <4> HIDE DEF Before
      <4> QED BY <1>4, <2>0, <3>1, FS_AddElement
    <3>3. /\ st[n + 1] \in Tallies /\ st[n + 1].count = st[n].count + 1
          /\ Near(st[n + 1], up[n] + list[n + 1].rssi)
      <4>1. list[n + 1] \in Named
        BY <1>3, <2>0
      <4> HIDE DEF Before
      <4> QED BY <2>0, <2>1, <2>2, <4>1, CountedFacts
    <3> HIDE DEF Before
    <3> QED BY <2>0, <2>1, <2>2, <3>2, <3>3
  <2>3. CASE n + 1 \notin on
    <3>1. Before(n + 1) = Before(n)
      BY <1>3c, <2>3
    <3>2. st[n + 1] = st[n] /\ up[n + 1] = up[n]
      BY <2>0, <2>1, <2>3
    <3> HIDE DEF Before
    <3> QED BY <2>0, <3>1, <3>2
  <2> QED BY <2>2, <2>3
<1>7. N \in S
  <2>1. N \in 0..N
    BY <1>3
  <2> HIDE DEF S
  <2> QED BY <1>3, <1>5, <1>6, <2>1, Induct
<1>8. Before(N) = on
  BY <1>3b
<1> HIDE DEF Before
<1> QED BY <1>1, <1>2, <1>7, <1>8 DEF on

-----------------------------------------------------------------------------
(* What is true of every scan and report.                                  *)

\* A report is of the scan that was read, of the radio's link at that moment.
Reported(list, rep) ==
    \E cur \in Links : rep = [aps |-> dedupAPs(list), cur |-> cur,
                              bands |-> aggregateBands(dedupAPs(list))]

ReportInv ==
    /\ tool \in {"iw", "nmcli"}
    /\ aps \in Seq(Named) /\ Len(aps) <= MaxHeard
    /\ set \in Settings
    /\ report # << >> => Reported(aps, report)

LEMMA ReportInvInit == Init => ReportInv
<1> SUFFICES ASSUME Init PROVE ReportInv
  OBVIOUS
<1>1. << >> \in Seq(Named) /\ Len(<< >>) = 0 /\ 0 <= MaxHeard
  BY HeardAssumption
<1> QED BY <1>1 DEF Init, ReportInv

LEMMA ReportInvStep == ReportInv /\ [Next]_vars => ReportInv'
<1> SUFFICES ASSUME ReportInv, [Next]_vars PROVE ReportInv'
  OBVIOUS
<1> USE DEF ReportInv
<1>0. ASSUME NEW ap \in Named, Len(aps) < MaxHeard
      PROVE  Append(aps, ap) \in Seq(Named) /\ Len(Append(aps, ap)) <= MaxHeard
  BY <1>0, HeardAssumption
<1>1. ASSUME NEW b \in Blocks, IwBlock(b) PROVE ReportInv'
  <2>1. aps' \in Seq(Named) /\ Len(aps') <= MaxHeard
    <3>1. CASE b.ssid = NoSsid
      BY <1>1, <3>1 DEF IwBlock
    <3>2. CASE b.ssid # NoSsid
      <4>1. compute(b) \in Named
        BY <3>2 DEF Named
      <4> QED BY <1>0, <1>1, <3>2, <4>1 DEF IwBlock
    <3> QED BY <3>1, <3>2
  <2> QED BY <1>1, <2>1 DEF IwBlock
<1>2. CASE IwFails
  BY <1>2 DEF IwFails
<1>3. ASSUME NEW l \in Lines, NmcliLine(l) PROVE ReportInv'
  <2>1. aps' \in Seq(Named) /\ Len(aps') <= MaxHeard
    <3>1. CASE l.ssid = NoSsid
      BY <1>3, <3>1 DEF NmcliLine
    <3>2. CASE l.ssid # NoSsid
      <4>1. parseNmcliLine(l) \in Named
        BY <3>2 DEF Named
      <4> QED BY <1>0, <1>3, <3>2, <4>1 DEF NmcliLine
    <3> QED BY <3>1, <3>2
  <2> QED BY <1>3, <2>1 DEF NmcliLine
<1>4. ASSUME NEW cur \in Links, Assess(cur) PROVE ReportInv'
  BY <1>4 DEF Assess, Reported
<1>5. CASE ScanAgain
  <2>1. << >> \in Seq(Named) /\ Len(<< >>) = 0 /\ 0 <= MaxHeard
    BY HeardAssumption
  <2> QED BY <1>5, <2>1 DEF ScanAgain
<1>6. CASE UNCHANGED vars
  BY <1>6 DEF vars
<1> QED BY <1>1, <1>2, <1>3, <1>4, <1>5, <1>6 DEF Next

LEMMA ReportInvHolds == Spec => []ReportInv
<1> QED BY ReportInvInit, ReportInvStep, PTL DEF Spec

-----------------------------------------------------------------------------
(* Of each network, the strongest reading.                                 *)

LEMMA HeardFacts ==
    ASSUME NEW list \in Seq(Named)
    PROVE  LET heard == bySSID(list) IN
           /\ \A i \in DOMAIN list : list[i].ssid \in DOMAIN heard /\ list[i].rssi <= heard[list[i].ssid]
           /\ \A s \in DOMAIN heard : heard[s] \in Int /\ \E i \in DOMAIN list : heard[s] = list[i].rssi
<1> DEFINE heard == bySSID(list)
           At(s) == {j \in DOMAIN list : list[j].ssid = s}
           Rssi(P) == {list[i].rssi : i \in P}
<1>1. \A i \in DOMAIN list : list[i].ssid # NoSsid /\ list[i].rssi \in Int
  <2>1. \A i \in DOMAIN list : list[i] \in Named
    OBVIOUS
  <2> QED BY <2>1, NamedFacts
<1>2. heard = [s \in {list[i].ssid : i \in DOMAIN list} |-> Max(Rssi(At(s)))]
  <2>1. {i \in DOMAIN list : list[i].ssid # NoSsid} = DOMAIN list
    BY <1>1
  <2> QED BY <2>1 DEF bySSID
<1>3. ASSUME NEW s, At(s) # {}
      PROVE  Max(Rssi(At(s))) \in Rssi(At(s)) /\ \A r \in Rssi(At(s)) : r <= Max(Rssi(At(s)))
  <2> DEFINE f == [i \in DOMAIN list |-> list[i].rssi]
  <2>1. f \in [DOMAIN list -> Int] /\ At(s) \in SUBSET DOMAIN list
    BY <1>1
  <2>2. IsFiniteSet({f[i] : i \in At(s)})
    <3> HIDE DEF f, At
    <3> QED BY <2>1, FinitelyMany
  <2>3. {f[i] : i \in At(s)} = Rssi(At(s))
    BY <2>1
  <2>4. Rssi(At(s)) \subseteq Int /\ Rssi(At(s)) # {}
    BY <1>1, <1>3
  <2> HIDE DEF Rssi, At, f
  <2> QED BY <2>2, <2>3, <2>4, MaxFacts
<1>4. ASSUME NEW i \in DOMAIN list
      PROVE  list[i].ssid \in DOMAIN heard /\ list[i].rssi <= heard[list[i].ssid]
  <2>1. i \in At(list[i].ssid) /\ list[i].rssi \in Rssi(At(list[i].ssid))
    OBVIOUS
  <2>2. list[i].ssid \in DOMAIN heard /\ heard[list[i].ssid] = Max(Rssi(At(list[i].ssid)))
    BY <1>2
  <2> HIDE DEF Rssi, At, heard
  <2> QED BY <1>3, <2>1, <2>2
<1>5. ASSUME NEW s \in DOMAIN heard
      PROVE  heard[s] \in Int /\ \E i \in DOMAIN list : heard[s] = list[i].rssi
  <2>1. At(s) # {} /\ heard[s] = Max(Rssi(At(s)))
    BY <1>2
  <2>2. heard[s] \in Rssi(At(s))
    <3> HIDE DEF Rssi, At, heard
    <3> QED BY <1>3, <2>1
  <2> HIDE DEF heard
  <2> QED BY <1>1, <2>2
<1> QED BY <1>4, <1>5

LEMMA LinkFacts == \A cur \in Links : cur.rssi \in Int
<1>1. ASSUME NEW l \in IwLinks PROVE parseIwLink(l).rssi \in Int
  BY HeardAssumption DEF parseIwLink, NoLink, Floor
<1>2. ASSUME NEW l \in NmcliLinks PROVE parseNmcliLink(l).rssi \in Int
  BY HeardAssumption DEF parseNmcliLink, NoLink, Floor
<1> QED BY <1>1, <1>2 DEF Links

-----------------------------------------------------------------------------
(* The results.                                                            *)

LEMMA TypesFollow == ReportInv => TypeOK
<1> SUFFICES ASSUME ReportInv PROVE TypeOK
  OBVIOUS
<1>1. \A i \in DOMAIN aps : aps[i] \in Named
  BY DEF ReportInv
<1>2. report # << >> => report.cur \in Links
  BY DEF ReportInv, Reported
<1> QED BY <1>1, <1>2, NamedFacts DEF ReportInv, TypeOK, Bands

(***************************************************************************)
(* What is read of a scan is of named networks, in dBm that the engine may *)
(* compare, and a report is of a link the tools may show.                  *)
(***************************************************************************)
THEOREM TypeCorrect == Spec => []TypeOK
<1> QED BY ReportInvHolds, TypesFollow, PTL

\* A network fits if the operator is advised to go there: the two conditions
\* are written differently in engineTick and recommend.
LEMMA FollowFromInv == ReportInv => EngineFollowsAdvice
<1> SUFFICES ASSUME ReportInv, Done
             PROVE  /\ Picked \subseteq Advised
                    /\ (report.cur # NoLink /\ report.cur.rssi <= set.threshold /\ Picked = {})
                         => Advised = {}
  BY DEF EngineFollowsAdvice
<1> DEFINE list == report.aps
           heard == bySSID(list)
           cur == report.cur
           Good(s) == heard[s] >= set.threshold /\ heard[s] > cur.rssi + set.margin
           Bad(s) == heard[s] < set.threshold \/ heard[s] <= cur.rssi + set.margin
           Fits == {s \in set.whitelist \cap DOMAIN heard : s # cur.ssid /\ ~Bad(s)}
<1>1. list \in Seq(Named) /\ cur \in Links /\ set \in Settings
  BY DedupCovers DEF ReportInv, Reported, Done
<1>2. cur.rssi \in Int /\ set.threshold \in Int /\ set.margin \in Int
  BY <1>1, LinkFacts, HeardAssumption
<1>3. \A s \in DOMAIN heard : heard[s] \in Int /\ \E i \in DOMAIN list : heard[s] = list[i].rssi
  BY <1>1, HeardFacts
<1>4. /\ Advised = {s \in set.whitelist \cap DOMAIN heard : s # cur.ssid /\ Good(s)}
      /\ Picked = IF cur = NoLink \/ cur.rssi > set.threshold THEN {}
                  ELSE {s \in Fits : \A t \in Fits : heard[t] <= heard[s]}
  BY DEF Advised, Picked, recommendedSsids, pick
<1> HIDE DEF heard, cur
<1>5. \A s \in DOMAIN heard : Good(s) <=> ~Bad(s)
  BY <1>2, <1>3
<1> HIDE DEF Good, Bad
<1>6. Advised = Fits
  BY <1>4, <1>5
<1>7. Picked \subseteq Fits
  BY <1>4
<1>8. Fits # {} => \E s \in Fits : \A t \in Fits : heard[t] <= heard[s]
  <2> SUFFICES ASSUME Fits # {} PROVE \E s \in Fits : \A t \in Fits : heard[t] <= heard[s]
    OBVIOUS
  <2> DEFINE Levels == {heard[s] : s \in Fits}
             f == [i \in DOMAIN list |-> list[i].rssi]
             All == {f[i] : i \in DOMAIN list}
  <2>1. Levels \subseteq Int /\ Levels # {} /\ Levels \subseteq All
    BY <1>3
  <2>2. IsFiniteSet(All)
    <3>1. \A i \in DOMAIN list : list[i] \in Named
      BY <1>1
    <3>2. f \in [DOMAIN list -> Int]
      BY <3>1, NamedFacts
    <3> HIDE DEF f, list
    <3> QED BY <1>1, <3>2, FinitelyMany
  <2>3. IsFiniteSet(Levels)
    <3> HIDE DEF Levels, All
    <3> QED BY <2>1, <2>2, FS_Subset
  <2>4. PICK x \in Levels : \A y \in Levels : y <= x
    <3> HIDE DEF Levels
    <3> QED BY <2>1, <2>3, Greatest
  <2> QED BY <2>4
<1> HIDE DEF Fits
<1> QED BY <1>2, <1>4, <1>6, <1>7, <1>8 DEF cur

LEMMA StrongestFromInv == ReportInv => PickIsStrongest
<1> SUFFICES ASSUME ReportInv, Done, NEW s \in Picked, NEW i \in DOMAIN aps,
                    aps[i].ssid \in set.whitelist \ {report.cur.ssid}
             PROVE  aps[i].rssi <= bySSID(report.aps)[s]
  BY DEF PickIsStrongest
<1> DEFINE list == report.aps
           heard == bySSID(list)
           cur == report.cur
           t == aps[i].ssid
           Bad(x) == heard[x] < set.threshold \/ heard[x] <= cur.rssi + set.margin
           Fits == {x \in set.whitelist \cap DOMAIN heard : x # cur.ssid /\ ~Bad(x)}
<1>1. list \in Seq(Named) /\ list = dedupAPs(aps) /\ cur \in Links /\ set \in Settings /\ aps \in Seq(Named)
  BY DedupCovers DEF ReportInv, Reported, Done
<1>2. cur.rssi \in Int /\ set.threshold \in Int /\ set.margin \in Int
  BY <1>1, LinkFacts, HeardAssumption
<1>3. /\ \A x \in DOMAIN heard : heard[x] \in Int
      /\ \A k \in DOMAIN list : list[k].ssid \in DOMAIN heard /\ list[k].rssi <= heard[list[k].ssid]
  BY <1>1, HeardFacts
<1>4. PICK k \in 1..Len(list) : list[k].ssid = t /\ aps[i].rssi <= list[k].rssi
  <2>1. i \in 1..Len(aps)
    BY <1>1
  <2> QED BY <1>1, <2>1, DedupCovers DEF Covers
<1>5. k \in DOMAIN list /\ list[k] \in Named /\ aps[i] \in Named
  BY <1>1
<1>6. aps[i].rssi \in Int /\ list[k].rssi \in Int
  BY <1>5, NamedFacts
<1>7. t \in DOMAIN heard /\ heard[t] \in Int /\ aps[i].rssi <= heard[t]
  BY <1>3, <1>4, <1>5, <1>6
<1>8. s \in {x \in Fits : \A y \in Fits : heard[y] <= heard[x]}
  BY DEF Picked, pick
<1>9. t \in set.whitelist \cap DOMAIN heard /\ t # cur.ssid
  BY <1>7
<1> HIDE DEF heard, cur, t
<1>10. s \in DOMAIN heard /\ heard[s] \in Int /\ ~Bad(s)
  BY <1>3, <1>8
<1>11. t \in Fits \/ Bad(t)
  BY <1>9
<1>12. CASE t \in Fits
  BY <1>6, <1>7, <1>8, <1>10, <1>12 DEF heard
<1>13. CASE Bad(t)
  BY <1>2, <1>6, <1>7, <1>10, <1>13 DEF heard
<1> QED BY <1>11, <1>12, <1>13

LEMMA NoWorseFromInv == AdviceIsNoWorse
<1> SUFFICES ASSUME Done, NEW ch \in recommendedChannels(report.bands, report.cur)
             PROVE  /\ ch # report.cur.channel
                    /\ report.bands[report.cur.band][ch].score
                         >= report.bands[report.cur.band][report.cur.channel].score
  BY DEF AdviceIsNoWorse
<1> DEFINE stats == report.bands[report.cur.band]
<1>1. report.cur.channel \in DOMAIN stats /\ ch \in bestChannels(stats) \ {report.cur.channel}
  BY DEF recommendedChannels
<1>2. stats[report.cur.channel].score <= stats[ch].score
  BY <1>1 DEF bestChannels
<1> QED BY <1>1, <1>2

(***************************************************************************)
(* AdviceIsSound, for any scan, link and settings: what the engine picks   *)
(* the operator is advised to choose, it picks something if anything is    *)
(* advised, nothing listed was heard stronger, and a channel advised is no *)
(* worse than the current one.                                             *)
(***************************************************************************)
THEOREM AdviceHolds == Spec => []AdviceIsSound
<1>1. ReportInv => AdviceIsSound
  BY FollowFromInv, StrongestFromInv, NoWorseFromInv DEF AdviceIsSound
<1> QED BY <1>1, ReportInvHolds, PTL

LEMMA BandFacts ==
    ASSUME NEW list \in Seq(Named)
    PROVE  LET bands == aggregateBands(list) IN
           /\ \A i \in DOMAIN list :
                list[i].band # NoBand => /\ list[i].band \in DOMAIN bands
                                         /\ list[i].channel \in DOMAIN bands[list[i].band]
           /\ \A b \in DOMAIN bands : \A ch \in DOMAIN bands[b] :
                bands[b][ch] = channelStat(list, b, ch)
<1> DEFINE heard == {list[i] : i \in {i \in DOMAIN list : list[i].band # NoBand}}
           In(b) == {ap.channel : ap \in {a \in heard : a.band = b}}
           bands == aggregateBands(list)
<1>1. bands = [b \in {ap.band : ap \in heard} |-> [ch \in In(b) |-> channelStat(list, b, ch)]]
  BY DEF aggregateBands
<1>2. ASSUME NEW i \in DOMAIN list, list[i].band # NoBand
      PROVE  list[i].band \in {ap.band : ap \in heard} /\ list[i].channel \in In(list[i].band)
  <2>1. list[i] \in heard
    BY <1>2
  <2> HIDE DEF heard
  <2> QED BY <2>1
<1> HIDE DEF In, heard, bands
<1>3. \A b \in DOMAIN bands : bands[b] = [ch \in In(b) |-> channelStat(list, b, ch)]
  BY <1>1
<1>4. \A b \in DOMAIN bands : \A ch \in DOMAIN bands[b] : bands[b][ch] = channelStat(list, b, ch)
  BY <1>3
<1> QED BY <1>1, <1>2, <1>3, <1>4 DEF bands

LEMMA StatFacts ==
    ASSUME NEW list \in Seq(Named), NEW b, NEW ch
    PROVE  LET st == channelStat(list, b, ch)
               mine == onChannel(list, b, ch)
           IN  /\ st.count = Cardinality(mine)
               /\ st.count * st.avg - Sum(list, mine) \in 0..((st.count * (st.count - 1)) \div 2)
<1> DEFINE t == tally(list, b, ch)
           st == channelStat(list, b, ch)
<1>1. st.count = t.count /\ st.avg = t.avg
  BY DEF channelStat
<1>2. t.count = Cardinality(onChannel(list, b, ch)) /\ Near(t, Sum(list, onChannel(list, b, ch)))
  BY TallyFacts
<1> HIDE DEF st, t
<1> QED BY <1>1, <1>2 DEF Near, st

LEMMA StatsFromInv == ReportInv => StatsAddUp
<1> SUFFICES ASSUME ReportInv, Done PROVE StatsAddUp
  BY DEF StatsAddUp
<1> DEFINE list == report.aps
           bands == report.bands
<1>1. list \in Seq(Named) /\ bands = aggregateBands(list)
  BY DedupCovers DEF ReportInv, Reported, Done
<1>2. ASSUME NEW i \in DOMAIN list, list[i].band # NoBand
      PROVE  bands[list[i].band][list[i].channel].count > 0
  <2> DEFINE b == list[i].band  ch == list[i].channel  mine == onChannel(list, b, ch)
  <2>1. bands[b][ch] = channelStat(list, b, ch)
    BY <1>1, <1>2, BandFacts
  <2>2. bands[b][ch].count = Cardinality(mine)
    BY <1>1, <2>1, StatFacts
  <2>3. mine \subseteq 1..Len(list) /\ i \in mine /\ Len(list) \in Nat
    BY <1>1 DEF onChannel
  <2> HIDE DEF mine
  <2>4. IsFiniteSet(mine)
    <3>1. IsFiniteSet(1..Len(list))
      BY <2>3, FS_Interval
    <3> QED BY <2>3, <3>1, FS_Subset
  <2>5. Cardinality(mine) \in Nat /\ Cardinality(mine) # 0
    BY <2>3, <2>4, FS_CardinalityType, FS_EmptySet
  <2> QED BY <2>2, <2>5
<1>3. ASSUME NEW b \in DOMAIN bands, NEW ch \in DOMAIN bands[b]
      PROVE  LET st == bands[b][ch]
                 mine == {i \in DOMAIN list : list[i].band = b /\ list[i].channel = ch}
             IN  /\ st.count = Cardinality(mine)
                 /\ st.count * st.avg - Sum(list, mine) \in 0..((st.count * (st.count - 1)) \div 2)
  <2>1. bands[b][ch] = channelStat(list, b, ch)
    BY <1>1, BandFacts
  <2>2. {i \in DOMAIN list : list[i].band = b /\ list[i].channel = ch} = onChannel(list, b, ch)
    BY DEF onChannel
  <2>3. LET st == channelStat(list, b, ch)
            mine == onChannel(list, b, ch)
        IN  /\ st.count = Cardinality(mine)
            /\ st.count * st.avg - Sum(list, mine) \in 0..((st.count * (st.count - 1)) \div 2)
    BY <1>1, StatFacts
  <2> HIDE DEF list, bands
  <2> QED BY <2>1, <2>2, <2>3
<1> QED BY <1>2, <1>3 DEF StatsAddUp

(***************************************************************************)
(* StatsAddUp, for any scan: no access point of a known band is lost or    *)
(* counted twice, and the rounding of the running mean stays bounded.      *)
(***************************************************************************)
THEOREM StatsHold == Spec => []StatsAddUp
<1> QED BY ReportInvHolds, StatsFromInv, PTL

=============================================================================
