----------------------------- MODULE RelayProofs -----------------------------
(***************************************************************************)
(* Proofs about RelayRoom, for any pages, numbers of commands, connections *)
(* and hibernations, and any number of rows a flush reads.                 *)
(***************************************************************************)
EXTENDS RelayRoom, FiniteSetTheorems, SequenceTheorems, TLAPS

-----------------------------------------------------------------------------
(* The inductive invariant, in parts.                                       *)

\* The list holds the sockets that are open or closing, once each, and only
\* the last connection is open.
SocketInv ==
    /\ \A i \in DOMAIN listed : listed[i] <= dials /\ sock[listed[i]] \in {"open", "closing"}
    /\ \A i, j \in DOMAIN listed : listed[i] = listed[j] => i = j
    /\ \A c \in Conns : sock[c] \in {"open", "closing"} => Listed(c)
    /\ \A c \in Conns : sock[c] = "open" => c = dials

\* The flag in memory is never set without the alarm, and while an agent is
\* connected its last ping is not old.
AlarmInv ==
    /\ armed => alarm
    /\ link # 0 /\ Live(link) => lastPing # "old"

\* A row is kept under the seq of its command.
TableInv ==
    \A s \in Seqs : offline[s] # NoCommand => offline[s] \in Command /\ offline[s].seq = s

\* Whatever is kept, travels or has run was sent by its page.
SentInv ==
    /\ \A s \in Rows : s <= seq[offline[s].page]
    /\ \A c \in Conns : \A i \in DOMAIN down[c] : down[c][i].seq <= seq[down[c][i].page]
    /\ \A i \in DOMAIN ran : ran[i].seq <= seq[ran[i].page]

\* A command is in one place: in the table, on one connection, or run; only
\* one that a flush could not delete may be in several.
PlaceInv ==
    /\ \A c, d \in Conns : \A i \in DOMAIN down[c], j \in DOMAIN down[d] :
           down[c][i] = down[d][j] => (c = d /\ i = j) \/ down[c][i] \in kept
    /\ \A c \in Conns : \A i \in DOMAIN down[c], j \in DOMAIN ran :
           down[c][i] = ran[j] => ran[j] \in kept
    /\ \A s \in Rows : \A c \in Conns : \A i \in DOMAIN down[c] :
           offline[s] = down[c][i] => offline[s] \in kept
    /\ \A s \in Rows : \A i \in DOMAIN ran : offline[s] = ran[i] => offline[s] \in kept
    /\ OncePerCommand

IInv ==
    /\ TypeOK
    /\ SocketInv
    /\ AlarmInv
    /\ Watched
    /\ TableInv
    /\ SentInv
    /\ PlaceInv

-----------------------------------------------------------------------------
(* What a flush sends: the rows by rank, each once.                         *)

LEMMA SeqsFinite == Seqs \subseteq Nat \ {0} /\ IsFiniteSet(Seqs)
<1>1. Seqs \subseteq Nat \ {0}
  BY BoundsAssumption DEF Seqs
<1> DEFINE spans == {1..MaxSeq[p] : p \in Pages}
           span == [p \in Pages |-> 1..MaxSeq[p]]
<1>2. span \in Surjection(Pages, spans)
  BY DEF Surjection
<1>3. IsFiniteSet(spans)
  BY <1>2, FS_Surjection, BoundsAssumption  DEF BoundsAssumption
<1>4. \A S \in spans : IsFiniteSet(S)
  BY FS_Interval, BoundsAssumption
<1> QED BY <1>1, <1>3, <1>4, FS_UNION DEF Seqs

\* The rank is a numbering of a finite set of numbers.
LEMMA RankNumbers ==
    ASSUME NEW S \in SUBSET Nat, IsFiniteSet(S)
    PROVE  /\ Cardinality(S) \in Nat
           /\ \A s \in S : Rank(s, S) \in 1..Cardinality(S)
           /\ \A s, t \in S : Rank(s, S) = Rank(t, S) => s = t
           /\ \A i \in 1..Cardinality(S) : \E s \in S : Rank(s, S) = i
<1> DEFINE n == Cardinality(S)
           upTo(s) == {t \in S : t <= s}
           rank == [s \in S |-> Rank(s, S)]
<1>1. n \in Nat
  BY FS_CardinalityType
<1>2. ASSUME NEW s \in S
      PROVE  IsFiniteSet(upTo(s)) /\ Rank(s, S) \in 1..n
  <2>1. upTo(s) \in SUBSET S /\ s \in upTo(s)
    OBVIOUS
  <2>2. IsFiniteSet(upTo(s)) /\ Cardinality(upTo(s)) <= n
    BY <2>1, FS_Subset
  <2>3. Cardinality(upTo(s)) \in Nat /\ Cardinality(upTo(s)) # 0
    BY <2>1, <2>2, FS_CardinalityType, FS_EmptySet
  <2> QED BY <1>1, <2>2, <2>3 DEF Rank
<1>3. ASSUME NEW s \in S, NEW t \in S, s < t
      PROVE  Rank(s, S) # Rank(t, S)
  <2>1. s \in Nat /\ t \in Nat /\ \A u \in S : u \in Nat
    OBVIOUS
  <2>2. ASSUME NEW u \in upTo(s)
        PROVE  u \in upTo(t)
    BY <1>3, <2>1
  <2>3. t \notin upTo(s) /\ t \in upTo(t)
    BY <1>3, <2>1
  <2>4. Cardinality(upTo(s)) # Cardinality(upTo(t))
    BY <1>2, <2>2, <2>3, FS_Subset
  <2> QED BY <2>4 DEF Rank
<1>4. \A s, t \in S : Rank(s, S) = Rank(t, S) => s = t
  <2> SUFFICES ASSUME NEW s \in S, NEW t \in S, s # t
               PROVE  Rank(s, S) # Rank(t, S)
    OBVIOUS
  <2>1. s < t \/ t < s
    OBVIOUS
  <2> QED BY <1>3, <2>1
<1>5. rank \in Injection(S, 1..n)
  BY <1>2, <1>4 DEF Injection, IsInjective
<1>6. IsFiniteSet(1..n) /\ Cardinality(1..n) = n
  BY <1>1, FS_Interval
<1>7. rank \in Surjection(S, 1..n)
  BY <1>5, <1>6, FS_Injection
<1>8. \A i \in 1..n : \E s \in S : Rank(s, S) = i
  BY <1>7 DEF Surjection
<1> QED BY <1>1, <1>2, <1>4, <1>8

\* A function on 1..n is a sequence.
LEMMA IsSequence ==
    ASSUME NEW S, NEW n \in Nat, NEW f \in [1..n -> S]
    PROVE  f \in Seq(S) /\ Len(f) = n
  OBVIOUS

\* FlushedFrames are the commands of the flushed rows, each once.
LEMMA FlushedAreRows ==
    ASSUME TypeOK, TableInv
    PROVE  /\ FlushedFrames \in Seq(Command)
           /\ DOMAIN FlushedFrames = 1..Cardinality(Flushed) /\ Cardinality(Flushed) \in Nat
           /\ \A i \in DOMAIN FlushedFrames :
                 \E s \in Flushed : FlushedFrames[i] = offline[s] /\ Rank(s, Flushed) = i
           /\ \A s \in Flushed :
                 Rank(s, Flushed) \in DOMAIN FlushedFrames /\ FlushedFrames[Rank(s, Flushed)] = offline[s]
           /\ \A i, j \in DOMAIN FlushedFrames : FlushedFrames[i] = FlushedFrames[j] => i = j
<1> DEFINE n == Cardinality(Flushed)
           row(i) == CHOOSE s \in Flushed : Rank(s, Flushed) = i
<1>1. Flushed \in SUBSET Seqs /\ Flushed \in SUBSET Nat /\ IsFiniteSet(Flushed)
  <2>1. Flushed \in SUBSET Seqs
    BY DEF Flushed, Rows
  <2> QED BY <2>1, SeqsFinite, FS_Subset
<1>2. /\ n \in Nat
      /\ \A s \in Flushed : Rank(s, Flushed) \in 1..n
      /\ \A s, t \in Flushed : Rank(s, Flushed) = Rank(t, Flushed) => s = t
      /\ \A i \in 1..n : \E s \in Flushed : Rank(s, Flushed) = i
  BY <1>1, RankNumbers
<1>3. \A i \in 1..n : row(i) \in Flushed /\ Rank(row(i), Flushed) = i
  BY <1>2
<1>4. \A s \in Flushed : offline[s] \in Command /\ offline[s].seq = s
  BY DEF Flushed, Rows, TableInv
<1>5. FlushedFrames = [i \in 1..n |-> offline[row(i)]]
  BY DEF FlushedFrames
<1>6. \A i \in 1..n : offline[row(i)] \in Command
  BY <1>3, <1>4
<1>7. DOMAIN FlushedFrames = 1..n /\ \A i \in 1..n : FlushedFrames[i] = offline[row(i)]
  BY <1>5
<1>8. FlushedFrames \in Seq(Command)
  <2> HIDE DEF n, row
  <2>1. [i \in 1..n |-> offline[row(i)]] \in [1..n -> Command]
    BY <1>6
  <2>2. FlushedFrames \in [1..n -> Command]
    BY <1>5, <2>1
  <2> QED BY <1>2, <2>2, IsSequence
<1>9. \A s \in Flushed : row(Rank(s, Flushed)) = s
  BY <1>2, <1>3
<1>10. \A i, j \in 1..n : offline[row(i)] = offline[row(j)] => i = j
  BY <1>3, <1>4
<1>11. \A s \in Flushed : Rank(s, Flushed) \in 1..n /\ offline[row(Rank(s, Flushed))] = offline[s]
  BY <1>2, <1>9
<1>15. DOMAIN FlushedFrames = 1..Cardinality(Flushed) /\ Cardinality(Flushed) \in Nat
  BY <1>2, <1>7
<1> HIDE DEF n, row
<1>12. \A i \in DOMAIN FlushedFrames :
          \E s \in Flushed : FlushedFrames[i] = offline[s] /\ Rank(s, Flushed) = i
  BY <1>3, <1>7
<1>13. \A s \in Flushed :
          Rank(s, Flushed) \in DOMAIN FlushedFrames /\ FlushedFrames[Rank(s, Flushed)] = offline[s]
  BY <1>7, <1>11
<1>14. \A i, j \in DOMAIN FlushedFrames : FlushedFrames[i] = FlushedFrames[j] => i = j
  BY <1>7, <1>10
<1> QED BY <1>8, <1>12, <1>13, <1>14, <1>15

\* The first frames of a flush.
LEMMA FirstFrames ==
    ASSUME NEW S, NEW s \in Seq(S), NEW n \in 0..Len(s)
    PROVE  /\ SubSeq(s, 1, n) \in Seq(S) /\ DOMAIN SubSeq(s, 1, n) = 1..n
           /\ \A i \in 1..n : i \in DOMAIN s /\ SubSeq(s, 1, n)[i] = s[i]
<1>1. n \in Nat /\ Len(s) \in Nat /\ n <= Len(s) /\ DOMAIN s = 1..Len(s)
  OBVIOUS
<1>2. SubSeq(s, 1, n) \in Seq(S) /\ Len(SubSeq(s, 1, n)) = n
  BY <1>1, SubSeqProperties
<1>3. \A i \in 1..n : SubSeq(s, 1, n)[i] = s[i]
  BY <1>1
<1>4. DOMAIN SubSeq(s, 1, n) = 1..n
  BY <1>2
<1> QED BY <1>1, <1>2, <1>3, <1>4

\* What a flush that ends after `done` rows, `sent` of them on the wire, has
\* put on the connection and has left in the table.
FlushFacts(frames, sent, done) ==
    /\ frames \in Seq(Command) /\ DOMAIN frames = 1..sent
    /\ \A i \in DOMAIN frames :
          i \in DOMAIN FlushedFrames /\ frames[i] = FlushedFrames[i]
    /\ \A i \in DOMAIN frames :
          \E s \in Flushed : frames[i] = offline[s] /\ Rank(s, Flushed) = i
    /\ \A s \in Deleted(done) : sent >= done => \E i \in DOMAIN frames : frames[i] = offline[s]
    /\ \A i, j \in DOMAIN frames : frames[i] = frames[j] => i = j
    /\ \A s \in Rows \ Deleted(done) : \A i \in DOMAIN frames :
          frames[i] = offline[s] => i \in (done + 1)..sent /\ frames[i] = FlushedFrames[i]
    /\ \A i \in (done + 1)..sent : FlushedFrames[i] \in Command

LEMMA FlushSends ==
    ASSUME TypeOK, TableInv, NEW sent \in 0..Cardinality(Flushed), NEW done \in 0..Cardinality(Flushed)
    PROVE  FlushFacts(SubSeq(FlushedFrames, 1, sent), sent, done)
<1> DEFINE frames == SubSeq(FlushedFrames, 1, sent)
           n == Cardinality(Flushed)
<1>1. /\ FlushedFrames \in Seq(Command) /\ DOMAIN FlushedFrames = 1..n /\ n \in Nat
      /\ \A i \in DOMAIN FlushedFrames :
            \E s \in Flushed : FlushedFrames[i] = offline[s] /\ Rank(s, Flushed) = i
      /\ \A s \in Flushed :
            Rank(s, Flushed) \in DOMAIN FlushedFrames /\ FlushedFrames[Rank(s, Flushed)] = offline[s]
      /\ \A i, j \in DOMAIN FlushedFrames : FlushedFrames[i] = FlushedFrames[j] => i = j
  BY FlushedAreRows
<1>2. sent \in 0..n /\ done \in 0..n
  OBVIOUS
<1> HIDE DEF n
<1>3. Len(FlushedFrames) = n /\ sent \in 0..Len(FlushedFrames) /\ sent \in Nat /\ done \in Nat
  BY <1>1, <1>2
<1>4. /\ frames \in Seq(Command) /\ DOMAIN frames = 1..sent
      /\ \A i \in 1..sent : i \in DOMAIN FlushedFrames /\ frames[i] = FlushedFrames[i]
  BY <1>1, <1>3, FirstFrames
<1> HIDE DEF frames
<1>5. \A i \in DOMAIN frames :
         \E s \in Flushed : frames[i] = offline[s] /\ Rank(s, Flushed) = i
  BY <1>1, <1>4
<1>6. ASSUME NEW s \in Deleted(done), sent >= done
      PROVE  \E i \in DOMAIN frames : frames[i] = offline[s]
  <2>1. s \in Flushed /\ Rank(s, Flushed) <= done
    BY DEF Deleted
  <2>2. Rank(s, Flushed) \in 1..sent
    BY <1>1, <1>3, <1>6, <2>1
  <2> QED BY <1>1, <1>4, <2>1, <2>2
<1>7. \A s, t \in Rows : offline[s] = offline[t] => s = t
  BY DEF TableInv, Rows
<1>8. ASSUME NEW s \in Rows \ Deleted(done), NEW i \in DOMAIN frames, frames[i] = offline[s]
      PROVE  i \in (done + 1)..sent
  <2>1. PICK t \in Flushed : frames[i] = offline[t] /\ Rank(t, Flushed) = i
    BY <1>5
  <2>2. s = t
    BY <1>7, <1>8, <2>1 DEF Flushed
  <2>3. ~(i <= done)
    BY <2>1, <2>2 DEF Deleted
  <2> QED BY <1>3, <1>4, <2>3
<1>9. \A i, j \in DOMAIN frames : frames[i] = frames[j] => i = j
  BY <1>1, <1>4
<1>10. \A i \in (done + 1)..sent : FlushedFrames[i] \in Command
  <2>1. \A i \in (done + 1)..sent : i \in DOMAIN FlushedFrames
    BY <1>1, <1>2, <1>3
  <2> QED BY <1>1, <2>1
<1> QED BY <1>4, <1>5, <1>6, <1>8, <1>9, <1>10 DEF FlushFacts, frames

-----------------------------------------------------------------------------
(* Sequences.                                                               *)

LEMMA AppendFacts ==
    ASSUME NEW S, NEW s \in Seq(S), NEW e \in S
    PROVE  /\ Append(s, e) \in Seq(S)
           /\ DOMAIN Append(s, e) = 1..(Len(s) + 1) /\ DOMAIN s = 1..Len(s)
           /\ Len(s) \in Nat
           /\ \A i \in DOMAIN s : Append(s, e)[i] = s[i]
           /\ Append(s, e)[Len(s) + 1] = e
  OBVIOUS

LEMMA TailFacts ==
    ASSUME NEW S, NEW s \in Seq(S), s # <<>>
    PROVE  /\ Tail(s) \in Seq(S) /\ Head(s) = s[1] /\ Head(s) \in S /\ 1 \in DOMAIN s
           /\ \A i \in DOMAIN Tail(s) : i \in Nat /\ i + 1 \in DOMAIN s /\ Tail(s)[i] = s[i + 1] /\ i + 1 # 1
  OBVIOUS

\* RemoveAt leaves the other elements, in their order.
LEMMA RemoveFacts ==
    ASSUME NEW S, NEW s \in Seq(S), NEW k \in DOMAIN s
    PROVE  /\ RemoveAt(s, k) \in Seq(S)
           /\ \A i \in DOMAIN RemoveAt(s, k) :
                 /\ i \in Nat
                 /\ RemoveAt(s, k)[i] = s[IF i < k THEN i ELSE i + 1]
                 /\ (IF i < k THEN i ELSE i + 1) \in DOMAIN s \ {k}
           /\ \A i \in DOMAIN s \ {k} : \E j \in DOMAIN RemoveAt(s, k) : RemoveAt(s, k)[j] = s[i]
<1> DEFINE a == SubSeq(s, 1, k - 1)
           b == SubSeq(s, k + 1, Len(s))
<1>1. k \in 1..Len(s) /\ Len(s) \in Nat /\ DOMAIN s = 1..Len(s)
  OBVIOUS
<1>2. a \in Seq(S) /\ Len(a) = k - 1 /\ \A i \in 1..(k - 1) : a[i] = s[i]
  BY <1>1
<1>3. b \in Seq(S) /\ Len(b) = Len(s) - k /\ \A i \in 1..(Len(s) - k) : b[i] = s[k + i]
  BY <1>1
<1>4. RemoveAt(s, k) = a \o b
  BY DEF RemoveAt
<1> HIDE DEF a, b
<1>5. /\ a \o b \in Seq(S) /\ Len(a \o b) = Len(s) - 1
      /\ DOMAIN (a \o b) = 1..(Len(s) - 1)
      /\ \A i \in 1..(Len(s) - 1) : (a \o b)[i] = IF i <= k - 1 THEN a[i] ELSE b[i - (k - 1)]
  <2>1. /\ a \o b \in Seq(S)
        /\ Len(a \o b) = Len(a) + Len(b)
        /\ \A i \in 1..(Len(a) + Len(b)) : (a \o b)[i] = IF i <= Len(a) THEN a[i] ELSE b[i - Len(a)]
    BY <1>2, <1>3, ConcatProperties, Zenon
  <2>2. Len(a) = k - 1 /\ Len(a) + Len(b) = Len(s) - 1
    BY <1>1, <1>2, <1>3
  <2>3. DOMAIN (a \o b) = 1..Len(a \o b)
    BY <2>1
  <2> QED BY <2>1, <2>2, <2>3
<1>6. ASSUME NEW i \in 1..(Len(s) - 1)
      PROVE  (a \o b)[i] = s[IF i < k THEN i ELSE i + 1]
  <2>1. i \in Int /\ k \in Int /\ Len(s) \in Int /\ 1 <= i /\ i <= Len(s) - 1
    BY <1>1
  <2>2. CASE i < k
    <3>1. i \in 1..(k - 1) /\ i <= k - 1
      BY <2>1, <2>2
    <3> QED BY <1>2, <1>5, <2>2, <3>1
  <2>3. CASE ~(i < k)
    <3>1. i - (k - 1) \in 1..(Len(s) - k) /\ ~(i <= k - 1) /\ k + (i - (k - 1)) = i + 1
      BY <2>1, <2>3
    <3>2. (a \o b)[i] = b[i - (k - 1)]
      BY <1>5, <3>1
    <3>3. b[i - (k - 1)] = s[k + (i - (k - 1))]
      BY <1>3, <3>1
    <3> QED BY <2>3, <3>1, <3>2, <3>3
  <2> QED BY <2>2, <2>3
<1>7. ASSUME NEW i \in DOMAIN s \ {k}
      PROVE  \E j \in 1..(Len(s) - 1) : (a \o b)[j] = s[i]
  <2>1. /\ i \in Int /\ k \in Int /\ Len(s) \in Int /\ i # k
        /\ 1 <= i /\ i <= Len(s) /\ 1 <= k /\ k <= Len(s)
    BY <1>1
  <2>2. CASE i < k
    <3>1. i \in 1..(Len(s) - 1)
      BY <2>1, <2>2
    <3> QED BY <1>6, <2>2, <3>1
  <2>3. CASE ~(i < k)
    <3>1. i - 1 \in 1..(Len(s) - 1) /\ ~(i - 1 < k) /\ (i - 1) + 1 = i
      BY <2>1, <2>3
    <3> QED BY <1>6, <3>1
  <2> QED BY <2>2, <2>3
<1>8. \A i \in 1..(Len(s) - 1) :
          i \in Nat /\ (IF i < k THEN i ELSE i + 1) \in DOMAIN s \ {k}
  BY <1>1
<1> QED BY <1>4, <1>5, <1>6, <1>7, <1>8

-----------------------------------------------------------------------------
(* The invariant holds at first and across every action.                    *)

LEMMA NoCommandIsNone == NoCommand \notin Command
  BY SeqsFinite DEF NoCommand, Command

LEMMA InitInv == Init => IInv
<1> SUFFICES ASSUME Init PROVE IInv
  OBVIOUS
<1> USE BoundsAssumption DEF Init
<1>1. TypeOK
  <2>1. listed \in Seq(Conns) /\ ran \in Seq(Command) /\ down \in [Conns -> Seq(Command)]
    OBVIOUS
  <2>2. sock \in [Conns -> {"new", "open", "closing", "gone"}] /\ lastPing \in {"never", "fresh", "old"}
    OBVIOUS
  <2>3. armed \in BOOLEAN /\ alarm \in BOOLEAN /\ up \in BOOLEAN /\ missed \in BOOLEAN
    OBVIOUS
  <2>4. dials \in 0..MaxDials /\ sleeps \in 0..MaxSleeps /\ link \in 0..MaxDials
    OBVIOUS
  <2>5. /\ offline \in [Seqs -> Command \cup {NoCommand}]
        /\ running \in [Conns -> Command \cup {NoCommand}]
        /\ seq \in [Pages -> Nat] /\ left \subseteq Command /\ kept \subseteq Command
    OBVIOUS
  <2> QED BY <2>1, <2>2, <2>3, <2>4, <2>5 DEF TypeOK
<1>2. SocketInv /\ AlarmInv /\ Watched
  BY DEF SocketInv, AlarmInv, Watched, Listed, Live
<1>3. TableInv /\ Rows = {}
  BY DEF TableInv, Rows
<1>4. SentInv /\ PlaceInv
  BY <1>3 DEF SentInv, PlaceInv, OncePerCommand
<1> QED BY <1>1, <1>2, <1>3, <1>4 DEF IInv

\* What the parts about commands and about sockets do not depend on.
LEMMA CommandsKept ==
    IInv /\ UNCHANGED <<offline, down, seq, ran, kept>> => TableInv' /\ SentInv' /\ PlaceInv'
  BY DEF IInv, TableInv, SentInv, PlaceInv, Rows, OncePerCommand

LEMMA SocketsKept == IInv /\ UNCHANGED <<listed, sock, dials>> => SocketInv'
  BY DEF IInv, SocketInv, Listed

LEMMA LinkBreaksInv == IInv /\ LinkBreaks => IInv'
<1> SUFFICES ASSUME IInv, LinkBreaks PROVE IInv'
  OBVIOUS
<1> USE DEF LinkBreaks, roomVars, history
<1>1. TypeOK'
  BY DEF IInv, TypeOK
<1>2. AlarmInv' /\ Watched'
  BY DEF IInv, AlarmInv, Watched, Live
<1> QED BY <1>1, <1>2, CommandsKept, SocketsKept DEF IInv

LEMMA AgentHangsUpInv == IInv /\ AgentHangsUp => IInv'
<1> SUFFICES ASSUME IInv, AgentHangsUp PROVE IInv'
  OBVIOUS
<1> USE DEF AgentHangsUp, roomVars, history
<1>1. TypeOK'
  <2>1. TypeOK /\ link' = 0 /\ up' = FALSE
    BY DEF IInv
  <2>2. link' \in 0..MaxDials
    BY <2>1, BoundsAssumption
  <2> QED BY <2>1, <2>2 DEF TypeOK
<1>2. AlarmInv' /\ Watched'
  BY DEF IInv, AlarmInv, Watched, Live
<1> QED BY <1>1, <1>2, CommandsKept, SocketsKept DEF IInv

LEMMA AgentAnswersInv == ASSUME NEW c \in Conns PROVE IInv /\ AgentAnswers(c) => IInv'
<1> SUFFICES ASSUME IInv, AgentAnswers(c) PROVE IInv'
  OBVIOUS
<1> USE DEF AgentAnswers, history
<1>1. TypeOK'
  <2>1. TypeOK /\ running \in [Conns -> Command \cup {NoCommand}] /\ lastPing \in {"never", "fresh", "old"}
    BY DEF IInv, TypeOK
  <2>2. running' \in [Conns -> Command \cup {NoCommand}] /\ lastPing' \in {"never", "fresh", "old"}
    BY <2>1
  <2> QED BY <2>1, <2>2 DEF TypeOK
<1>2. AlarmInv' /\ Watched'
  BY DEF IInv, AlarmInv, Watched, Live, Listed
<1> QED BY <1>1, <1>2, CommandsKept, SocketsKept DEF IInv

LEMMA AgentPingsInv == IInv /\ AgentPings => IInv'
<1> SUFFICES ASSUME IInv, AgentPings PROVE IInv'
  OBVIOUS
<1> USE DEF AgentPings, agentVars, history
<1>1. TypeOK'
  BY DEF IInv, TypeOK
<1>2. AlarmInv' /\ Watched'
  BY DEF IInv, AlarmInv, Watched
<1> QED BY <1>1, <1>2, CommandsKept, SocketsKept DEF IInv

LEMMA SilenceInv == IInv /\ Silence => IInv'
<1> SUFFICES ASSUME IInv, Silence PROVE IInv'
  OBVIOUS
<1> USE DEF Silence, agentVars, history
<1>1. TypeOK'
  BY DEF IInv, TypeOK
<1>2. AlarmInv' /\ Watched'
  BY DEF IInv, AlarmInv, Watched, Live, Listed
<1> QED BY <1>1, <1>2, CommandsKept, SocketsKept DEF IInv

LEMMA HibernateInv == IInv /\ Hibernate => IInv'
<1> SUFFICES ASSUME IInv, Hibernate PROVE IInv'
  OBVIOUS
<1> USE DEF Hibernate, agentVars, history
<1>1. TypeOK'
  <2>1. TypeOK /\ sleeps \in 0..MaxSleeps /\ lastPing' = "never" /\ armed' = FALSE
    BY DEF IInv, TypeOK
  <2>2. sleeps' \in 0..MaxSleeps
    BY <2>1, BoundsAssumption
  <2> QED BY <2>1, <2>2 DEF TypeOK
<1>2. AlarmInv' /\ Watched'
  BY DEF IInv, AlarmInv, Watched
<1> QED BY <1>1, <1>2, CommandsKept, SocketsKept DEF IInv

\* A socket leaves the list and is closed for good.
LEMMA SocketClosesInv == ASSUME NEW c \in Conns PROVE IInv /\ SocketCloses(c) => IInv'
<1> SUFFICES ASSUME IInv, SocketCloses(c) PROVE IInv'
  OBVIOUS
<1> USE DEF SocketCloses, agentVars, history
<1>1. PICK k \in DOMAIN listed : listed[k] = c /\ listed' = RemoveAt(listed, k)
  OBVIOUS
<1> DEFINE old(i) == IF i < k THEN i ELSE i + 1
<1>2. listed \in Seq(Conns)
  BY DEF IInv, TypeOK
<1>3. /\ listed' \in Seq(Conns)
      /\ \A i \in DOMAIN listed' :
            i \in Nat /\ listed'[i] = listed[old(i)] /\ old(i) \in DOMAIN listed \ {k}
      /\ \A i \in DOMAIN listed \ {k} : \E j \in DOMAIN listed' : listed'[j] = listed[i]
  BY <1>1, <1>2, RemoveFacts
<1>4. TypeOK'
  BY <1>3 DEF IInv, TypeOK
<1>5. k \in Nat /\ \A i, j \in Nat : old(i) = old(j) => i = j
  BY <1>2
<1> HIDE DEF old
<1>6. sock' = [sock EXCEPT ![c] = "gone"] /\ dials' = dials /\ sock \in [Conns -> {"new", "open", "closing", "gone"}]
  BY DEF IInv, TypeOK
<1>7. \A i \in DOMAIN listed : listed[i] \in Conns /\ (listed[i] = c => i = k)
  BY <1>1, <1>2 DEF IInv, SocketInv
<1>8. SocketInv'
  <2>1. \A i \in DOMAIN listed' : listed'[i] <= dials' /\ sock'[listed'[i]] \in {"open", "closing"}
    BY <1>3, <1>6, <1>7 DEF IInv, SocketInv
  <2>2. \A i, j \in DOMAIN listed' : listed'[i] = listed'[j] => i = j
    BY <1>3, <1>5 DEF IInv, SocketInv
  <2>3. \A x \in Conns : sock'[x] \in {"open", "closing"} => Listed(x)'
    BY <1>1, <1>3, <1>6 DEF IInv, SocketInv, Listed
  <2>4. \A x \in Conns : sock'[x] = "open" => x = dials'
    BY <1>6 DEF IInv, SocketInv
  <2> QED BY <2>1, <2>2, <2>3, <2>4 DEF SocketInv
<1>9. AlarmInv'
  <2>1. \A x : Listed(x)' => Listed(x)
    BY <1>3 DEF Listed
  <2> QED BY <2>1 DEF IInv, AlarmInv, Live
<1>10. Watched'
  BY <1>6 DEF IInv, Watched
<1> QED BY <1>4, <1>8, <1>9, <1>10, CommandsKept DEF IInv

\* The alarm: a socket that is open and not the oldest one leaves an oldest
\* one that was closed before, so missed records it.
LEMMA AlarmKeepsInv == IInv /\ Alarm => IInv'
<1> SUFFICES ASSUME IInv, Alarm PROVE IInv'
  OBVIOUS
<1> USE DEF Alarm, agentVars
<1>1. TypeOK /\ listed \in Seq(Conns) /\ (listed # <<>> => 1 \in DOMAIN listed /\ listed[1] \in Conns)
  BY DEF IInv, TypeOK
<1>2. sock \in [Conns -> {"new", "open", "closing", "gone"}]
  BY DEF IInv, TypeOK
<1>3. TypeOK'
  BY <1>1 DEF TypeOK
<1>4. \A x : Listed(x)' <=> Listed(x)
  BY DEF Listed
<1>5. CASE listed # <<>> /\ TimedOut
  <2>1. sock' = [sock EXCEPT ![listed[1]] = "closing"] /\ listed' = listed /\ dials' = dials
    BY <1>5
  <2>2. SocketInv'
    <3>1. \A i \in DOMAIN listed' : listed'[i] <= dials' /\ sock'[listed'[i]] \in {"open", "closing"}
      BY <1>1, <1>2, <1>5, <2>1 DEF IInv, SocketInv
    <3>2. \A x \in Conns : sock'[x] \in {"open", "closing"} => Listed(x)'
      BY <1>1, <1>2, <1>4, <1>5, <2>1 DEF IInv, SocketInv, Listed
    <3>3. \A x \in Conns : sock'[x] = "open" => x = dials'
      BY <1>1, <1>2, <1>5, <2>1 DEF IInv, SocketInv
    <3> QED BY <2>1, <3>1, <3>2, <3>3 DEF IInv, SocketInv
  <2>3. AlarmInv'
    BY <1>4, <1>5 DEF IInv, AlarmInv, Live
  <2>4. Watched'
    <3> SUFFICES ASSUME NEW x \in Conns, sock'[x] = "open"
                 PROVE  missed'
      BY DEF Watched
    <3>1. x # listed[1] /\ sock[x] = "open"
      BY <1>1, <1>2, <1>5, <2>1
    <3>2. sock[listed[1]] = "closing"
      BY <1>1, <1>5, <3>1 DEF IInv, SocketInv
    <3> QED BY <1>5, <3>2
  <2> QED BY <1>3, <2>2, <2>3, <2>4, CommandsKept DEF IInv
<1>6. CASE ~(listed # <<>> /\ TimedOut)
  <2>1. SocketInv'
    BY <1>6, SocketsKept
  <2>2. AlarmInv'
    BY <1>4, <1>6 DEF IInv, AlarmInv, Live
  <2>3. Watched'
    <3> SUFFICES ASSUME NEW x \in Conns, sock'[x] = "open"
                 PROVE  alarm'
      BY DEF Watched
    <3>1. Listed(x) /\ sock' = sock
      BY <1>6 DEF IInv, SocketInv
    <3>2. listed # <<>>
      BY <1>1, <3>1 DEF Listed
    <3>3. alarm' = (listed # <<>>)
      BY <1>6
    <3> QED BY <3>2, <3>3
  <2> QED BY <1>3, <2>1, <2>2, <2>3, CommandsKept DEF IInv
<1> QED BY <1>5, <1>6

\* The agent attaches: what the flush takes from the table it puts on the
\* new connection, and the older sockets close.
LEMMA AttachAgentInv == IInv /\ AttachAgent => IInv'
<1> SUFFICES ASSUME IInv, AttachAgent PROVE IInv'
  OBVIOUS
<1> DEFINE c == dials + 1
<1> DEFINE n == Cardinality(Flushed)
<1>0. PICK tried \in 0..n, done \in 0..n, sent \in 0..n :
         /\ up' = (sent = tried)
         /\ down' = [down EXCEPT ![c] = SubSeq(FlushedFrames, 1, sent)]
         /\ offline' = RowsAfterFlush(done)
         /\ left' = left \cup {offline[s] : s \in Rows \ Deleted(done)}
         /\ kept' = kept \cup {FlushedFrames[i] : i \in (done + 1)..sent}
  BY DEF AttachAgent
<1> DEFINE frames == SubSeq(FlushedFrames, 1, sent)
<1>1. /\ link = 0 /\ dials < MaxDials
      /\ dials' = c /\ link' = c /\ up' \in BOOLEAN
      /\ listed' = Append(listed, c)
      /\ sock' = [x \in Conns |-> IF x = c THEN "open" ELSE IF Listed(x) THEN "closing" ELSE sock[x]]
      /\ lastPing' = "fresh"
      /\ armed' = TRUE /\ alarm' = (alarm \/ ~armed)
      /\ down' = [down EXCEPT ![c] = frames]
      /\ offline' = [s \in Seqs |-> IF s \in Deleted(done) THEN NoCommand ELSE offline[s]]
      /\ left' = left \cup {offline[s] : s \in Rows \ Deleted(done)}
      /\ kept' = kept \cup {FlushedFrames[i] : i \in (done + 1)..sent}
      /\ UNCHANGED <<sleeps, running, seq, ran, missed>>
  BY <1>0 DEF AttachAgent, ArmHeartbeatAlarm, RowsAfterFlush
<1>2. TypeOK /\ SocketInv /\ AlarmInv /\ Watched /\ TableInv /\ SentInv /\ PlaceInv
  BY DEF IInv
<1>3. /\ c \in Conns /\ c \in Nat /\ c \in 0..MaxDials /\ dials \in Nat
      /\ listed \in Seq(Conns) /\ down \in [Conns -> Seq(Command)]
      /\ offline \in [Seqs -> Command \cup {NoCommand}]
      /\ sock \in [Conns -> {"new", "open", "closing", "gone"}]
  BY <1>1, <1>2, BoundsAssumption DEF TypeOK, Conns
<1> HIDE DEF c
<1>18. FlushFacts(frames, sent, done)
  BY <1>2, FlushSends
<1> HIDE DEF frames, n
<1>4. /\ frames \in Seq(Command)
      /\ \A i \in DOMAIN frames : \E s \in Flushed : frames[i] = offline[s]
      /\ \A i, j \in DOMAIN frames : frames[i] = frames[j] => i = j
  BY <1>18 DEF FlushFacts
<1>19. /\ \A s \in Rows \ Deleted(done) : \A i \in DOMAIN frames :
             frames[i] = offline[s] => frames[i] \in kept'
       /\ kept \subseteq kept' /\ kept' \subseteq Command
  <2>1. kept' \subseteq Command
    BY <1>1, <1>2, <1>18 DEF FlushFacts, TypeOK
  <2>2. \A s \in Rows \ Deleted(done) : \A i \in DOMAIN frames :
           frames[i] = offline[s] => frames[i] \in kept'
    BY <1>1, <1>18 DEF FlushFacts
  <2> QED BY <1>1, <2>1, <2>2
<1>5. /\ listed' \in Seq(Conns)
      /\ DOMAIN listed = 1..Len(listed) /\ DOMAIN listed' = 1..(Len(listed) + 1)
      /\ Len(listed) \in Nat
      /\ \A i \in DOMAIN listed : listed'[i] = listed[i]
      /\ listed'[Len(listed) + 1] = c
  BY <1>1, <1>3, AppendFacts
<1>6. \A i \in DOMAIN listed' : i \in DOMAIN listed \/ i = Len(listed) + 1
  BY <1>5
<1>7. TypeOK'
  <2>1. armed' \in BOOLEAN /\ alarm' \in BOOLEAN /\ up' \in BOOLEAN
    BY <1>1, <1>2 DEF TypeOK
  <2>2. sock' \in [Conns -> {"new", "open", "closing", "gone"}]
    BY <1>1, <1>3
  <2>3. offline' \in [Seqs -> Command \cup {NoCommand}] /\ down' \in [Conns -> Seq(Command)]
    BY <1>1, <1>3, <1>4
  <2>4. left' \subseteq Command
    BY <1>1, <1>2, <1>3 DEF TypeOK, Rows
  <2>5. dials' \in 0..MaxDials /\ link' \in 0..MaxDials /\ lastPing' \in {"never", "fresh", "old"}
    BY <1>1, <1>3
  <2> QED BY <1>1, <1>2, <1>5, <1>19, <2>1, <2>2, <2>3, <2>4, <2>5 DEF TypeOK
<1>8. SocketInv'
  <2>1. \A i \in DOMAIN listed : listed[i] \in Conns /\ listed[i] <= dials /\ listed[i] # c /\ Listed(listed[i])
    <3> SUFFICES ASSUME NEW i \in DOMAIN listed
                 PROVE  listed[i] \in Conns /\ listed[i] <= dials /\ listed[i] # c /\ Listed(listed[i])
      OBVIOUS
    <3>1. listed[i] \in Conns /\ listed[i] \in Nat /\ Listed(listed[i])
      <4>1. listed[i] \in Conns /\ Listed(listed[i])
        BY <1>3 DEF Listed
      <4> QED BY <4>1 DEF Conns
    <3>2. listed[i] <= dials
      BY <1>2 DEF SocketInv
    <3>3. listed[i] # c
      BY <1>3, <3>1, <3>2 DEF c
    <3> QED BY <3>1, <3>2, <3>3
  <2>2. \A i \in DOMAIN listed' : listed'[i] <= dials' /\ sock'[listed'[i]] \in {"open", "closing"}
    <3> SUFFICES ASSUME NEW i \in DOMAIN listed'
                 PROVE  listed'[i] <= dials' /\ sock'[listed'[i]] \in {"open", "closing"}
      OBVIOUS
    <3>1. CASE i \in DOMAIN listed
      <4>1. listed'[i] = listed[i] /\ listed[i] <= c
        BY <1>3, <1>5, <2>1, <3>1 DEF c, Conns
      <4> QED BY <1>1, <2>1, <3>1, <4>1
    <3>2. CASE i = Len(listed) + 1
      BY <1>1, <1>3, <1>5, <3>2
    <3> QED BY <1>6, <3>1, <3>2
  <2>3. \A i, j \in DOMAIN listed' : listed'[i] = listed'[j] => i = j
    BY <1>2, <1>5, <1>6, <2>1 DEF SocketInv
  <2>4. \A x \in Conns : sock'[x] \in {"open", "closing"} => Listed(x)'
    <3>1. \A x : Listed(x) => \E i \in DOMAIN listed' : listed'[i] = x
      BY <1>5 DEF Listed
    <3>2. \E i \in DOMAIN listed' : listed'[i] = c
      BY <1>5
    <3>3. \A x \in Conns : sock'[x] \in {"open", "closing"} => x = c \/ Listed(x)
      BY <1>1, <1>2 DEF SocketInv
    <3> QED BY <3>1, <3>2, <3>3 DEF Listed
  <2>5. \A x \in Conns : sock'[x] = "open" => x = dials'
    BY <1>1, <1>2 DEF SocketInv
  <2> QED BY <2>2, <2>3, <2>4, <2>5 DEF SocketInv
<1>9. AlarmInv' /\ Watched'
  BY <1>1, <1>2 DEF AlarmInv, Watched, TypeOK
<1>10. Rows' = Rows \ Deleted(done) /\ \A s \in Rows' : offline'[s] = offline[s]
  BY <1>1 DEF Rows
<1>11. Flushed \subseteq Rows /\ Rows \subseteq Seqs
  BY DEF Flushed, Rows
<1>12. TableInv'
  BY <1>2, <1>10, <1>11 DEF TableInv, Rows
<1>13. \A s, t \in Rows : offline[s] = offline[t] => s = t
  BY <1>2 DEF TableInv, Rows
<1>14. \A s \in Rows : offline[s].seq = s
  BY <1>2 DEF TableInv, Rows
<1>15. /\ down'[c] = frames
       /\ \A x \in Conns : x # c => down'[x] = down[x]
  BY <1>1, <1>3
<1>16. SentInv'
  <2>1. \A s \in Rows' : s <= seq'[offline'[s].page]
    BY <1>1, <1>2, <1>10 DEF SentInv
  <2>2. \A i \in DOMAIN frames : frames[i].seq <= seq[frames[i].page]
    BY <1>2, <1>4, <1>11, <1>14 DEF SentInv
  <2>3. \A x \in Conns : \A i \in DOMAIN down'[x] : down'[x][i].seq <= seq'[down'[x][i].page]
    BY <1>1, <1>2, <1>15, <2>2 DEF SentInv
  <2> QED BY <1>1, <1>2, <2>1, <2>3 DEF SentInv
<1>17. PlaceInv'
  <2>1. ASSUME NEW x \in Conns, NEW y \in Conns, NEW i \in DOMAIN down'[x], NEW j \in DOMAIN down'[y],
               down'[x][i] = down'[y][j]
        PROVE  (x = y /\ i = j) \/ down'[x][i] \in kept'
    <3>1. CASE x = c /\ y = c
      BY <1>4, <1>15, <2>1, <3>1
    <3>2. CASE x = c /\ y # c
      <4>1. PICK s \in Rows : frames[i] = offline[s]
        BY <1>4, <1>11, <1>15, <3>2
      <4>2. offline[s] = down[y][j] /\ j \in DOMAIN down[y]
        BY <1>15, <2>1, <3>2, <4>1
      <4>3. offline[s] \in kept
        BY <1>2, <4>2 DEF PlaceInv
      <4> QED BY <1>15, <1>19, <3>2, <4>1, <4>3
    <3>3. CASE x # c /\ y = c
      <4>1. PICK s \in Rows : frames[j] = offline[s]
        BY <1>4, <1>11, <1>15, <3>3
      <4>2. offline[s] = down[x][i] /\ i \in DOMAIN down[x]
        BY <1>15, <2>1, <3>3, <4>1
      <4>3. offline[s] \in kept
        BY <1>2, <4>2 DEF PlaceInv
      <4> QED BY <1>15, <1>19, <3>3, <4>2, <4>3
    <3>4. CASE x # c /\ y # c
      BY <1>2, <1>15, <1>19, <2>1, <3>4 DEF PlaceInv
    <3> QED BY <3>1, <3>2, <3>3, <3>4
  <2>2. ASSUME NEW x \in Conns, NEW i \in DOMAIN down'[x], NEW j \in DOMAIN ran', down'[x][i] = ran'[j]
        PROVE  ran'[j] \in kept'
    <3>1. CASE x = c
      <4>1. PICK s \in Rows : frames[i] = offline[s]
        BY <1>4, <1>11, <1>15, <3>1
      <4> QED BY <1>1, <1>2, <1>15, <1>19, <2>2, <3>1, <4>1 DEF PlaceInv
    <3>2. CASE x # c
      BY <1>1, <1>2, <1>15, <1>19, <2>2, <3>2 DEF PlaceInv
    <3> QED BY <3>1, <3>2
  <2>3. ASSUME NEW s \in Rows', NEW x \in Conns, NEW i \in DOMAIN down'[x], offline'[s] = down'[x][i]
        PROVE  offline'[s] \in kept'
    <3>1. CASE x = c
      BY <1>10, <1>15, <1>19, <2>3, <3>1
    <3>2. CASE x # c
      BY <1>2, <1>10, <1>15, <1>19, <2>3, <3>2 DEF PlaceInv
    <3> QED BY <3>1, <3>2
  <2>4. \A s \in Rows' : \A i \in DOMAIN ran' : offline'[s] = ran'[i] => offline'[s] \in kept'
    BY <1>1, <1>2, <1>10, <1>19 DEF PlaceInv
  <2>5. OncePerCommand'
    BY <1>1, <1>2, <1>19 DEF PlaceInv, OncePerCommand
  <2> QED BY <2>1, <2>2, <2>3, <2>4, <2>5 DEF PlaceInv
<1> QED BY <1>7, <1>8, <1>9, <1>12, <1>16, <1>17 DEF IInv

\* The agent takes the first frame of its connection: the command moves from
\* the connection to those that ran.
LEMMA AgentTakesInv == IInv /\ AgentTakes => IInv'
<1> SUFFICES ASSUME IInv, AgentTakes PROVE IInv'
  OBVIOUS
<1> DEFINE cmd == Head(down[link])
<1>1. /\ link # 0 /\ down[link] # <<>>
      /\ running' = [running EXCEPT ![link] = cmd]
      /\ down' = [down EXCEPT ![link] = Tail(down[link])]
      /\ ran' = Append(ran, cmd)
      /\ UNCHANGED <<listed, sock, lastPing, armed, alarm, offline, dials, sleeps, link, up, seq, left, kept, missed>>
  BY DEF AgentTakes, roomVars
<1>2. TypeOK /\ SocketInv /\ AlarmInv /\ Watched /\ TableInv /\ SentInv /\ PlaceInv
  BY DEF IInv
<1>3. /\ link \in Conns /\ down \in [Conns -> Seq(Command)] /\ down[link] \in Seq(Command)
      /\ ran \in Seq(Command) /\ running \in [Conns -> Command \cup {NoCommand}]
  BY <1>1, <1>2, BoundsAssumption DEF TypeOK, Conns
<1>4. /\ Tail(down[link]) \in Seq(Command) /\ cmd = down[link][1] /\ cmd \in Command
      /\ 1 \in DOMAIN down[link]
      /\ \A i \in DOMAIN Tail(down[link]) :
            i \in Nat /\ i + 1 \in DOMAIN down[link] /\ Tail(down[link])[i] = down[link][i + 1] /\ i + 1 # 1
  BY <1>1, <1>3, TailFacts
<1> HIDE DEF cmd
<1>5. /\ ran' \in Seq(Command)
      /\ DOMAIN ran' = 1..(Len(ran) + 1) /\ DOMAIN ran = 1..Len(ran) /\ Len(ran) \in Nat
      /\ \A i \in DOMAIN ran : ran'[i] = ran[i]
      /\ ran'[Len(ran) + 1] = cmd
  BY <1>1, <1>3, <1>4, AppendFacts
<1>6. \A i \in DOMAIN ran' : i \in DOMAIN ran \/ i = Len(ran) + 1
  BY <1>5
<1>7. /\ down'[link] = Tail(down[link])
      /\ \A x \in Conns : x # link => down'[x] = down[x]
      /\ down' \in [Conns -> Seq(Command)]
  BY <1>1, <1>3, <1>4
<1>8. TypeOK'
  BY <1>1, <1>2, <1>3, <1>4, <1>5, <1>7 DEF TypeOK
<1>9. AlarmInv' /\ Watched' /\ SocketInv'
  BY <1>1, <1>2 DEF AlarmInv, Watched, SocketInv, Live, Listed
<1>10. TableInv' /\ Rows' = Rows
  BY <1>1, <1>2 DEF TableInv, Rows
<1>11. ASSUME NEW x \in Conns, NEW i \in DOMAIN down'[x]
       PROVE  \E k \in DOMAIN down[x] :
                 /\ down'[x][i] = down[x][k]
                 /\ (x = link => k = i + 1 /\ k # 1 /\ i \in Nat) /\ (x # link => k = i)
  <2>1. CASE x = link
    <3>1. i \in DOMAIN Tail(down[link])
      BY <1>7, <2>1
    <3>2. /\ i \in Nat /\ i + 1 \in DOMAIN down[x] /\ i + 1 # 1
          /\ down'[x][i] = down[x][i + 1]
      BY <1>4, <1>7, <2>1, <3>1
    <3> QED BY <2>1, <3>2
  <2>2. CASE x # link
    BY <1>7, <2>2
  <2> QED BY <2>1, <2>2
<1>12. SentInv'
  <2>1. \A x \in Conns : \A i \in DOMAIN down'[x] : down'[x][i].seq <= seq'[down'[x][i].page]
    BY <1>1, <1>2, <1>11 DEF SentInv
  <2>2. cmd.seq <= seq[cmd.page]
    BY <1>2, <1>3, <1>4 DEF SentInv
  <2>3. \A i \in DOMAIN ran' : ran'[i].seq <= seq'[ran'[i].page]
    BY <1>1, <1>2, <1>5, <1>6, <2>2 DEF SentInv
  <2> QED BY <1>1, <1>2, <1>10, <2>1, <2>3 DEF SentInv
<1>13. \A x \in Conns : \A i \in DOMAIN down'[x] : down'[x][i] = cmd => cmd \in kept
  BY <1>2, <1>3, <1>4, <1>11 DEF PlaceInv
<1>14. \A i \in DOMAIN ran : ran[i] = cmd => cmd \in kept
  BY <1>2, <1>3, <1>4 DEF PlaceInv
<1>15. PlaceInv'
  <2>1. ASSUME NEW x \in Conns, NEW y \in Conns, NEW i \in DOMAIN down'[x], NEW j \in DOMAIN down'[y],
               down'[x][i] = down'[y][j]
        PROVE  (x = y /\ i = j) \/ down'[x][i] \in kept'
    <3>1. PICK k \in DOMAIN down[x] :
             /\ down'[x][i] = down[x][k]
             /\ (x = link => k = i + 1 /\ k # 1 /\ i \in Nat) /\ (x # link => k = i)
      BY <1>11
    <3>2. PICK l \in DOMAIN down[y] :
             /\ down'[y][j] = down[y][l]
             /\ (y = link => l = j + 1 /\ l # 1 /\ j \in Nat) /\ (y # link => l = j)
      BY <1>11
    <3>3. down[x][k] = down[y][l]
      BY <2>1, <3>1, <3>2
    <3>4. \A c, d \in Conns : \A m \in DOMAIN down[c], n \in DOMAIN down[d] :
             down[c][m] = down[d][n] => (c = d /\ m = n) \/ down[c][m] \in kept
      BY <1>2 DEF PlaceInv
    <3>5. (x = y /\ k = l) \/ down[x][k] \in kept
      BY <3>3, <3>4
    <3> QED BY <1>1, <3>1, <3>2, <3>5
  <2>2. ASSUME NEW x \in Conns, NEW i \in DOMAIN down'[x], NEW j \in DOMAIN ran', down'[x][i] = ran'[j]
        PROVE  ran'[j] \in kept'
    <3>1. PICK k \in DOMAIN down[x] : down'[x][i] = down[x][k]
      BY <1>11
    <3>2. CASE j \in DOMAIN ran
      BY <1>1, <1>2, <1>5, <2>2, <3>1, <3>2 DEF PlaceInv
    <3>3. CASE j = Len(ran) + 1
      BY <1>1, <1>5, <1>13, <2>2, <3>3
    <3> QED BY <1>6, <3>2, <3>3
  <2>3. \A s \in Rows' : \A x \in Conns : \A i \in DOMAIN down'[x] :
           offline'[s] = down'[x][i] => offline'[s] \in kept'
    BY <1>1, <1>2, <1>10, <1>11 DEF PlaceInv
  <2>4. \A s \in Rows' : \A i \in DOMAIN ran' : offline'[s] = ran'[i] => offline'[s] \in kept'
    BY <1>1, <1>2, <1>3, <1>4, <1>5, <1>6, <1>10 DEF PlaceInv
  <2>5. OncePerCommand'
    BY <1>1, <1>2, <1>5, <1>6, <1>14 DEF PlaceInv, OncePerCommand
  <2> QED BY <2>1, <2>2, <2>3, <2>4, <2>5 DEF PlaceInv
<1> QED BY <1>8, <1>9, <1>10, <1>12, <1>15 DEF IInv

\* A page sends: its command is later than all it sent, so it is nowhere yet.
LEMMA PageSendsInv == ASSUME NEW p \in Pages PROVE IInv /\ PageSends(p) => IInv'
<1> SUFFICES ASSUME IInv, PageSends(p) PROVE IInv'
  OBVIOUS
<1> DEFINE cmd == [page |-> p, seq |-> seq[p] + 1]
           first == listed[1]
<1>1. /\ seq[p] < MaxSeq[p]
      /\ seq' = [seq EXCEPT ![p] = cmd.seq]
      /\ Forward(cmd)
      /\ UNCHANGED <<listed, sock, lastPing, armed, alarm, dials, sleeps, link, up, running, ran, left, kept, missed>>
  BY DEF PageSends, history
<1>2. TypeOK /\ SocketInv /\ AlarmInv /\ Watched /\ TableInv /\ SentInv /\ PlaceInv
  BY DEF IInv
<1>3. /\ seq \in [Pages -> Nat] /\ seq[p] \in Nat /\ MaxSeq[p] \in Nat
      /\ down \in [Conns -> Seq(Command)]
      /\ offline \in [Seqs -> Command \cup {NoCommand}]
      /\ listed \in Seq(Conns) /\ ran \in Seq(Command)
  BY <1>2, BoundsAssumption DEF TypeOK
<1>4. cmd.page = p /\ cmd.seq = seq[p] + 1 /\ cmd.seq \in 1..MaxSeq[p]
  BY <1>1, <1>3
<1>5. cmd \in Command /\ cmd.seq \in Seqs
  BY <1>4 DEF Command, Seqs
<1>6. /\ seq' \in [Pages -> Nat] /\ \A q \in Pages : seq[q] <= seq'[q]
      /\ seq'[p] = cmd.seq
  BY <1>1, <1>3, <1>4
<1>7. \A k \in Command : k.page \in Pages /\ k.seq \in Nat
  BY SeqsFinite DEF Command
\* A command that was sent before is not this one, and was sent before still.
<1>8. ASSUME NEW k \in Command, k.seq <= seq[k.page]
      PROVE  k # cmd /\ k.seq <= seq'[k.page]
  <2>1. k.page \in Pages /\ k.seq \in Nat /\ seq[k.page] \in Nat /\ seq'[k.page] \in Nat
    BY <1>3, <1>6, <1>7
  <2>2. k.seq <= seq'[k.page]
    BY <1>6, <1>8, <2>1
  <2>3. ~(seq[p] + 1 <= seq[p])
    BY <1>3
  <2>4. k # cmd
    BY <1>4, <1>8, <2>3
  <2> QED BY <2>2, <2>4
<1>9. cmd # NoCommand
  BY <1>5, NoCommandIsNone
<1> HIDE DEF cmd
<1>10. \A s \in Rows : offline[s] \in Command /\ offline[s] # cmd /\ offline[s].seq = s /\ s <= seq'[offline[s].page]
  BY <1>2, <1>8 DEF SentInv, TableInv, Rows
<1>11. \A x \in Conns : \A i \in DOMAIN down[x] :
          down[x][i] \in Command /\ down[x][i] # cmd /\ down[x][i].seq <= seq'[down[x][i].page]
  BY <1>2, <1>3, <1>8 DEF SentInv
<1>12. \A i \in DOMAIN ran : ran[i] \in Command /\ ran[i] # cmd /\ ran[i].seq <= seq'[ran[i].page]
  BY <1>2, <1>3, <1>8 DEF SentInv
<1>13. SocketInv' /\ AlarmInv' /\ Watched'
  BY <1>1, <1>2 DEF SocketInv, AlarmInv, Watched, Live, Listed
<1>14. OncePerCommand' /\ ran' = ran
  BY <1>1, <1>2 DEF PlaceInv, OncePerCommand
<1>15. cmd.seq <= seq'[cmd.page]
  BY <1>4, <1>6
<1>16. CASE offline' = [offline EXCEPT ![cmd.seq] = cmd] /\ down' = down
  <2>1. offline' = [offline EXCEPT ![cmd.seq] = cmd] /\ down' = down
    BY <1>16
  <2>2. TypeOK'
    BY <1>1, <1>2, <1>3, <1>5, <1>6, <2>1 DEF TypeOK
  <2>3. \A s \in Rows' : s \in Seqs /\ IF s = cmd.seq THEN offline'[s] = cmd ELSE s \in Rows /\ offline'[s] = offline[s]
    BY <1>3, <1>5, <2>1 DEF Rows
  <2>4. TableInv'
    BY <1>2, <1>3, <1>5, <2>1 DEF TableInv
  <2>5. SentInv'
    <3>1. \A s \in Rows' : s <= seq'[offline'[s].page]
      BY <1>10, <1>15, <2>3
    <3> QED BY <1>11, <1>12, <1>14, <2>1, <3>1 DEF SentInv
  <2>6. PlaceInv'
    <3>1. \A s \in Rows' : \A x \in Conns : \A i \in DOMAIN down[x] :
             offline'[s] = down[x][i] => offline'[s] \in kept
      BY <1>2, <1>11, <2>3 DEF PlaceInv
    <3>2. \A s \in Rows' : \A i \in DOMAIN ran : offline'[s] = ran[i] => offline'[s] \in kept
      BY <1>2, <1>12, <2>3 DEF PlaceInv
    <3> QED BY <1>1, <1>2, <1>14, <2>1, <3>1, <3>2 DEF PlaceInv
  <2> QED BY <1>13, <2>2, <2>4, <2>5, <2>6 DEF IInv
<1>17. CASE listed # <<>> /\ sock[first] = "open"
  <2>1. offline' = offline /\ down' = [down EXCEPT ![first] = Append(down[first], cmd)]
    BY <1>1, <1>17 DEF Forward
  <2>2. first \in Conns /\ down[first] \in Seq(Command)
    BY <1>3, <1>17
  <2> HIDE DEF first
  <2>3. /\ Append(down[first], cmd) \in Seq(Command)
        /\ DOMAIN Append(down[first], cmd) = 1..(Len(down[first]) + 1)
        /\ DOMAIN down[first] = 1..Len(down[first]) /\ Len(down[first]) \in Nat
        /\ \A i \in DOMAIN down[first] : Append(down[first], cmd)[i] = down[first][i]
        /\ Append(down[first], cmd)[Len(down[first]) + 1] = cmd
    BY <1>5, <2>2, AppendFacts
  <2>4. /\ down'[first] = Append(down[first], cmd) /\ down' \in [Conns -> Seq(Command)]
        /\ \A x \in Conns : x # first => down'[x] = down[x]
    BY <1>3, <2>1, <2>2, <2>3
  <2>5. \A x \in Conns : \A i \in DOMAIN down'[x] :
           \/ i \in DOMAIN down[x] /\ down'[x][i] = down[x][i]
           \/ x = first /\ i = Len(down[first]) + 1 /\ down'[x][i] = cmd
    <3>1. ASSUME NEW x \in Conns, x # first, NEW i \in DOMAIN down'[x]
          PROVE  i \in DOMAIN down[x] /\ down'[x][i] = down[x][i]
      BY <2>4, <3>1
    <3>2. ASSUME NEW i \in DOMAIN down'[first]
          PROVE  \/ i \in DOMAIN down[first] /\ down'[first][i] = down[first][i]
                 \/ i = Len(down[first]) + 1 /\ down'[first][i] = cmd
      <4>1. i \in 1..(Len(down[first]) + 1)
        BY <2>3, <2>4
      <4>2. i \in DOMAIN down[first] \/ i = Len(down[first]) + 1
        BY <2>3, <4>1
      <4> QED BY <2>3, <2>4, <4>2
    <3> QED BY <3>1, <3>2
  <2>6. TypeOK'
    BY <1>1, <1>2, <1>6, <2>1, <2>4 DEF TypeOK
  <2>7. TableInv' /\ Rows' = Rows
    BY <1>2, <2>1 DEF TableInv, Rows
  <2>8. SentInv'
    <3>1. \A x \in Conns : \A i \in DOMAIN down'[x] : down'[x][i].seq <= seq'[down'[x][i].page]
      BY <1>11, <1>15, <2>5
    <3> QED BY <1>10, <1>12, <1>14, <2>1, <2>7, <3>1 DEF SentInv
  <2>9. PlaceInv'
    <3>1. ASSUME NEW x \in Conns, NEW y \in Conns, NEW i \in DOMAIN down'[x], NEW j \in DOMAIN down'[y],
                 down'[x][i] = down'[y][j]
          PROVE  (x = y /\ i = j) \/ down'[x][i] \in kept
      <4>1. CASE down'[x][i] = cmd
        <5>1. down'[y][j] = cmd
          BY <3>1, <4>1
        <5>2. x = first /\ i = Len(down[first]) + 1
          BY <1>11, <2>5, <4>1
        <5>3. y = first /\ j = Len(down[first]) + 1
          BY <1>11, <2>5, <5>1
        <5> QED BY <5>2, <5>3
      <4>2. CASE down'[x][i] # cmd
        <5>1. /\ i \in DOMAIN down[x] /\ j \in DOMAIN down[y] /\ down[x][i] = down[y][j]
              /\ down'[x][i] = down[x][i]
          BY <2>5, <3>1, <4>2
        <5> QED BY <1>2, <5>1 DEF PlaceInv
      <4> QED BY <4>1, <4>2
    <3>2. \A x \in Conns : \A i \in DOMAIN down'[x], j \in DOMAIN ran :
             down'[x][i] = ran[j] => ran[j] \in kept
      BY <1>2, <1>12, <2>5 DEF PlaceInv
    <3>3. \A s \in Rows : \A x \in Conns : \A i \in DOMAIN down'[x] :
             offline[s] = down'[x][i] => offline[s] \in kept
      BY <1>2, <1>10, <2>5 DEF PlaceInv
    <3> QED BY <1>1, <1>2, <1>14, <2>1, <2>7, <3>1, <3>2, <3>3 DEF PlaceInv
  <2> QED BY <1>13, <2>6, <2>7, <2>8, <2>9 DEF IInv
<1>18. CASE offline' = offline /\ down' = down
  <2>1. offline' = offline /\ down' = down
    BY <1>18
  <2>2. TypeOK'
    BY <1>1, <1>2, <1>6, <2>1 DEF TypeOK
  <2>3. SentInv'
    BY <1>10, <1>11, <1>12, <1>14, <2>1 DEF SentInv, Rows
  <2> QED BY <1>1, <1>2, <1>13, <1>14, <2>1, <2>2, <2>3 DEF IInv, TableInv, PlaceInv, Rows
<1>20. \/ offline' = [offline EXCEPT ![cmd.seq] = cmd] /\ down' = down
       \/ listed # <<>> /\ sock[first] = "open"
       \/ offline' = offline /\ down' = down
  BY <1>1 DEF Forward
<1> QED BY <1>16, <1>17, <1>18, <1>20

\* The invariant is inductive.
LEMMA StepInv == IInv /\ [Next]_vars => IInv'
<1> SUFFICES ASSUME IInv, [Next]_vars PROVE IInv'
  OBVIOUS
<1>1. CASE UNCHANGED vars
  <2>1. TypeOK'
    BY <1>1 DEF IInv, TypeOK, vars, roomVars, agentVars, history
  <2>2. AlarmInv' /\ Watched'
    BY <1>1 DEF IInv, AlarmInv, Watched, Live, Listed, vars, roomVars, agentVars, history
  <2>3. UNCHANGED <<listed, sock, dials>> /\ UNCHANGED <<offline, down, seq, ran, kept>>
    BY <1>1 DEF vars, roomVars, agentVars, history
  <2> QED BY <2>1, <2>2, <2>3, SocketsKept, CommandsKept DEF IInv
<1>2. ASSUME NEW c \in Conns, AgentAnswers(c) \/ SocketCloses(c)
      PROVE  IInv'
  BY <1>2, AgentAnswersInv, SocketClosesInv
<1>3. ASSUME NEW p \in Pages, PageSends(p)
      PROVE  IInv'
  BY <1>3, PageSendsInv
<1> QED BY <1>1, <1>2, <1>3, AttachAgentInv, LinkBreaksInv, AgentHangsUpInv, AgentTakesInv,
           AgentPingsInv, SilenceInv, HibernateInv, AlarmKeepsInv DEF Next

LEMMA Invariant == Spec => []IInv
  BY InitInv, StepInv, PTL DEF Spec

-----------------------------------------------------------------------------
(* The theorems.                                                            *)

(* Every variable of the room, of the agent's connection and of the pages   *)
(* keeps its type.                                                          *)
THEOREM TypeCorrect == Spec => []TypeOK
<1>1. IInv => TypeOK
  BY DEF IInv
<1> QED BY <1>1, Invariant, PTL

(* While an agent socket is open the next alarm of room.ts is set, however  *)
(* often the room slept and the agent attached again, unless an alarm met a *)
(* socket that the room had closed before.                                  *)
THEOREM AlarmIsSet == Spec => []Watched
<1>1. IInv => Watched
  BY DEF IInv
<1> QED BY <1>1, Invariant, PTL

(* A command that went over the relay, forwarded at once or kept in the     *)
(* table for an agent that was away, is started at most once, unless a flush *)
(* sent its row and could not delete it.                                    *)
THEOREM NoneRunsTwice == Spec => []OncePerCommand
<1>1. IInv => OncePerCommand
  BY DEF IInv, PlaceInv
<1> QED BY <1>1, Invariant, PTL

(* The alarm closes no socket of an agent that is connected and pings,      *)
(* unless the room forgot the last ping in its sleep.                       *)
THEOREM PingsAreHeeded == Spec => HealthyAgentStays
<1> DEFINE stays == \A c \in Conns : Live(c) /\ sock[c] = "open" /\ sock'[c] = "closing" => lastPing = "never"
<1>1. ASSUME IInv, [Next]_vars, NEW c \in Conns, Live(c), sock[c] = "open", sock'[c] = "closing"
      PROVE  lastPing = "never"
  <2>1. TypeOK /\ sock \in [Conns -> {"new", "open", "closing", "gone"}] /\ c # 0
    BY <1>1, BoundsAssumption DEF IInv, TypeOK, Conns
  <2>2. lastPing # "old"
    BY <1>1, <2>1 DEF IInv, AlarmInv, Live
  <2>3. sock' # sock /\ link # 0
    BY <1>1, <2>1 DEF Live
  <2>4. CASE AttachAgent
    BY <2>3, <2>4 DEF AttachAgent
  <2>5. ASSUME NEW d \in Conns, SocketCloses(d)
        PROVE  FALSE
    BY <1>1, <2>1, <2>5 DEF SocketCloses
  <2>6. CASE Alarm
    <3>1. TimedOut
      BY <2>3, <2>6 DEF Alarm
    <3> QED BY <2>1, <2>2, <3>1 DEF TimedOut, TypeOK
  <2> QED BY <1>1, <2>3, <2>4, <2>5, <2>6
          DEF Next, LinkBreaks, AgentHangsUp, AgentTakes, AgentPings, Silence, Hibernate,
              AgentAnswers, PageSends, vars, roomVars, agentVars, history
<1>2. IInv /\ [Next]_vars => [stays]_vars
  BY <1>1
<1> HIDE DEF stays
<1>3. Spec => [][stays]_vars
  BY <1>2, Invariant, PTL DEF Spec
<1> QED BY <1>3 DEF stays, HealthyAgentStays

(* A queued command leaves the table only onto an open socket of the agent, *)
(* or when a command of another page with the same seq takes its row, or    *)
(* when a socket that is dead as it is attached swallows the flush.         *)
THEOREM RowsAreDelivered == Spec => RowsLeaveOnTheWire
<1> DEFINE leaves(s) ==
      LET cmd == offline[s] IN
      cmd # NoCommand /\ offline'[s] # cmd =>
         \/ offline'[s].page \in Pages \ {cmd.page}
         \/ \E c \in Conns : sock'[c] = "open" /\ \E i \in DOMAIN down'[c] : down'[c][i] = cmd
         \/ dials' # dials /\ ~up'
<1>1. ASSUME IInv, [Next]_vars, NEW s \in Seqs, offline[s] # NoCommand, offline'[s] # offline[s]
      PROVE  \/ offline'[s].page \in Pages \ {offline[s].page}
             \/ \E c \in Conns : sock'[c] = "open" /\ \E i \in DOMAIN down'[c] : down'[c][i] = offline[s]
             \/ dials' # dials /\ ~up'
  <2>1. TypeOK /\ TableInv /\ offline' # offline
    BY <1>1 DEF IInv
  <2>2. CASE AttachAgent
    <3> DEFINE c == dials + 1
    <3>0. dials < MaxDials /\ dials' = dials + 1
      BY <2>2 DEF AttachAgent
    <3>1. /\ c \in Conns /\ down \in [Conns -> Seq(Command)] /\ dials' # dials
      BY <2>1, <3>0, BoundsAssumption DEF TypeOK, Conns
    <3>2. PICK tried \in 0..Cardinality(Flushed), done \in 0..Cardinality(Flushed),
               sent \in 0..Cardinality(Flushed) :
             /\ FlushEnds(tried, done)
             /\ up' = (sent = tried)
             /\ down' = [down EXCEPT ![c] = SubSeq(FlushedFrames, 1, sent)]
             /\ offline' = RowsAfterFlush(done)
      BY <2>2 DEF AttachAgent
    <3>3. sock' = [x \in Conns |-> IF x = c THEN "open" ELSE IF Listed(x) THEN "closing" ELSE sock[x]]
      BY <2>2 DEF AttachAgent
    <3>4. FlushFacts(SubSeq(FlushedFrames, 1, sent), sent, done)
      BY <2>1, FlushSends
    <3> HIDE DEF c
    <3>5. sock'[c] = "open" /\ down'[c] = SubSeq(FlushedFrames, 1, sent)
      BY <3>1, <3>2, <3>3
    <3>6. s \in Deleted(done)
      BY <1>1, <3>2 DEF RowsAfterFlush
    <3>7. CASE sent = tried
      <4>1. Cardinality(Flushed) \in Nat
        BY <2>1, FlushedAreRows
      <4>2. sent >= done
        BY <3>2, <3>7, <4>1 DEF FlushEnds
      <4>3. \E i \in DOMAIN down'[c] : down'[c][i] = offline[s]
        BY <3>4, <3>5, <3>6, <4>2 DEF FlushFacts
      <4> QED BY <3>1, <3>5, <4>3
    <3>8. CASE sent # tried
      BY <3>1, <3>2, <3>8
    <3> QED BY <3>7, <3>8
  <2>3. ASSUME NEW p \in Pages, PageSends(p)
        PROVE  offline'[s].page \in Pages \ {offline[s].page}
    <3> DEFINE cmd == [page |-> p, seq |-> seq[p] + 1]
    <3>1. offline' = [offline EXCEPT ![cmd.seq] = cmd]
      BY <2>1, <2>3 DEF PageSends, Forward
    <3>2. offline \in [Seqs -> Command \cup {NoCommand}] /\ seq[p] \in Nat
      BY <2>1, <2>3 DEF TypeOK
    <3>3. cmd.seq = s /\ offline'[s] = cmd
      BY <1>1, <3>1, <3>2
    <3>4. offline[s].seq = s /\ s <= seq[offline[s].page]
      BY <1>1 DEF IInv, TableInv, SentInv, Rows
    <3>5. offline[s].page # p
      BY <3>2, <3>3, <3>4
    <3> QED BY <3>3, <3>5
  <2> QED BY <1>1, <2>1, <2>2, <2>3
          DEF Next, LinkBreaks, AgentHangsUp, AgentTakes, AgentPings, Silence, Hibernate, Alarm,
              AgentAnswers, SocketCloses, vars, roomVars, agentVars, history
<1>2. IInv /\ [Next]_vars => [\A s \in Seqs : leaves(s)]_vars
  BY <1>1
<1> DEFINE allLeave == \A s \in Seqs : leaves(s)
<1>3. IInv /\ [Next]_vars => [allLeave]_vars
  BY <1>2
<1> HIDE DEF allLeave
<1>4. Spec => [][allLeave]_vars
  BY <1>3, Invariant, PTL DEF Spec
<1> QED BY <1>4 DEF allLeave, RowsLeaveOnTheWire

-----------------------------------------------------------------------------
(* Order: of two commands of a page, the later one may go first only past   *)
(* one that a flush has left in the table.                                  *)

Passes(c, d) == c.page = d.page /\ c.seq > d.seq
MayFollow(c, d) == Passes(c, d) => d \in left

\* What has run, what is on the agent's connection and what is in the table
\* may follow each other; while sockets are listed the table has leftovers.
OrderInv ==
    /\ \A i, j \in DOMAIN ran : i < j => MayFollow(ran[i], ran[j])
    /\ \A s \in Rows : \A i \in DOMAIN ran : MayFollow(ran[i], offline[s])
    /\ link # 0 =>
         /\ \A i \in DOMAIN ran, j \in DOMAIN down[link] : MayFollow(ran[i], down[link][j])
         /\ \A i, j \in DOMAIN down[link] : i < j => MayFollow(down[link][i], down[link][j])
         /\ \A s \in Rows : \A i \in DOMAIN down[link] : MayFollow(down[link][i], offline[s])
    /\ listed # <<>> => \A s \in Rows : offline[s] \in left

\* The rank grows with the number.
LEMMA RankRises ==
    ASSUME NEW S \in SUBSET Nat, IsFiniteSet(S), NEW s \in S, NEW t \in S, Rank(s, S) < Rank(t, S)
    PROVE  s < t
<1> SUFFICES ASSUME t <= s PROVE FALSE
  OBVIOUS
<1>1. {u \in S : u <= t} \in SUBSET {u \in S : u <= s}
  <2>1. s \in Nat /\ t \in Nat /\ \A u \in S : u \in Nat
    OBVIOUS
  <2>2. \A u \in S : u <= t => u <= s
    BY <2>1
  <2> QED BY <2>2, Zenon
<1>2. IsFiniteSet({u \in S : u <= s})
  BY FS_Subset
<1>3. Rank(t, S) <= Rank(s, S)
  BY <1>1, <1>2, FS_Subset DEF Rank
<1>4. Rank(s, S) \in Nat /\ Rank(t, S) \in Nat
  BY RankNumbers
<1> QED BY <1>3, <1>4

\* A flush sends the rows by their numbers.
LEMMA FlushedRise ==
    ASSUME TypeOK, TableInv, NEW i \in DOMAIN FlushedFrames, NEW j \in DOMAIN FlushedFrames, i < j
    PROVE  FlushedFrames[i].seq < FlushedFrames[j].seq
<1> DEFINE n == Cardinality(Flushed)
           row(k) == CHOOSE s \in Flushed : Rank(s, Flushed) = k
<1>1. Flushed \in SUBSET Nat /\ IsFiniteSet(Flushed)
  BY SeqsFinite, FS_Subset DEF Flushed, Rows
<1>2. n \in Nat /\ \A k \in 1..n : \E s \in Flushed : Rank(s, Flushed) = k
  BY <1>1, RankNumbers
<1>3. \A k \in 1..n : row(k) \in Flushed /\ Rank(row(k), Flushed) = k
  BY <1>2
<1>4. \A s \in Flushed : offline[s].seq = s
  BY DEF Flushed, Rows, TableInv
<1>5. DOMAIN FlushedFrames = 1..n /\ \A k \in 1..n : FlushedFrames[k] = offline[row(k)]
  BY DEF FlushedFrames
<1> HIDE DEF n, row
<1>6. FlushedFrames[i].seq = row(i) /\ FlushedFrames[j].seq = row(j)
  BY <1>3, <1>4, <1>5
<1>7. row(i) \in Flushed /\ row(j) \in Flushed /\ Rank(row(i), Flushed) < Rank(row(j), Flushed)
  BY <1>3, <1>5
<1> QED BY <1>1, <1>6, <1>7, RankRises

LEMMA OrderInit == Init => OrderInv
  BY DEF Init, OrderInv, Rows

\* A step that sends, takes and keeps no command.
LEMMA OrderKept ==
    ASSUME OrderInv, UNCHANGED <<offline, down, ran, left>>, link' \in {link, 0},
           listed' # <<>> => listed # <<>>
    PROVE  OrderInv'
  BY DEF OrderInv, Rows, MayFollow

LEMMA AttachAgentOrder ==
    ASSUME IInv, OrderInv, AttachAgent
    PROVE  OrderInv'
<1> DEFINE c == dials + 1
<1>0. PICK done \in 0..Cardinality(Flushed), sent \in 0..Cardinality(Flushed) :
         /\ down' = [down EXCEPT ![c] = SubSeq(FlushedFrames, 1, sent)]
         /\ offline' = RowsAfterFlush(done)
         /\ left' = left \cup {offline[s] : s \in Rows \ Deleted(done)}
  BY DEF AttachAgent
<1> DEFINE frames == SubSeq(FlushedFrames, 1, sent)
<1>1. /\ link' = c /\ down' = [down EXCEPT ![c] = frames] /\ ran' = ran
      /\ offline' = [s \in Seqs |-> IF s \in Deleted(done) THEN NoCommand ELSE offline[s]]
      /\ left' = left \cup {offline[s] : s \in Rows \ Deleted(done)}
  BY <1>0 DEF AttachAgent, RowsAfterFlush
<1>2. c \in Conns /\ down \in [Conns -> Seq(Command)] /\ TypeOK /\ TableInv
  <2>1. dials < MaxDials
    BY DEF AttachAgent
  <2> QED BY <2>1, BoundsAssumption DEF IInv, TypeOK, Conns
<1>3. down'[link'] = frames
  BY <1>1, <1>2
<1> HIDE DEF c
<1>8. FlushFacts(frames, sent, done)
  BY <1>2, FlushSends
<1>9. /\ frames \in Seq(Command)
      /\ \A i \in DOMAIN frames : i \in DOMAIN FlushedFrames /\ frames[i] = FlushedFrames[i]
      /\ \A i \in DOMAIN frames : \E s \in Flushed : frames[i] = offline[s]
  BY <1>8 DEF FlushFacts
<1> HIDE DEF frames
<1>4. \A s \in Rows' : s \in Rows /\ offline'[s] \in left'
  BY <1>1 DEF Rows
<1>5. \A i, j \in DOMAIN ran : i < j => MayFollow(ran[i], ran[j])'
  BY <1>1 DEF OrderInv, MayFollow
<1>6. \A i \in DOMAIN ran, j \in DOMAIN frames : Passes(ran[i], frames[j]) => frames[j] \in left'
  <2> SUFFICES ASSUME NEW i \in DOMAIN ran, NEW j \in DOMAIN frames, Passes(ran[i], frames[j])
               PROVE  frames[j] \in left'
    OBVIOUS
  <2>1. PICK s \in Rows : frames[j] = offline[s]
    BY <1>9 DEF Flushed
  <2> QED BY <1>1, <2>1 DEF OrderInv, MayFollow
<1>7. \A i, j \in DOMAIN frames : i < j => ~Passes(frames[i], frames[j])
  <2> SUFFICES ASSUME NEW i \in DOMAIN frames, NEW j \in DOMAIN frames, i < j
               PROVE  ~Passes(frames[i], frames[j])
    OBVIOUS
  <2>1. frames[i] \in Command /\ frames[j] \in Command
    BY <1>9
  <2>2. frames[i].seq \in Nat /\ frames[j].seq \in Nat
    BY <2>1, SeqsFinite DEF Command
  <2>3. frames[i].seq < frames[j].seq
    BY <1>2, <1>9, FlushedRise
  <2> QED BY <2>2, <2>3 DEF Passes
<1> QED BY <1>1, <1>3, <1>4, <1>5, <1>6, <1>7 DEF OrderInv, MayFollow

LEMMA AgentTakesOrder ==
    ASSUME IInv, OrderInv, AgentTakes
    PROVE  OrderInv'
<1> DEFINE cmd == Head(down[link])
<1>1. /\ link # 0 /\ down[link] # <<>>
      /\ down' = [down EXCEPT ![link] = Tail(down[link])] /\ ran' = Append(ran, cmd)
      /\ UNCHANGED <<link, offline, left, listed>>
  BY DEF AgentTakes, roomVars
<1>2. /\ link \in Conns /\ down \in [Conns -> Seq(Command)] /\ down[link] \in Seq(Command)
      /\ ran \in Seq(Command)
  BY <1>1, BoundsAssumption DEF IInv, TypeOK, Conns
<1>3. /\ cmd \in Command /\ cmd = down[link][1] /\ 1 \in DOMAIN down[link]
      /\ down'[link] = Tail(down[link])
      /\ \A i \in DOMAIN down'[link] : /\ i \in Nat /\ i + 1 \in DOMAIN down[link] /\ i + 1 # 1
                                       /\ down'[link][i] = down[link][i + 1]
  BY <1>1, <1>2, TailFacts
<1>4. \A i \in DOMAIN down'[link] : 1 < i + 1
  BY <1>3
<1> HIDE DEF cmd
<1>5. /\ DOMAIN ran' = 1..(Len(ran) + 1) /\ DOMAIN ran = 1..Len(ran) /\ Len(ran) \in Nat
      /\ \A i \in DOMAIN ran : ran'[i] = ran[i]
      /\ ran'[Len(ran) + 1] = cmd
  BY <1>1, <1>2, <1>3, AppendFacts
<1>6. /\ \A i \in DOMAIN ran' : (i \in DOMAIN ran /\ ran'[i] = ran[i]) \/ (i = Len(ran) + 1 /\ ran'[i] = cmd)
      /\ \A i, j \in DOMAIN ran' : i < j => i \in DOMAIN ran
  BY <1>5
<1>7. \A i \in DOMAIN ran : MayFollow(ran[i], cmd)
  BY <1>1, <1>3 DEF OrderInv
<1>8. \A j \in DOMAIN down'[link] : MayFollow(cmd, down'[link][j])
  <2> SUFFICES ASSUME NEW j \in DOMAIN down'[link] PROVE MayFollow(cmd, down'[link][j])
    OBVIOUS
  <2>1. j + 1 \in DOMAIN down[link] /\ 1 < j + 1 /\ down'[link][j] = down[link][j + 1]
    BY <1>3, <1>4
  <2> QED BY <1>1, <1>3, <2>1 DEF OrderInv
<1>9. \A s \in Rows : MayFollow(cmd, offline[s])
  BY <1>1, <1>3 DEF OrderInv
<1>10. \A i, j \in DOMAIN ran' : i < j => MayFollow(ran'[i], ran'[j])
  <2> SUFFICES ASSUME NEW i \in DOMAIN ran', NEW j \in DOMAIN ran', i < j
               PROVE  MayFollow(ran'[i], ran'[j])
    OBVIOUS
  <2>1. i \in DOMAIN ran /\ ran'[i] = ran[i]
    BY <1>5, <1>6
  <2> QED BY <1>6, <1>7, <2>1 DEF OrderInv
<1>11. \A s \in Rows : \A i \in DOMAIN ran' : MayFollow(ran'[i], offline[s])
  BY <1>6, <1>9 DEF OrderInv
<1>12. \A i \in DOMAIN ran', j \in DOMAIN down'[link] : MayFollow(ran'[i], down'[link][j])
  <2> SUFFICES ASSUME NEW i \in DOMAIN ran', NEW j \in DOMAIN down'[link]
               PROVE  MayFollow(ran'[i], down'[link][j])
    OBVIOUS
  <2>1. i \in DOMAIN ran => MayFollow(ran[i], down'[link][j])
    BY <1>1, <1>3 DEF OrderInv
  <2> QED BY <1>6, <1>8, <2>1
<1>13. \A i, j \in DOMAIN down'[link] : i < j => MayFollow(down'[link][i], down'[link][j])
  <2> SUFFICES ASSUME NEW i \in DOMAIN down'[link], NEW j \in DOMAIN down'[link], i < j
               PROVE  MayFollow(down'[link][i], down'[link][j])
    OBVIOUS
  <2>1. i + 1 \in DOMAIN down[link] /\ j + 1 \in DOMAIN down[link] /\ i + 1 < j + 1
    BY <1>3
  <2> QED BY <1>1, <1>3, <2>1 DEF OrderInv
<1>14. \A s \in Rows : \A i \in DOMAIN down'[link] : MayFollow(down'[link][i], offline[s])
  BY <1>1, <1>3 DEF OrderInv
<1>15. /\ \A c, d : MayFollow(c, d)' <=> MayFollow(c, d)
       /\ Rows' = Rows /\ offline' = offline /\ link' = link
  BY <1>1 DEF MayFollow, Rows
<1>16. listed' # <<>> => \A s \in Rows' : offline'[s] \in left'
  BY <1>1, <1>15 DEF OrderInv
<1> QED BY <1>1, <1>10, <1>11, <1>12, <1>13, <1>14, <1>15, <1>16 DEF OrderInv, MayFollow

LEMMA PageSendsOrder ==
    ASSUME IInv, OrderInv, NEW p \in Pages, PageSends(p)
    PROVE  OrderInv'
<1> DEFINE cmd == [page |-> p, seq |-> seq[p] + 1]
           first == listed[1]
<1>1. Forward(cmd) /\ UNCHANGED <<listed, sock, link, ran, left>>
  BY DEF PageSends, history
<1>2. /\ seq \in [Pages -> Nat] /\ seq[p] \in Nat /\ MaxSeq[p] \in Nat /\ seq[p] < MaxSeq[p]
      /\ down \in [Conns -> Seq(Command)] /\ listed \in Seq(Conns) /\ ran \in Seq(Command)
      /\ offline \in [Seqs -> Command \cup {NoCommand}]
      /\ link # 0 => link \in Conns
  <2>1. /\ seq \in [Pages -> Nat] /\ seq[p] \in Nat /\ MaxSeq[p] \in Nat
        /\ down \in [Conns -> Seq(Command)] /\ listed \in Seq(Conns) /\ ran \in Seq(Command)
        /\ offline \in [Seqs -> Command \cup {NoCommand}]
    BY BoundsAssumption DEF IInv, TypeOK
  <2>2. link # 0 => link \in Conns
    BY BoundsAssumption DEF IInv, TypeOK, Conns
  <2> QED BY <2>1, <2>2 DEF PageSends
<1>3. cmd.page = p /\ cmd.seq = seq[p] + 1 /\ cmd \in Command /\ cmd.seq \in Seqs
  <2>1. cmd.seq \in 1..MaxSeq[p]
    BY <1>2
  <2> QED BY <2>1 DEF Command, Seqs
\* What was sent before is not passed by the new command.
<1>4. ASSUME NEW k \in Command, k.seq <= seq[k.page]
      PROVE  MayFollow(k, cmd)
  <2>1. k.seq \in Nat /\ (k.page = p => k.seq <= seq[p])
    BY <1>4, SeqsFinite DEF Command
  <2> QED BY <1>2, <1>3, <2>1 DEF MayFollow, Passes
<1> HIDE DEF cmd
<1>5. \A i \in DOMAIN ran : MayFollow(ran[i], cmd)
  BY <1>2, <1>4 DEF IInv, SentInv
<1>6. \A x \in Conns : \A i \in DOMAIN down[x] : MayFollow(down[x][i], cmd)
  BY <1>2, <1>4 DEF IInv, SentInv
<1>7. \A c, d : MayFollow(c, d)' <=> MayFollow(c, d)
  BY <1>1 DEF MayFollow
<1>8. CASE listed = <<>> /\ offline' = [offline EXCEPT ![cmd.seq] = cmd] /\ down' = down
  <2>1. offline' = [offline EXCEPT ![cmd.seq] = cmd] /\ down' = down
    BY <1>8
  <2>2. \A s \in Rows' : offline'[s] = cmd \/ (s \in Rows /\ offline'[s] = offline[s])
    BY <1>2, <1>3, <2>1 DEF Rows
  <2>3. \A s \in Rows' : \A i \in DOMAIN ran : MayFollow(ran[i], offline'[s])
    BY <1>5, <2>2 DEF OrderInv
  <2>4. link # 0 => \A s \in Rows' : \A i \in DOMAIN down[link] : MayFollow(down[link][i], offline'[s])
    BY <1>2, <1>6, <2>2 DEF OrderInv
  <2> QED BY <1>1, <1>7, <1>8, <2>1, <2>3, <2>4 DEF OrderInv, MayFollow
<1>9. CASE listed # <<>> /\ sock[first] = "open"
  <2>1. offline' = offline /\ down' = [down EXCEPT ![first] = Append(down[first], cmd)]
    BY <1>1, <1>9 DEF Forward
  <2>2. first \in Conns /\ down[first] \in Seq(Command)
    BY <1>2, <1>9
  <2> HIDE DEF first
  <2>3. CASE link # first
    <3>1. link # 0 => down'[link] = down[link]
      BY <1>2, <2>1, <2>3
    <3>2. Rows' = Rows
      BY <2>1 DEF Rows
    <3>3. link # 0 =>
            /\ \A i \in DOMAIN ran, j \in DOMAIN down'[link] : MayFollow(ran[i], down'[link][j])
            /\ \A i, j \in DOMAIN down'[link] : i < j => MayFollow(down'[link][i], down'[link][j])
            /\ \A s \in Rows : \A i \in DOMAIN down'[link] : MayFollow(down'[link][i], offline[s])
      BY <3>1 DEF OrderInv
    <3> QED BY <1>1, <1>7, <2>1, <3>2, <3>3 DEF OrderInv, MayFollow
  <2>4. CASE link = first
    <3>1. /\ down'[link] = Append(down[link], cmd) /\ link \in Conns /\ link # 0
          /\ DOMAIN down'[link] = 1..(Len(down[link]) + 1)
          /\ DOMAIN down[link] = 1..Len(down[link]) /\ Len(down[link]) \in Nat
          /\ \A i \in DOMAIN down[link] : down'[link][i] = down[link][i]
          /\ down'[link][Len(down[link]) + 1] = cmd
      <4>1. link # 0
        BY <2>2, <2>4 DEF Conns
      <4> QED BY <1>2, <1>3, <2>1, <2>2, <2>4, <4>1, AppendFacts
    <3>2. /\ \A i \in DOMAIN down'[link] : \/ i \in DOMAIN down[link] /\ down'[link][i] = down[link][i]
                                           \/ down'[link][i] = cmd
          /\ \A i, j \in DOMAIN down'[link] : i < j => i \in DOMAIN down[link]
      BY <3>1
    <3>3. \A i \in DOMAIN ran, j \in DOMAIN down'[link] : MayFollow(ran[i], down'[link][j])
      BY <1>5, <3>1, <3>2 DEF OrderInv
    <3>4. \A i, j \in DOMAIN down'[link] : i < j => MayFollow(down'[link][i], down'[link][j])
      <4> SUFFICES ASSUME NEW i \in DOMAIN down'[link], NEW j \in DOMAIN down'[link], i < j
                   PROVE  MayFollow(down'[link][i], down'[link][j])
        OBVIOUS
      <4>1. i \in DOMAIN down[link] /\ down'[link][i] = down[link][i]
        BY <3>1, <3>2
      <4>2. CASE j \in DOMAIN down[link]
        BY <3>1, <4>1, <4>2 DEF OrderInv
      <4>3. CASE down'[link][j] = cmd
        BY <1>6, <3>1, <4>1, <4>3
      <4> QED BY <3>2, <4>2, <4>3
    <3>5. \A s \in Rows : \A i \in DOMAIN down'[link] : MayFollow(down'[link][i], offline[s])
      <4>1. \A s \in Rows : offline[s] \in left
        BY <1>9 DEF OrderInv
      <4> QED BY <4>1 DEF MayFollow
    <3>6. Rows' = Rows
      BY <2>1 DEF Rows
    <3> QED BY <1>1, <1>7, <2>1, <3>1, <3>3, <3>4, <3>5, <3>6 DEF OrderInv, MayFollow
  <2> QED BY <2>3, <2>4
<1>10. CASE offline' = offline /\ down' = down
  BY <1>1, <1>10, OrderKept
<1>11. \/ listed = <<>> /\ offline' = [offline EXCEPT ![cmd.seq] = cmd] /\ down' = down
       \/ listed # <<>> /\ sock[first] = "open"
       \/ offline' = offline /\ down' = down
  BY <1>1 DEF Forward
<1> QED BY <1>8, <1>9, <1>10, <1>11

LEMMA OrderStep == IInv /\ OrderInv /\ [Next]_vars => OrderInv'
<1> SUFFICES ASSUME IInv, OrderInv, [Next]_vars PROVE OrderInv'
  OBVIOUS
<1>1. CASE UNCHANGED vars
  BY <1>1, OrderKept DEF vars, roomVars, agentVars, history
<1>2. CASE LinkBreaks \/ AgentHangsUp \/ AgentPings \/ Silence \/ Hibernate \/ Alarm
  BY <1>2, OrderKept
     DEF LinkBreaks, AgentHangsUp, AgentPings, Silence, Hibernate, Alarm, roomVars, agentVars, history
<1>3. ASSUME NEW c \in Conns, AgentAnswers(c) PROVE OrderInv'
  BY <1>3, OrderKept DEF AgentAnswers, history
<1>4. ASSUME NEW c \in Conns, SocketCloses(c) PROVE OrderInv'
  <2>1. listed # <<>> /\ UNCHANGED <<offline, down, ran, left, link>>
    BY <1>4 DEF SocketCloses, agentVars, history
  <2> QED BY <2>1, OrderKept
<1> QED BY <1>1, <1>2, <1>3, <1>4, AttachAgentOrder, AgentTakesOrder, PageSendsOrder DEF Next

(* The commands of a page start in the order in which it sent them, unless  *)
(* one was left behind by a flush: relay.ts numbers them, and the room's    *)
(* table, its forwarding and its flush keep to the numbers.                 *)
THEOREM PageOrderIsKept == Spec => []RunsInOrder
<1>1. OrderInv => RunsInOrder
  BY DEF OrderInv, MayFollow, Passes, RunsInOrder
<1> QED BY <1>1, OrderInit, OrderStep, Invariant, PTL DEF Spec
=============================================================================
