--------------------------- MODULE Readers_proofs ---------------------------
(***************************************************************************)
(* Proofs about Readers, for every number of queries, rounds and hits, and *)
(* whatever lines and snapshots a worker leaves behind.                    *)
(***************************************************************************)
EXTENDS Readers, Integers, FiniteSetTheorems, SequenceTheorems, NaturalsInduction,
        TLAPS

(***************************************************************************)
(* Numbers.                                                                *)
(***************************************************************************)
(* A set of numbers with 0 and every successor has them all.               *)
LEMMA InductiveSet ==
  ASSUME NEW S \in SUBSET Nat, 0 \in S, \A n \in S : n + 1 \in S
  PROVE  S = Nat
<1> DEFINE R == {ss \in Nat \X Nat : ss[1] < ss[2]}
           T == Nat \ S
<1>1. IsWellFoundedOn(OpToRel(<, Nat), Nat)
  BY NatLessThanWellFounded
<1>2. IsWellFoundedOn(R, Nat)
  BY <1>1 DEF OpToRel
<1>3. SUFFICES ASSUME T # {} PROVE FALSE
  OBVIOUS
<1>4. PICK x \in T : \A y \in T : <<y, x>> \notin R
  <2> HIDE DEF R
  <2>1. T \in SUBSET Nat
    OBVIOUS
  <2>2. QED
    BY <1>2, <1>3, <2>1, WFMin
<1>5. x \in Nat /\ x # 0 /\ x - 1 \in Nat
  OBVIOUS
<1>6. <<x - 1, x>> \in R
  BY <1>5
<1>7. x - 1 \in S
  BY <1>4, <1>5, <1>6
<1>8. QED
  BY <1>5, <1>7

(* Division with remainder.                                                *)
LEMMA Divided ==
  ASSUME NEW n \in Nat, NEW d \in Nat \ {0}
  PROVE  /\ n \div d \in Nat /\ n % d \in 0 .. d - 1
         /\ n = (n \div d) * d + (n % d)
OBVIOUS

(* Products.                                                               *)
LEMMA Fewer ==
  ASSUME NEW d \in Nat \ {0}, NEW p \in Nat, NEW m \in Nat, p < m
  PROVE  p * d \in Nat /\ m * d \in Nat /\ p * d + d <= m * d
OBVIOUS

(* Quotient and remainder are the only ones.                               *)
LEMMA DividedOnce ==
  ASSUME NEW d \in Nat \ {0}, NEW p \in Nat, NEW r \in 0 .. d - 1
  PROVE  (p * d + r) \div d = p /\ (p * d + r) % d = r
<1> DEFINE n == p * d + r
           q == n \div d
           s == n % d
<1>0. p * d \in Nat /\ n \in Nat
  OBVIOUS
<1>1. q \in Nat /\ s \in 0 .. d - 1 /\ n = q * d + s
  BY <1>0, Divided
<1>2. q * d \in Nat
  BY <1>1
<1> HIDE DEF q, s
<1>3. ~(q < p)
  <2> SUFFICES ASSUME q < p PROVE FALSE
    OBVIOUS
  <2>1. q * d + d <= p * d
    BY <1>1, Fewer
  <2>2. QED
    BY <1>0, <1>1, <1>2, <2>1
<1>4. ~(p < q)
  <2> SUFFICES ASSUME p < q PROVE FALSE
    OBVIOUS
  <2>1. p * d + d <= q * d
    BY <1>1, Fewer
  <2>2. QED
    BY <1>0, <1>1, <1>2, <2>1
<1>5. q = p
  BY <1>1, <1>3, <1>4
<1>6. s = r
  BY <1>0, <1>1, <1>2, <1>5
<1>7. QED
  BY <1>5, <1>6 DEF q, s

(* A function on 1..n has n values if and only if no two of them are equal.*)
LEMMA DistinctValues ==
  ASSUME NEW n \in Nat, NEW f, DOMAIN f = 1 .. n
  PROVE  LET T == {f[i] : i \in 1 .. n}
         IN  Cardinality(T) = n <=> \A i, j \in 1 .. n : f[i] = f[j] => i = j
<1> DEFINE T == {f[i] : i \in 1 .. n}
           g == [i \in 1 .. n |-> f[i]]
<1>1. IsFiniteSet(1 .. n) /\ Cardinality(1 .. n) = n
  BY FS_Interval
<1>2. g \in Surjection(1 .. n, T)
  BY DEF Surjection
<1>3. Cardinality(T) = n <=> g \in Injection(1 .. n, T)
  <2> HIDE DEF T, g
  <2>1. QED
    BY <1>1, <1>2, FS_Surjection
<1>4. g \in Injection(1 .. n, T) <=> \A i, j \in 1 .. n : f[i] = f[j] => i = j
  BY DEF Injection, IsInjective
<1>5. QED
  BY <1>3, <1>4
-----------------------------------------------------------------------------
(***************************************************************************)
(* The reader of C API files.                                              *)
(***************************************************************************)
Sample == [round : 0 .. Warmup + Rounds, query : 0 .. Queries - 1,
           warmup : BOOLEAN, latency : {0, 1}, hits : Seq(Row), exact : BOOLEAN]

StreamTypes ==
  /\ hits \in Seq(HitLine) /\ events \in Seq(Lifecycle)
  /\ current \in Seq(Sample) /\ Len(current) <= 1
  /\ samples \in Nat
  /\ verdict \in {"reading", "accepted", "rejected"}

(* The lifecycle events read are those on the lines, each once.            *)
EventsAreOnce ==
  /\ lifecycle = {events[i] : i \in DOMAIN events}
  /\ IsInjective(events)

(* Where hit j of sample p is.                                             *)
At(p, j) == p * K + j

(* The expected answer to query q: k distinct rows, by increasing distance.*)
Answer(rows, q) ==
  /\ rows \in [1 .. K -> Row] /\ rows = Expected[q]
  /\ \A i, j \in 1 .. K : Id[rows[i]] = Id[rows[j]] => i = j
  /\ \A i \in 1 .. K - 1 : Distance[q][rows[i]] <= Distance[q][rows[i + 1]]

FirstIsValid ==
  /\ first \in Seq([1 .. K -> Row])
  /\ Len(first) = IF samples < Queries THEN samples ELSE Queries
  /\ \A q \in 1 .. Len(first) : Answer(first[q], q - 1)

(* Hit j of sample p is the one of a measurement that the first round      *)
(* began with these rows.                                                  *)
IsHitOf(h, p, j) ==
  /\ h.round = p \div Queries /\ h.query = p % Queries /\ h.rank = j - 1
  /\ h.warmup = (h.round < Warmup)
  /\ h.latency > 0 /\ h.exact

JudgedHits ==
  \A p \in 0 .. samples - 1 : \A j \in 1 .. K :
    /\ IsHitOf(hits[At(p, j)], p, j)
    /\ hits[At(p, j)].latency = hits[At(p, 1)].latency
    /\ hits[At(p, j)].row = first[(p % Queries) + 1][j]

(* The pending sample is what was read after the judged ones.              *)
IsOf(h, s, j) ==
  /\ h.round = s.round /\ h.query = s.query /\ h.warmup = s.warmup
  /\ h.latency = s.latency /\ h.rank = j - 1 /\ h.row = s.hits[j]

PendingHits ==
  IF current = <<>> THEN Len(hits) = samples * K
  ELSE /\ Len(current[1].hits) # 0
       /\ Len(hits) = samples * K + Len(current[1].hits)
       /\ \A j \in 1 .. Len(current[1].hits) :
            IsOf(hits[At(samples, j)], current[1], j)
       /\ current[1].exact <=>
            \A j \in 1 .. Len(current[1].hits) : hits[At(samples, j)].exact

AcceptedIsAll ==
  verdict = "accepted" =>
    current = <<>> /\ samples = Total /\ lifecycle = Lifecycle

StreamInv ==
  /\ StreamTypes /\ EventsAreOnce /\ FirstIsValid
  /\ JudgedHits /\ PendingHits /\ AcceptedIsAll

(* The sizes.                                                              *)
LEMMA Sizes ==
  /\ Queries \in Nat \ {0} /\ K \in Nat \ {0} /\ Rounds \in Nat \ {0}
  /\ Warmup \in Nat /\ Total \in Nat
<1>1. Queries \in Nat \ {0} /\ K \in Nat \ {0} /\ Rounds \in Nat \ {0} /\ Warmup \in Nat
  BY ReaderParameters DEF Parameters
<1>2. QED
  BY <1>1 DEF Total

LEMMA StreamConstants ==
  /\ IsFiniteSet(Lifecycle) /\ "sample" \notin Lifecycle
  /\ Distance \in [0 .. Queries - 1 -> [Row -> Nat]]
  /\ Expected \in [0 .. Queries - 1 -> [1 .. K -> Row]]
  /\ Line \subseteq LifecycleLine \cup HitLine
BY ReaderParameters DEF Parameters

(* Every index is that of one hit of one sample.                           *)
LEMMA PlaceOfHit ==
  ASSUME NEW p \in Nat, NEW j \in 1 .. K
  PROVE  /\ At(p, j) \in Nat \ {0}
         /\ Position(At(p, j)) = p /\ (At(p, j) - 1) % K = j - 1
<1>1. p * K \in Nat /\ j - 1 \in 0 .. K - 1
  BY Sizes
<1>2. (p * K + (j - 1)) \div K = p /\ (p * K + (j - 1)) % K = j - 1
  BY <1>1, DividedOnce, Sizes
<1>3. At(p, j) \in Nat \ {0} /\ At(p, j) - 1 = p * K + (j - 1)
  BY <1>1 DEF At
<1>4. QED
  BY <1>2, <1>3 DEF Position

LEMMA HitAtPlace ==
  ASSUME NEW i \in Nat \ {0}
  PROVE  /\ Position(i) \in Nat /\ ((i - 1) % K) + 1 \in 1 .. K
         /\ i = At(Position(i), ((i - 1) % K) + 1)
<1>1. i - 1 \in Nat
  OBVIOUS
<1>2. /\ (i - 1) \div K \in Nat /\ (i - 1) % K \in 0 .. K - 1
      /\ i - 1 = ((i - 1) \div K) * K + ((i - 1) % K)
  BY <1>1, Divided, Sizes
<1>3. ((i - 1) \div K) * K \in Nat
  BY <1>2, Sizes
<1>4. i = ((i - 1) \div K) * K + (((i - 1) % K) + 1)
  BY <1>2, <1>3, Sizes
<1>5. ((i - 1) % K) + 1 \in 1 .. K
  BY <1>2, Sizes
<1>6. QED
  BY <1>2, <1>4, <1>5 DEF At, Position

(* The hits of a sample come before those of a later one.                  *)
LEMMA HitBefore ==
  ASSUME NEW m \in Nat, NEW p \in 0 .. m - 1, NEW j \in 1 .. K
  PROVE  At(p, j) \in 1 .. m * K
<1>1. p * K \in Nat /\ m * K \in Nat /\ p * K + K <= m * K
  BY Sizes, Fewer
<1>2. QED
  BY <1>1, Sizes DEF At

LEMMA PlaceBefore ==
  ASSUME NEW m \in Nat, NEW i \in 1 .. m * K
  PROVE  Position(i) \in 0 .. m - 1
<1> DEFINE p == Position(i)
           j == ((i - 1) % K) + 1
<1>0. m * K \in Nat
  BY Sizes
<1>1. p \in Nat /\ j \in 1 .. K /\ i = At(p, j)
  BY <1>0, HitAtPlace
<1> HIDE DEF p, j
<1>2. p < m
  <2> SUFFICES ASSUME m <= p PROVE FALSE
    BY <1>1
  <2>1. p * K \in Nat /\ m * K <= p * K
    <3>1. CASE m = p
      BY <1>0, <3>1
    <3>2. CASE m < p
      BY <1>1, <3>2, Sizes, Fewer
    <3>3. QED
      BY <1>1, <3>1, <3>2
  <2>2. QED
    BY <1>0, <1>1, <2>1 DEF At
<1>3. QED
  BY <1>1, <1>2 DEF p

(* The order of the samples: queries in order, round by round.             *)
LEMMA SamplePlace ==
  ASSUME NEW p \in Nat
  PROVE  /\ p \div Queries \in Nat /\ p % Queries \in 0 .. Queries - 1
         /\ p < Queries => p % Queries = p
         /\ (p + Queries) % Queries = p % Queries
<1> DEFINE q == p \div Queries
           r == p % Queries
<1>1. q \in Nat /\ r \in 0 .. Queries - 1 /\ p = q * Queries + r
  BY Sizes, Divided
<1>2. p < Queries => p % Queries = p
  <2>1. p < Queries => (0 * Queries + p) % Queries = p
    BY Sizes, DividedOnce
  <2>2. 0 * Queries + p = p
    BY Sizes
  <2>3. QED
    BY <2>1, <2>2
<1> HIDE DEF q, r
<1>3. (p + Queries) % Queries = r
  <2>1. q * Queries \in Nat /\ p + Queries = (q + 1) * Queries + r
    BY <1>1, Sizes
  <2>2. ((q + 1) * Queries + r) % Queries = r
    BY <1>1, Sizes, DividedOnce
  <2>3. QED
    BY <2>1, <2>2
<1>4. QED
  BY <1>1, <1>2, <1>3 DEF q, r

LEMMA SameSample ==
  ASSUME NEW p \in Nat, NEW m \in Nat,
         p \div Queries = m \div Queries, p % Queries = m % Queries
  PROVE  p = m
<1>1. p = (p \div Queries) * Queries + (p % Queries)
  BY Sizes, Divided
<1>2. m = (m \div Queries) * Queries + (m % Queries)
  BY Sizes, Divided
<1>3. QED
  BY <1>1, <1>2

-----------------------------------------------------------------------------
LEMMA StreamInit == Init => StreamInv
<1> SUFFICES ASSUME Init PROVE StreamInv
  OBVIOUS
<1> USE DEF Init
<1>1. StreamTypes
  BY DEF StreamTypes
<1>2. EventsAreOnce
  BY DEF EventsAreOnce, IsInjective
<1>3. FirstIsValid
  BY Sizes DEF FirstIsValid
<1>4. JudgedHits
  BY DEF JudgedHits
<1>5. PendingHits
  BY Sizes DEF PendingHits
<1>6. AcceptedIsAll
  BY DEF AcceptedIsAll
<1>7. QED
  BY <1>1, <1>2, <1>3, <1>4, <1>5, <1>6 DEF StreamInv

(* The judged hits have been read, and so has the pending sample.          *)
LEMMA HitsRead ==
  ASSUME StreamInv
  PROVE  /\ samples * K \in 0 .. Len(hits)
         /\ current = <<>> => Len(hits) = samples * K
         /\ current # <<>> =>
              /\ current = <<current[1]>> /\ current[1] \in Sample
              /\ Len(current[1].hits) \in Nat \ {0}
              /\ Len(hits) = samples * K + Len(current[1].hits)
<1>1. samples * K \in Nat
  BY Sizes DEF StreamInv, StreamTypes
<1>2. CASE current = <<>>
  BY <1>1, <1>2 DEF StreamInv, PendingHits
<1>3. CASE current # <<>>
  <2>1. current = <<current[1]>> /\ current[1] \in Sample
    <3>1. current \in Seq(Sample) /\ Len(current) <= 1
      BY DEF StreamInv, StreamTypes
    <3>2. Len(current) = 1
      BY <1>3, <3>1, EmptySeq
    <3>3. QED
      BY <3>1, <3>2
  <2>2. Len(current[1].hits) \in Nat
    BY <2>1 DEF Sample
  <2>3. QED
    BY <1>1, <1>3, <2>1, <2>2 DEF StreamInv, PendingHits
<1>4. QED
  BY <1>2, <1>3

(* A line more, and what was read stays.                                   *)
LEMMA HitAppended ==
  ASSUME hits \in Seq(HitLine), NEW l \in HitLine, hits' = Append(hits, l)
  PROVE  /\ hits' \in Seq(HitLine) /\ Len(hits') = Len(hits) + 1
         /\ \A i \in 1 .. Len(hits) : hits'[i] = hits[i]
         /\ hits'[Len(hits) + 1] = l
OBVIOUS

LEMMA JudgedKept ==
  ASSUME StreamInv, UNCHANGED <<samples, first>>,
         \A i \in 1 .. Len(hits) : hits'[i] = hits[i]
  PROVE  JudgedHits' /\ FirstIsValid'
<1>1. samples \in Nat /\ samples * K \in 0 .. Len(hits)
  BY HitsRead DEF StreamInv, StreamTypes
<1>2. ASSUME NEW p \in 0 .. samples - 1, NEW j \in 1 .. K
      PROVE  hits'[At(p, j)] = hits[At(p, j)] /\ hits'[At(p, 1)] = hits[At(p, 1)]
  <2>1. At(p, j) \in 1 .. samples * K /\ At(p, 1) \in 1 .. samples * K
    BY <1>1, HitBefore, Sizes
  <2>2. QED
    BY <1>1, <2>1
<1>3. JudgedHits'
  BY <1>2 DEF StreamInv, JudgedHits, IsHitOf, At
<1>4. FirstIsValid'
  BY DEF StreamInv, FirstIsValid, Answer
<1>5. QED
  BY <1>3, <1>4

(* A pending sample that qualifies is the next one of a measurement.       *)
LEMMA JudgedSample ==
  ASSUME StreamInv, current # <<>>, Qualifies(current[1])
  PROVE  LET rows == current[1].hits
             q    == samples % Queries
         IN  /\ Len(hits) = (samples + 1) * K
             /\ \A j \in 1 .. K :
                  /\ IsHitOf(hits[At(samples, j)], samples, j)
                  /\ hits[At(samples, j)].latency = hits[At(samples, 1)].latency
                  /\ hits[At(samples, j)].row = rows[j]
             /\ Answer(rows, q)
             /\ samples >= Queries => rows = first[q + 1]
<1> DEFINE s == current[1]
           rows == s.hits
           q == samples % Queries
<1>1. s \in Sample /\ Len(hits) = samples * K + Len(rows) /\ Len(rows) = K
  BY HitsRead DEF Qualifies, ValidHits
<1>2. rows \in Seq(Row) /\ rows \in [1 .. K -> Row]
  BY <1>1 DEF Sample
<1>3. samples \in Nat /\ s.round = samples \div Queries /\ s.query = q
      /\ s.warmup = (s.round < Warmup) /\ s.latency > 0 /\ s.exact
  BY DEF Qualifies, InSequence, ValidHits, StreamInv, StreamTypes
<1>4. Len(hits) = (samples + 1) * K
  BY <1>1, <1>3, Sizes
<1>5. \A j \in 1 .. K : /\ IsOf(hits[At(samples, j)], s, j)
                        /\ hits[At(samples, j)].exact
  BY <1>1, <1>3 DEF StreamInv, PendingHits
<1>6. \A j \in 1 .. K :
        /\ IsHitOf(hits[At(samples, j)], samples, j)
        /\ hits[At(samples, j)].latency = hits[At(samples, 1)].latency
        /\ hits[At(samples, j)].row = rows[j]
  <2> HIDE DEF s
  <2>1. 1 \in 1 .. K
    BY Sizes
  <2>2. QED
    BY <1>3, <1>5, <2>1 DEF IsOf, IsHitOf
<1>7. Answer(rows, q)
  <2> DEFINE ids == [i \in 1 .. K |-> Id[rows[i]]]
  <2>1. DOMAIN rows = 1 .. K /\ DOMAIN ids = 1 .. K /\ K \in Nat
    BY <1>2, Sizes
  <2>2. Cardinality({ids[i] : i \in 1 .. K}) = K
    <3>1. Cardinality({Id[rows[i]] : i \in DOMAIN rows}) = K
      BY DEF Qualifies, ValidHits
    <3>2. {ids[i] : i \in 1 .. K} = {Id[rows[i]] : i \in DOMAIN rows}
      BY <2>1
    <3>3. QED
      BY <3>1, <3>2
  <2>3. \A i, j \in 1 .. K : Id[rows[i]] = Id[rows[j]] => i = j
    <3> HIDE DEF ids
    <3>1. \A i, j \in 1 .. K : ids[i] = ids[j] => i = j
      BY <2>1, <2>2, DistinctValues
    <3>2. QED
      BY <3>1 DEF ids
  <2>4. \A i \in 1 .. K - 1 : Distance[q][rows[i]] <= Distance[q][rows[i + 1]]
    BY <1>3 DEF Qualifies, ValidHits
  <2>5. rows = Expected[q]
    BY <1>3 DEF Qualifies, AsExpected
  <2>6. QED
    BY <1>2, <2>3, <2>4, <2>5 DEF Answer
<1>8. samples >= Queries => rows = first[q + 1]
  <2>1. samples >= Queries => Len(first) = Queries
    BY <1>3, Sizes DEF StreamInv, FirstIsValid
  <2>2. q < Queries
    BY <1>3, SamplePlace, Sizes
  <2>3. QED
    BY <1>3, <2>1, <2>2 DEF Qualifies, Repeated
<1>9. QED
  BY <1>4, <1>6, <1>7, <1>8

(* Nothing changes when there is no pending sample; otherwise it becomes a *)
(* judged one.                                                             *)
LEMMA CountStep ==
  ASSUME StreamInv, Judged, Count, \A i \in 1 .. Len(hits) : hits'[i] = hits[i]
  PROVE  /\ samples' \in Nat /\ Len(hits) = samples' * K
         /\ FirstIsValid' /\ JudgedHits'
<1>0. samples \in Nat /\ samples * K \in 0 .. Len(hits) /\ Len(hits) \in Nat
  BY HitsRead DEF StreamInv, StreamTypes
<1>1. CASE current = <<>>
  <2>1. UNCHANGED <<samples, first>>
    BY <1>0, <1>1 DEF Count
  <2>2. QED
    BY <1>0, <1>1, <2>1, HitsRead, JudgedKept
<1>2. CASE current # <<>>
  <2> DEFINE rows == current[1].hits
             q == samples % Queries
  <2>1. Len(current) = 1 /\ Qualifies(current[1])
    BY <1>2, HitsRead DEF Judged
  <2>2. /\ Len(hits) = (samples + 1) * K
        /\ \A j \in 1 .. K :
             /\ IsHitOf(hits[At(samples, j)], samples, j)
             /\ hits[At(samples, j)].latency = hits[At(samples, 1)].latency
             /\ hits[At(samples, j)].row = rows[j]
        /\ Answer(rows, q)
        /\ samples >= Queries => rows = first[q + 1]
    BY <1>2, <2>1, JudgedSample
  <2>3. samples' = samples + 1
        /\ first' = IF samples < Queries THEN Append(first, rows) ELSE first
    BY <1>2, <2>1 DEF Count
  <2>4. /\ first \in Seq([1 .. K -> Row]) /\ rows \in [1 .. K -> Row]
        /\ Len(first) = IF samples < Queries THEN samples ELSE Queries
        /\ \A i \in 1 .. Len(first) : Answer(first[i], i - 1)
    BY <2>2 DEF StreamInv, FirstIsValid, Answer
  <2>5. q \in 0 .. Queries - 1 /\ (samples < Queries => q = samples)
    BY <1>0, SamplePlace
  <2> HIDE DEF rows, q
  <2>6. /\ first' \in Seq([1 .. K -> Row])
        /\ Len(first') = IF samples' < Queries THEN samples' ELSE Queries
        /\ \A i \in 1 .. Len(first) : first'[i] = first[i]
        /\ q + 1 \in 1 .. Len(first') /\ first'[q + 1] = rows
    <3>1. /\ first \in Seq([1 .. K -> Row]) /\ rows \in [1 .. K -> Row]
          /\ Len(first) = IF samples < Queries THEN samples ELSE Queries
          /\ samples >= Queries => rows = first[q + 1]
      BY <2>2, <2>4
    <3>2. CASE samples < Queries
      <4>1. first' = Append(first, rows) /\ Len(first) = samples /\ q = samples
        BY <2>3, <2>5, <3>1, <3>2
      <4>2. Len(first') = samples + 1 /\ first' \in Seq([1 .. K -> Row])
            /\ first'[samples + 1] = rows
            /\ \A i \in 1 .. Len(first) : first'[i] = first[i]
        BY <1>0, <3>1, <4>1
      <4>3. QED
        BY <1>0, <2>3, <3>2, <4>1, <4>2, Sizes
    <3>3. CASE ~(samples < Queries)
      <4>1. first' = first /\ Len(first) = Queries /\ rows = first[q + 1]
        BY <1>0, <2>3, <3>1, <3>3, Sizes
      <4>2. QED
        BY <1>0, <2>3, <2>5, <3>1, <3>3, <4>1, Sizes
    <3>4. QED
      BY <3>2, <3>3
  <2>7. FirstIsValid'
    <3>1. ASSUME NEW i \in 1 .. Len(first') PROVE Answer(first'[i], i - 1)
      <4>1. CASE i \in 1 .. Len(first)
        BY <2>4, <2>6, <4>1
      <4>2. CASE i \notin 1 .. Len(first)
        <5>1. i = q + 1
          BY <1>0, <2>3, <2>4, <2>5, <2>6, <4>2, Sizes
        <5>2. QED
          BY <2>2, <2>5, <2>6, <5>1
      <4>3. QED
        BY <4>1, <4>2
    <3>2. QED
      BY <2>6, <3>1 DEF FirstIsValid, Answer
  <2>8. JudgedHits'
    <3>1. ASSUME NEW p \in 0 .. samples, NEW j \in 1 .. K
          PROVE  hits'[At(p, j)] = hits[At(p, j)] /\ hits'[At(p, 1)] = hits[At(p, 1)]
      <4>1. samples + 1 \in Nat /\ p \in 0 .. (samples + 1) - 1 /\ 1 \in 1 .. K
        BY <1>0, Sizes
      <4>2. At(p, j) \in 1 .. Len(hits) /\ At(p, 1) \in 1 .. Len(hits)
        BY <2>2, <4>1, HitBefore
      <4>3. QED
        BY <4>2
    <3>2. ASSUME NEW p \in 0 .. samples, NEW j \in 1 .. K
          PROVE  /\ IsHitOf(hits[At(p, j)], p, j)
                 /\ hits[At(p, j)].latency = hits[At(p, 1)].latency
                 /\ hits[At(p, j)].row = first'[(p % Queries) + 1][j]
      <4>1. CASE p = samples
        BY <2>2, <2>6, <4>1 DEF q
      <4>2. CASE p # samples
        <5>1. p \in 0 .. samples - 1 /\ p \in Nat
          BY <1>0, <4>2
        <5>2. p % Queries \in 0 .. Queries - 1 /\ (p < Queries => p % Queries = p)
          BY <5>1, SamplePlace
        <5>3. (p % Queries) + 1 \in 1 .. Len(first)
          BY <1>0, <2>4, <5>1, <5>2, Sizes
        <5>4. first'[(p % Queries) + 1] = first[(p % Queries) + 1]
          BY <2>6, <5>3
        <5>5. QED
          BY <5>1, <5>4 DEF StreamInv, JudgedHits
      <4>3. QED
        BY <4>1, <4>2
    <3>3. 0 .. samples' - 1 = 0 .. samples
      BY <1>0, <2>3
    <3>4. \A p \in 0 .. samples' - 1 : \A j \in 1 .. K :
            /\ IsHitOf(hits'[At(p, j)], p, j)
            /\ hits'[At(p, j)].latency = hits'[At(p, 1)].latency
            /\ hits'[At(p, j)].row = first'[(p % Queries) + 1][j]
      BY <3>1, <3>2, <3>3
    <3>5. QED
      BY <3>4 DEF JudgedHits
  <2>9. QED
    BY <1>0, <2>2, <2>3, <2>7, <2>8
<1>3. QED
  BY <1>1, <1>2

LEMMA LineTypes ==
  ASSUME NEW l \in Line
  PROVE  IF l.event = "sample" THEN l \in HitLine ELSE l.event \in Lifecycle
BY StreamConstants DEF HitLine, LifecycleLine

LEMMA LifecycleStep ==
  ASSUME StreamInv, NEW l \in Line, Read(l), ReadLifecycle(l)
  PROVE  StreamInv'
<1> USE DEF StreamInv
<1>1. l.event \in Lifecycle /\ l.event \notin lifecycle
  BY LineTypes DEF ReadLifecycle, Read, Takes
<1>2. /\ events' = Append(events, l.event) /\ lifecycle' = lifecycle \cup {l.event}
      /\ UNCHANGED <<hits, current, samples, first, verdict>> /\ verdict = "reading"
  BY DEF ReadLifecycle, Read
<1>3. StreamTypes'
  BY <1>1, <1>2 DEF StreamTypes
<1>4. EventsAreOnce'
  <2>1. events \in Seq(Lifecycle) /\ Len(events) \in Nat
    BY DEF StreamTypes
  <2>2. /\ DOMAIN events' = (DOMAIN events) \cup {Len(events) + 1}
        /\ \A i \in DOMAIN events : i # Len(events) + 1 /\ events'[i] = events[i]
        /\ events'[Len(events) + 1] = l.event
    BY <1>1, <1>2, <2>1
  <2>3. \A i \in DOMAIN events : events[i] # l.event
    BY <1>1 DEF EventsAreOnce
  <2>4. lifecycle' = {events'[i] : i \in DOMAIN events'}
    BY <1>2, <2>2 DEF EventsAreOnce
  <2>5. \A i, j \in DOMAIN events' : events'[i] = events'[j] => i = j
    BY <2>2, <2>3 DEF EventsAreOnce, IsInjective
  <2>6. QED
    BY <2>4, <2>5 DEF EventsAreOnce, IsInjective
<1>5. JudgedHits' /\ FirstIsValid'
  BY <1>2, JudgedKept
<1>6. PendingHits'
  BY <1>2 DEF PendingHits, IsOf, At
<1>7. AcceptedIsAll'
  BY <1>2 DEF AcceptedIsAll
<1>8. QED
  BY <1>3, <1>4, <1>5, <1>6, <1>7

LEMMA SampleChanged ==
  ASSUME NEW s \in Sample, NEW rows \in Seq(Row), NEW b \in BOOLEAN
  PROVE  [s EXCEPT !.hits = rows, !.exact = b] \in Sample
BY DEF Sample

LEMMA ContinueStep ==
  ASSUME StreamInv, NEW l \in Line, Read(l), ContinueSample(l)
  PROVE  StreamInv'
<1> DEFINE s == current[1]
           c == Len(s.hits)
           t == [s EXCEPT !.hits = Append(@, l.row), !.exact = @ /\ l.exact]
<1>1. l \in HitLine /\ current # <<>> /\ l.round = s.round /\ l.query = s.query
      /\ l.rank = c /\ l.latency = s.latency /\ l.warmup = s.warmup
  BY LineTypes DEF ContinueSample, Belongs, Read, Takes, Fits
<1>2. /\ hits' = Append(hits, l) /\ current' = <<t>>
      /\ UNCHANGED <<events, lifecycle, samples, first, verdict>> /\ verdict = "reading"
  BY DEF ContinueSample, Read
<1>3. hits \in Seq(HitLine) /\ samples \in Nat /\ s \in Sample
      /\ c \in Nat \ {0} /\ Len(hits) = samples * K + c /\ samples * K \in Nat
  BY <1>1, HitsRead DEF StreamInv, StreamTypes
<1>4. /\ hits' \in Seq(HitLine) /\ Len(hits') = Len(hits) + 1
      /\ \A i \in 1 .. Len(hits) : hits'[i] = hits[i]
      /\ hits'[Len(hits) + 1] = l
  BY <1>1, <1>2, <1>3, HitAppended
<1>5. /\ t \in Sample /\ Len(t.hits) = c + 1
      /\ t.round = s.round /\ t.query = s.query /\ t.warmup = s.warmup
      /\ t.latency = s.latency /\ t.exact = (s.exact /\ l.exact)
      /\ t.hits[c + 1] = l.row /\ \A j \in 1 .. c : t.hits[j] = s.hits[j]
  <2>1. s.hits \in Seq(Row) /\ l.row \in Row /\ l.exact \in BOOLEAN /\ s.exact \in BOOLEAN
    BY <1>1, <1>3 DEF Sample, HitLine
  <2>2. t.hits = Append(s.hits, l.row) /\ t.exact = (s.exact /\ l.exact)
    BY <1>3 DEF Sample
  <2>3. t.hits \in Seq(Row) /\ Len(t.hits) = c + 1
        /\ t.hits[c + 1] = l.row /\ \A j \in 1 .. c : t.hits[j] = s.hits[j]
    <3> HIDE DEF s, t
    <3>1. QED
      BY <2>1, <2>2
  <2>4. /\ t.round = s.round /\ t.query = s.query /\ t.warmup = s.warmup
        /\ t.latency = s.latency
    BY <1>3 DEF Sample
  <2>5. t \in Sample
    <3>1. t = [s EXCEPT !.hits = Append(s.hits, l.row), !.exact = (s.exact /\ l.exact)]
      OBVIOUS
    <3>2. Append(s.hits, l.row) \in Seq(Row) /\ (s.exact /\ l.exact) \in BOOLEAN
      BY <2>1
    <3> HIDE DEF s, t
    <3>3. QED
      BY <1>3, <3>1, <3>2, SampleChanged
  <2>6. QED
    BY <2>2, <2>3, <2>4, <2>5
<1>6. StreamTypes'
  BY <1>2, <1>4, <1>5 DEF StreamInv, StreamTypes
<1>7. EventsAreOnce' /\ AcceptedIsAll'
  BY <1>2 DEF StreamInv, EventsAreOnce, AcceptedIsAll
<1>8. JudgedHits' /\ FirstIsValid'
  BY <1>2, <1>4, JudgedKept
<1>9. PendingHits'
  <2>1. \A j \in 1 .. c : /\ At(samples, j) \in 1 .. Len(hits)
                          /\ hits'[At(samples, j)] = hits[At(samples, j)]
    BY <1>3, <1>4 DEF At
  <2>2. At(samples, c + 1) = Len(hits) + 1
    BY <1>3 DEF At
  <2>3. /\ \A j \in 1 .. c : IsOf(hits[At(samples, j)], s, j)
        /\ s.exact <=> \A j \in 1 .. c : hits[At(samples, j)].exact
    BY <1>1 DEF StreamInv, PendingHits
  <2> HIDE DEF s, c, t
  <2>4. 1 .. c + 1 = (1 .. c) \cup {c + 1}
    BY <1>3
  <2>5. \A j \in 1 .. c + 1 : IsOf(hits'[At(samples, j)], t, j)
    <3>1. IsOf(hits'[At(samples, c + 1)], t, c + 1)
      BY <1>1, <1>3, <1>4, <1>5, <2>2 DEF IsOf
    <3>2. \A j \in 1 .. c : IsOf(hits'[At(samples, j)], t, j)
      BY <1>5, <2>1, <2>3 DEF IsOf
    <3>3. QED
      BY <2>4, <3>1, <3>2
  <2>6. t.exact <=> \A j \in 1 .. c + 1 : hits'[At(samples, j)].exact
    BY <1>4, <1>5, <2>1, <2>2, <2>3, <2>4
  <2>7. current' # <<>> /\ current'[1] = t
    BY <1>2
  <2>8. Len(hits') = samples * K + (c + 1) /\ c + 1 # 0
    BY <1>3, <1>4
  <2>9. QED
    BY <1>2, <1>5, <2>5, <2>6, <2>7, <2>8 DEF PendingHits
<1>10. QED
  BY <1>6, <1>7, <1>8, <1>9 DEF StreamInv

LEMMA BeginStep ==
  ASSUME StreamInv, NEW l \in Line, Read(l), BeginSample(l)
  PROVE  StreamInv'
<1> DEFINE t == [round |-> l.round, query |-> l.query, warmup |-> l.warmup,
                 latency |-> l.latency, hits |-> <<l.row>>, exact |-> l.exact]
<1>1. l \in HitLine /\ Judged /\ l.rank = 0 /\ Count
  BY LineTypes DEF BeginSample, Read, Takes
<1>2. /\ hits' = Append(hits, l) /\ current' = <<t>>
      /\ UNCHANGED <<events, lifecycle, verdict>> /\ verdict = "reading"
  BY DEF BeginSample, Read
<1>3. /\ hits' \in Seq(HitLine) /\ Len(hits') = Len(hits) + 1
      /\ \A i \in 1 .. Len(hits) : hits'[i] = hits[i]
      /\ hits'[Len(hits) + 1] = l
  BY <1>1, <1>2, HitAppended DEF StreamInv, StreamTypes
<1>4. /\ samples' \in Nat /\ Len(hits) = samples' * K
      /\ FirstIsValid' /\ JudgedHits'
  BY <1>1, <1>3, CountStep
<1>5. t \in Sample
  BY <1>1 DEF Sample, HitLine
<1>6. StreamTypes'
  BY <1>2, <1>3, <1>4, <1>5 DEF StreamInv, StreamTypes
<1>7. EventsAreOnce' /\ AcceptedIsAll'
  BY <1>2 DEF StreamInv, EventsAreOnce, AcceptedIsAll
<1>8. PendingHits'
  <2>1. At(samples', 1) = Len(hits) + 1
    BY <1>4 DEF At
  <2>2. IsOf(hits'[At(samples', 1)], t, 1)
    BY <1>1, <1>3, <2>1 DEF IsOf
  <2>3. t.exact <=> hits'[At(samples', 1)].exact
    BY <1>3, <2>1
  <2>4. current' # <<>> /\ current'[1] = t /\ Len(t.hits) = 1
    BY <1>2
  <2>5. Len(hits') = samples' * K + 1
    BY <1>3, <1>4
  <2> HIDE DEF t
  <2>6. 1 .. Len(t.hits) = {1}
    BY <2>4
  <2>7. \A j \in 1 .. Len(t.hits) : IsOf(hits'[At(samples', j)], t, j)
    BY <2>2, <2>6
  <2>8. t.exact <=> \A j \in 1 .. Len(t.hits) : hits'[At(samples', j)].exact
    BY <2>3, <2>6
  <2>9. QED
    BY <2>4, <2>5, <2>7, <2>8 DEF PendingHits
<1>9. QED
  BY <1>4, <1>6, <1>7, <1>8 DEF StreamInv

LEMMA EndStep == ASSUME StreamInv, EndOfFile PROVE StreamInv'
<1>1. UNCHANGED <<hits, events, lifecycle>> /\ verdict = "reading"
      /\ verdict' = IF Complete THEN "accepted" ELSE "rejected"
  BY DEF EndOfFile
<1>2. EventsAreOnce'
  BY <1>1 DEF StreamInv, EventsAreOnce
<1>3. CASE Judged
  <2>1. Count /\ current' = <<>>
    BY <1>3 DEF EndOfFile
  <2>2. /\ samples' \in Nat /\ Len(hits) = samples' * K
        /\ FirstIsValid' /\ JudgedHits'
    BY <1>1, <1>3, <2>1, CountStep
  <2>3. StreamTypes'
    BY <1>1, <2>1, <2>2 DEF StreamInv, StreamTypes
  <2>4. PendingHits'
    BY <1>1, <2>1, <2>2 DEF PendingHits
  <2>5. AcceptedIsAll'
    BY <1>1, <2>1 DEF AcceptedIsAll, Complete, Count, Total
  <2>6. QED
    BY <1>2, <2>2, <2>3, <2>4, <2>5 DEF StreamInv
<1>4. CASE ~Judged
  <2>1. UNCHANGED <<current, samples, first>> /\ verdict' = "rejected"
    BY <1>1, <1>4 DEF EndOfFile, Complete
  <2>2. StreamTypes' /\ PendingHits' /\ AcceptedIsAll'
    BY <1>1, <2>1 DEF StreamInv, StreamTypes, PendingHits, AcceptedIsAll, IsOf, At
  <2>3. QED
    BY <1>1, <1>2, <2>1, <2>2, JudgedKept DEF StreamInv
<1>5. QED
  BY <1>3, <1>4

LEMMA StreamStep == ASSUME StreamInv, [Next]_vars PROVE StreamInv'
<1>1. CASE UNCHANGED <<hits, events, current, lifecycle, samples, first>>
           /\ verdict' \in {verdict, "rejected"}
  <2>1. StreamTypes' /\ EventsAreOnce' /\ PendingHits' /\ AcceptedIsAll'
    BY <1>1 DEF StreamInv, StreamTypes, EventsAreOnce, PendingHits, AcceptedIsAll, IsOf, At
  <2>2. QED
    BY <1>1, <2>1, JudgedKept DEF StreamInv
<1>2. CASE UNCHANGED vars
  BY <1>1, <1>2 DEF vars
<1>3. CASE EndOfFile
  BY <1>3, EndStep
<1>4. ASSUME NEW l \in Line, Read(l) PROVE StreamInv'
  BY <1>4, LifecycleStep, ContinueStep, BeginStep DEF Read
<1>5. ASSUME NEW l \in Line, Refuse(l) PROVE StreamInv'
  BY <1>1, <1>5 DEF Refuse
<1>6. QED
  BY <1>2, <1>3, <1>4, <1>5 DEF Next

-----------------------------------------------------------------------------
(* What does not decrease from one to the next does not decrease.          *)
LEMMA Increasing ==
  ASSUME NEW n \in Nat, NEW f \in [1 .. n -> Nat],
         \A i \in 1 .. n - 1 : f[i] <= f[i + 1]
  PROVE  \A i, j \in 1 .. n : i <= j => f[i] <= f[j]
<1> DEFINE S == {d \in Nat : \A i \in 1 .. n : i + d <= n => f[i] <= f[i + d]}
<1>1. 0 \in S
  OBVIOUS
<1>2. ASSUME NEW d \in S PROVE d + 1 \in S
  <2>1. ASSUME NEW i \in 1 .. n, i + (d + 1) <= n PROVE f[i] <= f[i + (d + 1)]
    <3>1. i + d \in 1 .. n - 1 /\ i + d \in 1 .. n /\ (i + d) + 1 = i + (d + 1)
          /\ i + (d + 1) \in 1 .. n
      BY <2>1
    <3>2. f[i] <= f[i + d] /\ f[i + d] <= f[i + (d + 1)]
      BY <3>1
    <3>3. f[i] \in Nat /\ f[i + d] \in Nat /\ f[i + (d + 1)] \in Nat
      BY <3>1
    <3>4. QED
      BY <3>2, <3>3
  <2>2. QED
    BY <2>1
<1>3. S = Nat
  <2> HIDE DEF S
  <2>1. S \in SUBSET Nat
    BY DEF S
  <2>2. QED
    BY <1>1, <1>2, <2>1, InductiveSet
<1>4. ASSUME NEW i \in 1 .. n, NEW j \in 1 .. n, i <= j PROVE f[i] <= f[j]
  <2>1. j - i \in Nat /\ i + (j - i) = j /\ j <= n
    BY <1>4
  <2>2. j - i \in S
    BY <1>3, <2>1
  <2>3. QED
    BY <2>1, <2>2
<1>5. QED
  BY <1>4

LEMMA AnswerSorted ==
  ASSUME NEW rows, NEW q \in 0 .. Queries - 1, Answer(rows, q)
  PROVE  \A i, j \in 1 .. K : i < j =>
           Id[rows[i]] # Id[rows[j]] /\ Distance[q][rows[i]] <= Distance[q][rows[j]]
<1> DEFINE f == [i \in 1 .. K |-> Distance[q][rows[i]]]
<1>1. rows \in [1 .. K -> Row] /\ K \in Nat /\ Distance[q] \in [Row -> Nat]
  BY StreamConstants, Sizes DEF Answer
<1>2. f \in [1 .. K -> Nat]
  BY <1>1
<1>3. \A i \in 1 .. K - 1 : f[i] <= f[i + 1]
  <2>1. \A i \in 1 .. K - 1 : i \in 1 .. K /\ i + 1 \in 1 .. K
    BY <1>1
  <2>2. QED
    BY <2>1 DEF Answer
<1>4. \A i, j \in 1 .. K : i <= j => f[i] <= f[j]
  <2> HIDE DEF f
  <2>1. QED
    BY <1>1, <1>2, <1>3, Increasing
<1>5. QED
  BY <1>4 DEF Answer

(* As many judged samples as there are make a measurement.                 *)
LEMMA JudgedAreMeasured ==
  ASSUME StreamInv, samples = Total, Len(hits) = Total * K
  PROVE  MeasuredHits(hits)
<1>1. hits \in Seq(HitLine) /\ DOMAIN hits = 1 .. Total * K /\ Total * K \in Nat
  BY Sizes DEF StreamInv, StreamTypes
<1>2. ASSUME NEW i \in DOMAIN hits
      PROVE  LET p == Position(i)
                 j == ((i - 1) % K) + 1
             IN  /\ p \in 0 .. Total - 1 /\ j \in 1 .. K /\ i = At(p, j)
                 /\ IsHitOf(hits[i], p, j)
                 /\ hits[i].latency = hits[At(p, 1)].latency
                 /\ hits[i].row = first[(p % Queries) + 1][j]
  <2> DEFINE p == Position(i)
             j == ((i - 1) % K) + 1
  <2>1. p \in 0 .. Total - 1
    BY <1>1, Sizes, PlaceBefore
  <2>2. j \in 1 .. K /\ i = At(p, j)
    BY <1>1, HitAtPlace
  <2> HIDE DEF p, j
  <2>3. QED
    BY <2>1, <2>2 DEF StreamInv, JudgedHits, p, j
<1>3. ASSUME NEW i \in DOMAIN hits
      PROVE  /\ hits[i].round = Position(i) \div Queries
             /\ hits[i].query = Position(i) % Queries
             /\ hits[i].rank = (i - 1) % K
             /\ hits[i].warmup = (hits[i].round < Warmup)
             /\ hits[i].latency > 0 /\ hits[i].exact
  <2>1. (i - 1) % K \in Int
    BY <1>1, Divided, Sizes
  <2>2. QED
    BY <1>2, <2>1 DEF IsHitOf
<1>4. ASSUME NEW i \in DOMAIN hits
      PROVE  hits[i].row = Expected[hits[i].query][hits[i].rank + 1]
  <2> DEFINE p == Position(i)
             j == ((i - 1) % K) + 1
             q == p % Queries
  <2>1. /\ p \in 0 .. Total - 1 /\ p \in Nat /\ j \in 1 .. K
        /\ hits[i].row = first[q + 1][j]
        /\ hits[i].query = q /\ hits[i].rank = j - 1
    BY <1>2 DEF IsHitOf
  <2>2. q \in 0 .. Queries - 1 /\ (p < Queries => q = p)
    BY <2>1, SamplePlace
  <2> HIDE DEF p, j, q
  <2>3. q + 1 \in 1 .. Len(first)
    BY <2>1, <2>2, Sizes DEF StreamInv, FirstIsValid
  <2>4. first[q + 1] = Expected[q]
    BY <2>2, <2>3 DEF StreamInv, FirstIsValid, Answer
  <2>5. hits[i].rank + 1 = j
    BY <2>1
  <2>6. QED
    BY <2>1, <2>4, <2>5
<1>5. ASSUME NEW i \in DOMAIN hits, NEW o \in DOMAIN hits, i < o,
             Position(i) = Position(o)
      PROVE  /\ hits[i].latency = hits[o].latency
             /\ Id[hits[i].row] # Id[hits[o].row]
             /\ Distance[hits[i].query][hits[i].row] <= Distance[hits[o].query][hits[o].row]
  <2> DEFINE p == Position(i)
             j == ((i - 1) % K) + 1
             k == ((o - 1) % K) + 1
             q == p % Queries
  <2>1. /\ p \in 0 .. Total - 1 /\ p \in Nat /\ j \in 1 .. K /\ k \in 1 .. K
        /\ i = At(p, j) /\ o = At(p, k)
        /\ hits[i].row = first[q + 1][j] /\ hits[o].row = first[q + 1][k]
        /\ hits[i].latency = hits[o].latency
        /\ hits[i].query = q /\ hits[o].query = q
    BY <1>2, <1>5 DEF IsHitOf
  <2>2. q \in 0 .. Queries - 1 /\ (p < Queries => q = p)
    BY <2>1, SamplePlace
  <2> HIDE DEF p, j, k, q
  <2>3. j < k
    <3>1. p * K \in Nat
      BY <2>1, Sizes
    <3>2. QED
      BY <1>5, <2>1, <3>1 DEF At
  <2>4. q + 1 \in 1 .. Len(first)
    BY <2>1, <2>2, Sizes DEF StreamInv, FirstIsValid
  <2>5. Answer(first[q + 1], q)
    BY <2>2, <2>4 DEF StreamInv, FirstIsValid
  <2>6. QED
    BY <2>1, <2>2, <2>3, <2>5, AnswerSorted
<1>6. QED
  BY <1>1, <1>3, <1>4, <1>5 DEF MeasuredHits

(* As many events as are required, each once, are all of them.             *)
LEMMA EventsComplete ==
  ASSUME StreamInv
  PROVE  lifecycle = Lifecycle <=> Len(events) = Cardinality(Lifecycle)
<1> DEFINE n == Len(events)
           T == {events[i] : i \in 1 .. n}
<1>1. events \in Seq(Lifecycle) /\ n \in Nat /\ DOMAIN events = 1 .. n
  BY DEF StreamInv, StreamTypes
<1>2. lifecycle = T /\ \A i, j \in 1 .. n : events[i] = events[j] => i = j
  BY <1>1 DEF StreamInv, EventsAreOnce, IsInjective
<1>3. Cardinality(T) = n
  <2> HIDE DEF n
  <2>1. QED
    BY <1>1, <1>2, DistinctValues
<1>4. T \subseteq Lifecycle
  BY <1>1
<1> HIDE DEF T, n
<1>5. Cardinality(T) = Cardinality(Lifecycle) => T = Lifecycle
  BY <1>4, StreamConstants, FS_Subset
<1>6. QED
  BY <1>2, <1>3, <1>5 DEF n

LEMMA StreamAccepts == ASSUME StreamInv PROVE AcceptedIsComplete
<1> SUFFICES ASSUME verdict = "accepted"
             PROVE  /\ Measured(hits, events)
                    /\ Len(hits) = Total * K /\ Len(events) = Cardinality(Lifecycle)
  BY DEF AcceptedIsComplete
<1>1. current = <<>> /\ samples = Total /\ lifecycle = Lifecycle
  BY DEF StreamInv, AcceptedIsAll
<1>2. Len(hits) = Total * K
  BY <1>1, HitsRead
<1>3. Len(events) = Cardinality(Lifecycle)
  BY <1>1, EventsComplete
<1>4. IsInjective(events)
  BY DEF StreamInv, EventsAreOnce
<1>5. QED
  BY <1>1, <1>2, <1>3, <1>4, JudgedAreMeasured DEF Measured

(* In a file that begins with what was read and is a measurement, the      *)
(* pending sample is the next one, and qualifies when it has all its hits. *)
LEMMA PendingOfMeasured ==
  ASSUME StreamInv, current # <<>>,
         NEW h \in Seq(HitLine), MeasuredHits(h), Len(hits) <= Len(h),
         \A i \in 1 .. Len(hits) : h[i] = hits[i]
  PROVE  LET s == current[1]
         IN  /\ s.round = samples \div Queries /\ s.query = samples % Queries
             /\ \A i \in 1 .. Len(h) : i > samples * K =>
                  (Position(i) = samples <=> i <= samples * K + K)
             /\ Len(s.hits) <= K
             /\ Len(s.hits) = K => Qualifies(s)
<1> DEFINE s == current[1]
           c == Len(s.hits)
           m == samples
           n == Len(hits)
<1>1. /\ m \in Nat /\ m * K \in Nat /\ s \in Sample /\ c \in Nat \ {0}
      /\ n = m * K + c
  BY HitsRead, Sizes DEF StreamInv, StreamTypes
<1>2. /\ \A j \in 1 .. c : IsOf(hits[At(m, j)], s, j)
      /\ s.exact <=> \A j \in 1 .. c : hits[At(m, j)].exact
  BY DEF StreamInv, PendingHits
<1> HIDE DEF s, c, m, n
<1>3. \A j \in 1 .. c : /\ At(m, j) \in 1 .. n /\ At(m, j) \in DOMAIN h
                        /\ h[At(m, j)] = hits[At(m, j)]
  <2>1. Len(h) \in Nat /\ DOMAIN h = 1 .. Len(h) /\ n <= Len(h)
    BY DEF n
  <2>2. \A j \in 1 .. c : At(m, j) \in 1 .. n
    BY <1>1 DEF At
  <2>3. QED
    BY <2>1, <2>2 DEF n
<1>4. 1 \in 1 .. c /\ 1 \in 1 .. K
  BY <1>1, Sizes
<1>5. s.round = m \div Queries /\ s.query = m % Queries
  <2>1. Position(At(m, 1)) = m
    BY <1>1, <1>4, PlaceOfHit
  <2>2. h[At(m, 1)].round = m \div Queries /\ h[At(m, 1)].query = m % Queries
    BY <1>3, <1>4, <2>1 DEF MeasuredHits
  <2>3. QED
    BY <1>2, <1>3, <1>4, <2>2 DEF IsOf
<1>6. \A i \in Nat : i > m * K => (Position(i) = m <=> i <= m * K + K)
  <2>1. ASSUME NEW i \in Nat, i > m * K, i <= m * K + K PROVE Position(i) = m
    <3>1. i - m * K \in 1 .. K /\ i = At(m, i - m * K)
      BY <1>1, <2>1, Sizes DEF At
    <3>2. QED
      BY <1>1, <3>1, PlaceOfHit
  <2>2. ASSUME NEW i \in Nat, i > m * K, Position(i) = m PROVE i <= m * K + K
    <3>1. i \in Nat \ {0}
      BY <1>1, <2>2
    <3>2. ((i - 1) % K) + 1 \in 1 .. K /\ i = At(m, ((i - 1) % K) + 1)
      BY <2>2, <3>1, HitAtPlace
    <3>3. QED
      BY <1>1, <3>2, Sizes DEF At
  <2>3. QED
    BY <2>1, <2>2
<1>7. c <= K
  <2> SUFFICES ASSUME c > K PROVE FALSE
    BY <1>1, Sizes
  <2>1. K + 1 \in 1 .. c
    BY <1>1, Sizes
  <2>2. IsOf(h[At(m, K + 1)], s, K + 1) /\ At(m, K + 1) \in DOMAIN h
    BY <1>2, <1>3, <2>1
  <2>3. At(m, K + 1) > m * K + K /\ At(m, K + 1) \in Nat \ {0} /\ At(m, K + 1) > m * K
    BY <1>1, Sizes DEF At
  <2>4. Position(At(m, K + 1)) # m /\ Position(At(m, K + 1)) \in Nat
    <3>1. Position(At(m, K + 1)) \in Nat
      BY <2>3, HitAtPlace
    <3>2. ~(At(m, K + 1) <= m * K + K)
      BY <1>1, <2>3, Sizes
    <3>3. QED
      BY <1>6, <2>3, <3>1, <3>2
  <2>5. /\ Position(At(m, K + 1)) \div Queries = m \div Queries
        /\ Position(At(m, K + 1)) % Queries = m % Queries
    BY <1>5, <2>2 DEF IsOf, MeasuredHits
  <2>6. QED
    BY <1>1, <2>4, <2>5, SameSample
<1>8. ASSUME c = K PROVE Qualifies(s)
  <2>1. \A j \in 1 .. K :
          /\ At(m, j) \in DOMAIN h /\ IsOf(h[At(m, j)], s, j)
          /\ h[At(m, j)].exact /\ h[At(m, j)].latency > 0
          /\ h[At(m, j)].warmup = (h[At(m, j)].round < Warmup)
          /\ Position(At(m, j)) = m
    BY <1>1, <1>2, <1>3, <1>8, PlaceOfHit DEF MeasuredHits
  <2>2. s.exact /\ s.latency > 0 /\ s.warmup = (s.round < Warmup)
    BY <1>2, <1>3, <1>4, <1>8, <2>1 DEF IsOf
  <2>3. \A i, j \in 1 .. K : i < j =>
          /\ Id[s.hits[i]] # Id[s.hits[j]]
          /\ Distance[s.query][s.hits[i]] <= Distance[s.query][s.hits[j]]
    <3> SUFFICES ASSUME NEW i \in 1 .. K, NEW j \in 1 .. K, i < j
                 PROVE  /\ Id[s.hits[i]] # Id[s.hits[j]]
                        /\ Distance[s.query][s.hits[i]] <= Distance[s.query][s.hits[j]]
      OBVIOUS
    <3>1. At(m, i) < At(m, j)
      BY <1>1, Sizes DEF At
    <3>2. /\ Id[h[At(m, i)].row] # Id[h[At(m, j)].row]
          /\ Distance[h[At(m, i)].query][h[At(m, i)].row]
               <= Distance[h[At(m, j)].query][h[At(m, j)].row]
      BY <2>1, <3>1 DEF MeasuredHits
    <3>3. QED
      BY <2>1, <3>2 DEF IsOf
  <2>4. s.hits \in Seq(Row) /\ Len(s.hits) = K /\ DOMAIN s.hits = 1 .. K
    BY <1>1, <1>8 DEF Sample, c
  <2>5. Cardinality({Id[s.hits[i]] : i \in DOMAIN s.hits}) = K
    <3> DEFINE ids == [i \in 1 .. K |-> Id[s.hits[i]]]
    <3>1. \A i, j \in 1 .. K : ids[i] = ids[j] => i = j
      BY <2>3, Sizes
    <3>2. Cardinality({ids[i] : i \in 1 .. K}) = K
      <4>1. DOMAIN ids = 1 .. K /\ K \in Nat
        BY Sizes
      <4> HIDE DEF ids
      <4>2. QED
        BY <3>1, <4>1, DistinctValues
    <3>3. {Id[s.hits[i]] : i \in DOMAIN s.hits} = {ids[i] : i \in 1 .. K}
      BY <2>4
    <3>4. QED
      BY <3>2, <3>3
  <2>6. ValidHits(s)
    <3>1. \A i \in 1 .. K - 1 : i \in 1 .. K /\ i + 1 \in 1 .. K /\ i < i + 1
      BY Sizes
    <3>2. QED
      BY <2>2, <2>3, <2>4, <2>5, <3>1 DEF ValidHits
  <2>7. s.query \in 0 .. Queries - 1
    BY <1>1, <1>5, SamplePlace
  <2>8. AsExpected(s)
    <3>1. \A j \in 1 .. K : h[At(m, j)].row = Expected[h[At(m, j)].query][h[At(m, j)].rank + 1]
      BY <2>1 DEF MeasuredHits
    <3>2. \A j \in 1 .. K : s.hits[j] = Expected[s.query][j]
      <4> SUFFICES ASSUME NEW j \in 1 .. K PROVE s.hits[j] = Expected[s.query][j]
        OBVIOUS
      <4>1. IsOf(h[At(m, j)], s, j) /\ (j - 1) + 1 = j
        BY <2>1
      <4>2. QED
        BY <3>1, <4>1 DEF IsOf
    <3>3. Expected[s.query] \in [1 .. K -> Row]
      BY <2>7, StreamConstants
    <3>4. s.hits = [j \in 1 .. K |-> s.hits[j]]
      BY <2>4
    <3>5. QED
      BY <3>2, <3>3, <3>4 DEF AsExpected
  <2>9. Repeated(s)
    <3> SUFFICES ASSUME s.query < Len(first) PROVE s.hits = first[s.query + 1]
      BY DEF Repeated
    <3>1. s.query + 1 \in 1 .. Len(first) /\ (s.query + 1) - 1 = s.query
      BY <2>7, Sizes DEF StreamInv, FirstIsValid
    <3>2. first[s.query + 1] = Expected[s.query]
      BY <3>1 DEF StreamInv, FirstIsValid, Answer
    <3>3. QED
      BY <2>8, <3>2 DEF AsExpected
  <2>10. QED
    BY <1>5, <2>2, <2>6, <2>8, <2>9 DEF Qualifies, InSequence, m
<1>9. \A i \in 1 .. Len(h) : i > m * K => (Position(i) = m <=> i <= m * K + K)
  BY <1>6
<1>10. QED
  BY <1>5, <1>7, <1>8, <1>9 DEF s, c, m

(* A hit with which the file is still the beginning of a measurement is    *)
(* taken.                                                                  *)
LEMMA TakesHit ==
  ASSUME StreamInv, NEW l \in HitLine, l.event = "sample",
         MeasuredHits(Append(hits, l))
  PROVE  Takes(l)
<1> DEFINE h == Append(hits, l)
           m == samples
           n == Len(hits)
           s == current[1]
           c == Len(s.hits)
<1>1. /\ m \in Nat /\ m * K \in Nat /\ n \in Nat /\ hits \in Seq(HitLine)
      /\ h \in Seq(HitLine) /\ Len(h) = n + 1 /\ DOMAIN h = 1 .. n + 1
      /\ h[n + 1] = l /\ \A i \in 1 .. n : h[i] = hits[i]
  <2>1. hits \in Seq(HitLine) /\ n \in Nat
    BY DEF StreamInv, StreamTypes
  <2>2. m \in Nat /\ m * K \in Nat
    BY Sizes DEF StreamInv, StreamTypes
  <2>3. QED
    BY <2>1, <2>2
<1>2. MeasuredHits(h)
  OBVIOUS
<1> HIDE DEF h, m
<1>3. /\ l.round = Position(n + 1) \div Queries /\ l.query = Position(n + 1) % Queries
      /\ l.rank = ((n + 1) - 1) % K /\ l.warmup = (l.round < Warmup)
      /\ Position(n + 1) \in Nat
  <2>1. n + 1 \in DOMAIN h /\ n + 1 \in Nat \ {0}
    BY <1>1
  <2>2. QED
    BY <1>1, <1>2, <2>1, HitAtPlace DEF MeasuredHits
<1>4. CASE current = <<>>
  <2>1. n + 1 = At(m, 1) /\ 1 \in 1 .. K
    BY <1>1, <1>4, HitsRead, Sizes DEF At, m
  <2>2. ((n + 1) - 1) % K = 1 - 1
    BY <1>1, <2>1, PlaceOfHit
  <2>3. l.rank = 0
    BY <1>3, <2>2
  <2>4. Judged /\ ~Belongs(l)
    BY <1>4 DEF Judged, Belongs
  <2>5. QED
    BY <2>3, <2>4 DEF Takes
<1>5. CASE current # <<>>
  <2>1. /\ current = <<s>> /\ s \in Sample /\ c \in Nat \ {0} /\ n = m * K + c
    BY <1>5, HitsRead DEF m
  <2>2. /\ s.round = m \div Queries /\ s.query = m % Queries
        /\ Position(n + 1) = m <=> n + 1 <= m * K + K
        /\ c <= K /\ (c = K => Qualifies(s))
    <3>1. n <= n + 1 /\ n + 1 \in 1 .. Len(h) /\ n + 1 > m * K
      BY <1>1, <2>1
    <3>2. Len(hits) <= Len(h) /\ \A i \in 1 .. Len(hits) : h[i] = hits[i]
      BY <1>1, <3>1
    <3> HIDE DEF c, s
    <3>3. QED
      BY <1>1, <1>2, <1>5, <3>1, <3>2, PendingOfMeasured DEF m, c, s
  <2>3. Belongs(l) <=> Position(n + 1) = m
    BY <1>1, <1>3, <1>5, <2>2, SameSample DEF Belongs
  <2>4. CASE Belongs(l)
    <3> HIDE DEF c, n
    <3>0. n + 1 <= m * K + K
      BY <2>2, <2>3, <2>4
    <3>1. c + 1 \in 1 .. K /\ n + 1 = At(m, c + 1) /\ At(m, 1) < n + 1 /\ 1 \in 1 .. K
      <4>1. m * K \in Nat /\ c \in Nat \ {0} /\ K \in Nat \ {0}
            /\ n = m * K + c /\ n + 1 <= m * K + K
        BY <1>1, <2>1, <3>0, Sizes
      <4>2. At(m, c + 1) = m * K + (c + 1) /\ At(m, 1) = m * K + 1
        BY DEF At
      <4>3. QED
        BY <4>1, <4>2
    <3>2. ((n + 1) - 1) % K = (c + 1) - 1
      BY <1>1, <3>1, PlaceOfHit
    <3>3. l.rank = c
      BY <1>3, <2>1, <3>2
    <3>4. IsOf(hits[At(m, 1)], s, 1) /\ At(m, 1) \in 1 .. n
      <4>1. At(m, 1) \in 1 .. n /\ 1 \in 1 .. c
        BY <1>1, <2>1 DEF At
      <4>2. QED
        BY <1>5, <4>1 DEF StreamInv, PendingHits, c, m
    <3>5. At(m, 1) \in DOMAIN h /\ n + 1 \in DOMAIN h /\ h[At(m, 1)] = hits[At(m, 1)]
      BY <1>1, <3>4
    <3>6. Position(At(m, 1)) = Position(n + 1)
      BY <1>1, <2>3, <2>4, <3>1, PlaceOfHit
    <3>7. h[At(m, 1)].latency = l.latency
      BY <1>1, <1>2, <3>1, <3>5, <3>6 DEF MeasuredHits
    <3>8. h[At(m, 1)].warmup = (h[At(m, 1)].round < Warmup)
      BY <1>2, <3>5 DEF MeasuredHits
    <3>9. l.round = s.round
      BY <2>4 DEF Belongs
    <3>10. l.latency = s.latency /\ l.warmup = s.warmup
      BY <1>3, <3>4, <3>5, <3>7, <3>8, <3>9 DEF IsOf
    <3>11. QED
      BY <2>4, <3>3, <3>10 DEF Takes, Fits, c
  <2>5. CASE ~Belongs(l)
    <3>1. c = K
      BY <1>1, <2>1, <2>2, <2>3, <2>5, Sizes
    <3>2. Judged
      BY <2>1, <2>2, <3>1 DEF Judged
    <3>3. n + 1 = At(m + 1, 1) /\ 1 \in 1 .. K /\ m + 1 \in Nat
      BY <1>1, <2>1, <3>1, Sizes DEF At
    <3>4. ((n + 1) - 1) % K = 1 - 1
      BY <3>3, PlaceOfHit
    <3>5. l.rank = 0
      BY <1>3, <3>4
    <3>6. QED
      BY <2>5, <3>2, <3>5 DEF Takes
  <2>6. QED
    BY <2>4, <2>5
<1>6. QED
  BY <1>4, <1>5

(* The end of a measurement is taken for one.                              *)
LEMMA TakesEnd ==
  ASSUME StreamInv, MeasuredHits(hits), Len(hits) = Total * K,
         Len(events) = Cardinality(Lifecycle)
  PROVE  Complete
<1> DEFINE m == samples
           s == current[1]
           c == Len(s.hits)
<1>1. m \in Nat /\ m * K \in Nat /\ Total * K \in Nat
      /\ hits \in Seq(HitLine) /\ Len(hits) \in Nat
  BY Sizes DEF StreamInv, StreamTypes
<1>2. lifecycle = Lifecycle
  BY EventsComplete
<1> HIDE DEF m
<1>3. CASE current = <<>>
  <2>1. m * K = Total * K
    BY <1>3, HitsRead DEF m
  <2>2. ~(m < Total) /\ ~(Total < m)
    <3>1. m < Total => m * K + K <= Total * K
      BY <1>1, Sizes, Fewer
    <3>2. Total < m => Total * K + K <= m * K
      BY <1>1, Sizes, Fewer
    <3>3. QED
      BY <1>1, <2>1, <3>1, <3>2, Sizes
  <2>3. m = Total
    BY <1>1, <2>2, Sizes
  <2>4. QED
    BY <1>2, <1>3, <2>3, Sizes DEF Complete, Judged, Total, m
<1>4. CASE current # <<>>
  <2>1. current = <<s>> /\ c \in Nat \ {0} /\ Total * K = m * K + c
    BY <1>4, HitsRead DEF m
  <2>2. c <= K /\ (c = K => Qualifies(s))
    <3> HIDE DEF c, s
    <3>1. QED
      BY <1>1, <1>4, PendingOfMeasured DEF c, s
  <2>3. m < Total
    <3> SUFFICES ASSUME ~(m < Total) PROVE FALSE
      OBVIOUS
    <3>1. Total <= m
      BY <1>1, Sizes
    <3>2. Total * K <= m * K
      <4>1. Total < m => Total * K + K <= m * K
        BY <1>1, Sizes, Fewer
      <4>2. QED
        BY <1>1, <3>1, <4>1, Sizes
    <3>3. QED
      BY <1>1, <2>1, <3>2
  <2>4. m * K + K <= Total * K
    BY <1>1, <2>3, Sizes, Fewer
  <2>5. c = K
    BY <1>1, <2>1, <2>2, <2>4, Sizes
  <2>6. m + 1 = Total
    <3>1. ~(m + 1 < Total)
      <4>1. m + 1 < Total => (m + 1) * K + K <= Total * K
        BY <1>1, Sizes, Fewer
      <4>2. (m + 1) * K = m * K + K
        BY <1>1, Sizes
      <4>3. QED
        BY <1>1, <2>1, <2>5, <4>1, <4>2, Sizes
    <3>2. QED
      BY <1>1, <2>3, <3>1, Sizes
  <2>7. Judged /\ samples + Len(current) = Total
    <3> HIDE DEF s, c
    <3>1. Len(current) = 1 /\ DOMAIN current = {1} /\ current[1] = s
      BY <2>1
    <3>2. QED
      BY <2>2, <2>5, <2>6, <3>1 DEF Judged, m
  <2>8. QED
    BY <1>2, <2>7 DEF Complete, Total
<1>5. QED
  BY <1>3, <1>4

LEMMA StreamRejects == ASSUME StreamInv PROVE RejectedIsDeviating
<1>1. ASSUME NEW l \in Line,
             IF l.event = "sample" THEN Measured(Append(hits, l), events)
                                   ELSE Measured(hits, Append(events, l.event))
      PROVE  Takes(l)
  <2>1. CASE l.event = "sample"
    BY <1>1, <2>1, LineTypes, TakesHit DEF Measured
  <2>2. CASE l.event # "sample"
    <3> DEFINE e == Append(events, l.event)
               n == Len(events)
    <3>1. events \in Seq(Lifecycle) /\ n \in Nat /\ l.event \in Lifecycle
      BY <2>2, LineTypes DEF StreamInv, StreamTypes
    <3>2. \A i \in 1 .. n : e[i] = events[i] /\ i \in DOMAIN e /\ i # n + 1
      BY <3>1
    <3>3. e[n + 1] = l.event /\ n + 1 \in DOMAIN e /\ DOMAIN events = 1 .. n
      BY <3>1
    <3>4. IsInjective(e)
      BY <1>1, <2>2 DEF Measured
    <3> HIDE DEF e, n
    <3>5. \A i \in 1 .. n : events[i] # l.event
      BY <3>2, <3>3, <3>4 DEF IsInjective
    <3>6. l.event \notin lifecycle
      BY <3>3, <3>5 DEF StreamInv, EventsAreOnce
    <3>7. QED
      BY <2>2, <3>6 DEF Takes
  <2>3. QED
    BY <2>1, <2>2
<1>2. QED
  BY <1>1, TakesEnd DEF RejectedIsDeviating, Measured

-----------------------------------------------------------------------------
(***************************************************************************)
(* The reader of native files.                                             *)
(***************************************************************************)
Keys == (0 .. Warmup + Rounds - 1) \X (0 .. Queries - 1)

(* The line that said hit r of the sample with key k.                      *)
LineOf(k, r) ==
  [event |-> "sample", round |-> k[1], query |-> k[2], rank |-> r,
   row |-> collected[k].hits[r], latency |-> collected[k].latency]

(* What has been collected is what the lines say, each of them once.       *)
LinesAreOnce ==
  DOMAIN lines \subseteq NativeLine /\ lines = SetToBag(DOMAIN lines)

MarksAreRead ==
  marks = {l.event : l \in {x \in DOMAIN lines : x.event # "sample"}}

CollectedIsRead ==
  /\ DOMAIN collected \subseteq Keys
  /\ \A k \in DOMAIN collected :
       /\ collected[k] = [latency |-> collected[k].latency, hits |-> collected[k].hits]
       /\ DOMAIN collected[k].hits # {}
       /\ \A r \in DOMAIN collected[k].hits : r \in 0 .. K - 1 /\ LineOf(k, r) \in DOMAIN lines

ReadIsCollected ==
  \A l \in DOMAIN lines : l.event = "sample" =>
    /\ Native!Key(l) \in DOMAIN collected
    /\ l.rank \in DOMAIN collected[Native!Key(l)].hits
    /\ l = LineOf(Native!Key(l), l.rank)

AcceptedIsParsed == result = "accepted" => Native!Parsed /\ Native!Validated

NativeInv ==
  /\ LinesAreOnce /\ MarksAreRead /\ CollectedIsRead /\ ReadIsCollected
  /\ AcceptedIsParsed

LEMMA NativeConstants ==
  /\ Expected \in [0 .. Queries - 1 -> [1 .. K -> Row]]
  /\ NativeLine \subseteq Native!LifecycleLine \cup Native!HitLine
BY ReaderParameters DEF Native!Parameters

LEMMA NativeLineTypes ==
  ASSUME NEW l \in NativeLine
  PROVE  IF l.event = "sample"
         THEN /\ l.round \in Nat /\ l.query \in Nat /\ l.rank \in Nat /\ l.row \in Row
              /\ l.latency \in {0, 1}
              /\ l = [event |-> "sample", round |-> l.round, query |-> l.query,
                      rank |-> l.rank, row |-> l.row, latency |-> l.latency]
         ELSE l.event \in {"open", "close"} /\ l = [event |-> l.event]
BY NativeConstants, Sizes DEF Native!LifecycleLine, Native!HitLine

(* A line that was not in the bag is in it once.                           *)
LEMMA LineAdded ==
  ASSUME NEW l \in NativeLine, Native!Read(l), LinesAreOnce, l \notin DOMAIN lines
  PROVE  LinesAreOnce' /\ DOMAIN lines' = DOMAIN lines \cup {l}
<1>1. /\ lines' = SetToBag(DOMAIN lines \cup {l})
      /\ DOMAIN lines' = DOMAIN lines \cup {l}
  BY DEF LinesAreOnce, Native!Read, SetToBag, Native!(+), Native!SetToBag
<1>2. QED
  BY <1>1 DEF LinesAreOnce

LEMMA NativeInit == Native!Init => NativeInv
<1> SUFFICES ASSUME Native!Init PROVE NativeInv
  OBVIOUS
<1>1. /\ DOMAIN lines = {} /\ lines = SetToBag({}) /\ DOMAIN collected = {}
      /\ marks = {} /\ result = "reading"
  BY DEF Native!Init, Native!EmptyBag, Native!SetToBag, SetToBag
<1>2. QED
  BY <1>1 DEF NativeInv, LinesAreOnce, MarksAreRead, CollectedIsRead, ReadIsCollected,
              AcceptedIsParsed

LEMMA MarkStep ==
  ASSUME NativeInv, NEW l \in NativeLine, Native!Read(l), Native!Mark(l)
  PROVE  NativeInv'
<1>1. /\ l.event # "sample" /\ l.event \notin marks
      /\ marks' = marks \cup {l.event} /\ UNCHANGED <<collected, result>>
      /\ result = "reading"
  BY DEF Native!Mark, Native!Read, Native!Takes
<1>2. l \notin DOMAIN lines
  BY <1>1 DEF NativeInv, MarksAreRead
<1>3. LinesAreOnce' /\ DOMAIN lines' = DOMAIN lines \cup {l}
  BY <1>2, LineAdded DEF NativeInv
<1>4. MarksAreRead'
  <2>1. marks = {x.event : x \in {y \in DOMAIN lines : y.event # "sample"}}
    BY DEF NativeInv, MarksAreRead
  <2>2. {y \in DOMAIN lines' : y.event # "sample"}
          = {y \in DOMAIN lines : y.event # "sample"} \cup {l}
    BY <1>1, <1>3
  <2>3. QED
    BY <1>1, <2>1, <2>2 DEF MarksAreRead
<1>5. CollectedIsRead'
  BY <1>1, <1>3 DEF NativeInv, CollectedIsRead, LineOf
<1>6. ReadIsCollected'
  BY <1>1, <1>3 DEF NativeInv, ReadIsCollected, LineOf, Native!Key
<1>7. AcceptedIsParsed'
  BY <1>1 DEF AcceptedIsParsed
<1>8. QED
  BY <1>3, <1>4, <1>5, <1>6, <1>7 DEF NativeInv

LEMMA CollectStep ==
  ASSUME NativeInv, NEW l \in NativeLine, Native!Read(l), Native!Collect(l)
  PROVE  NativeInv'
<1> DEFINE k == Native!Key(l)
           old == IF k \in DOMAIN collected THEN collected[k]
                  ELSE [latency |-> l.latency, hits |-> <<>>]
           s == collected'[k]
<1>1. /\ l.event = "sample" /\ Native!InRange(l) /\ Native!Fits(l)
      /\ collected' = Native!With(collected, k,
                        [old EXCEPT !.hits = Native!With(@, l.rank, l.row)])
      /\ UNCHANGED <<marks, result>> /\ result = "reading"
  BY DEF Native!Collect, Native!Read, Native!Takes
<1>2. l \notin DOMAIN lines
  BY <1>1 DEF NativeInv, ReadIsCollected, Native!Fits
<1>3. LinesAreOnce' /\ DOMAIN lines' = DOMAIN lines \cup {l}
  BY <1>2, LineAdded DEF NativeInv
<1>4. /\ k \in Keys /\ l.rank \in 0 .. K - 1
      /\ l = [event |-> "sample", round |-> k[1], query |-> k[2],
              rank |-> l.rank, row |-> l.row, latency |-> l.latency]
  BY <1>1, NativeLineTypes, Sizes DEF Keys, Native!Key, Native!InRange
<1>5. /\ old = [latency |-> old.latency, hits |-> old.hits]
      /\ old.latency = l.latency
  BY <1>1 DEF NativeInv, CollectedIsRead, Native!Fits
<1>6. /\ DOMAIN collected' = DOMAIN collected \cup {k}
      /\ \A x \in DOMAIN collected : x # k => collected'[x] = collected[x]
      /\ s = [latency |-> l.latency, hits |-> Native!With(old.hits, l.rank, l.row)]
  <2> HIDE DEF k, old
  <2>1. s = [old EXCEPT !.hits = Native!With(@, l.rank, l.row)]
    BY <1>1 DEF Native!With
  <2>2. s = [latency |-> l.latency, hits |-> Native!With(old.hits, l.rank, l.row)]
    BY <1>5, <2>1
  <2>3. QED
    BY <1>1, <2>2 DEF Native!With
<1>7. /\ s.latency = l.latency /\ DOMAIN s.hits = DOMAIN old.hits \cup {l.rank}
      /\ s.hits[l.rank] = l.row
      /\ \A r \in DOMAIN old.hits : r # l.rank => s.hits[r] = old.hits[r]
  BY <1>6 DEF Native!With
<1>8. k \in DOMAIN collected => l.rank \notin DOMAIN old.hits
  BY <1>1 DEF Native!Fits
<1>9. k \notin DOMAIN collected => DOMAIN old.hits = {}
  OBVIOUS
<1>10. k \in DOMAIN collected => old = collected[k]
  OBVIOUS
<1> HIDE DEF k, old, s
<1>11. LineOf(k, l.rank)' = l
  BY <1>4, <1>7 DEF LineOf, s
<1>12. \A x \in DOMAIN collected : \A r \in DOMAIN collected[x].hits :
         /\ r \in DOMAIN collected'[x].hits
         /\ LineOf(x, r)' = LineOf(x, r)
  BY <1>5, <1>6, <1>7, <1>8, <1>10 DEF LineOf, s
<1>13. CollectedIsRead'
  <2>1. ASSUME NEW x \in DOMAIN collected'
        PROVE  /\ x \in Keys
               /\ collected'[x] = [latency |-> collected'[x].latency,
                                   hits |-> collected'[x].hits]
               /\ DOMAIN collected'[x].hits # {}
               /\ \A r \in DOMAIN collected'[x].hits :
                    r \in 0 .. K - 1 /\ LineOf(x, r)' \in DOMAIN lines'
    <3>1. CASE x # k
      <4>1. x \in DOMAIN collected /\ collected'[x] = collected[x]
        BY <1>6, <3>1
      <4>2. QED
        BY <1>3, <1>12, <4>1 DEF NativeInv, CollectedIsRead
    <3>2. CASE x = k
      <4>1. collected'[x] = [latency |-> collected'[x].latency, hits |-> collected'[x].hits]
        BY <1>6, <1>7, <3>2 DEF s
      <4>2. ASSUME NEW r \in DOMAIN s.hits
            PROVE  r \in 0 .. K - 1 /\ LineOf(k, r)' \in DOMAIN lines'
        <5>1. CASE r = l.rank
          BY <1>3, <1>4, <1>11, <5>1
        <5>2. CASE r # l.rank
          <6>1. k \in DOMAIN collected /\ r \in DOMAIN collected[k].hits
            BY <1>7, <1>9, <1>10, <4>2, <5>2
          <6>2. QED
            BY <1>3, <1>12, <6>1 DEF NativeInv, CollectedIsRead
        <5>3. QED
          BY <5>1, <5>2
      <4>3. QED
        BY <1>4, <1>7, <3>2, <4>1, <4>2 DEF s
    <3>3. QED
      BY <3>1, <3>2
  <2>2. QED
    BY <2>1 DEF CollectedIsRead
<1>14. ReadIsCollected'
  <2>1. ASSUME NEW x \in DOMAIN lines', x.event = "sample"
        PROVE  /\ Native!Key(x) \in DOMAIN collected'
               /\ x.rank \in DOMAIN collected'[Native!Key(x)].hits
               /\ x = LineOf(Native!Key(x), x.rank)'
    <3>1. CASE x = l
      BY <1>6, <1>7, <1>11, <3>1 DEF k, s
    <3>2. CASE x # l
      <4>1. x \in DOMAIN lines
        BY <1>3, <3>2
      <4>2. QED
        BY <1>6, <1>12, <2>1, <4>1 DEF NativeInv, ReadIsCollected
    <3>3. QED
      BY <3>1, <3>2
  <2>2. QED
    BY <2>1 DEF ReadIsCollected, Native!Key, LineOf
<1>15. MarksAreRead' /\ AcceptedIsParsed'
  <2>1. {y \in DOMAIN lines' : y.event # "sample"}
          = {y \in DOMAIN lines : y.event # "sample"}
    BY <1>1, <1>3
  <2>2. QED
    BY <1>1, <2>1 DEF NativeInv, MarksAreRead, AcceptedIsParsed
<1>16. QED
  BY <1>3, <1>13, <1>14, <1>15 DEF NativeInv

LEMMA NativeStep == ASSUME NativeInv, [Native!Next]_nativeVars PROVE NativeInv'
<1>1. CASE UNCHANGED <<lines, collected, marks>>
           /\ (result' = "accepted" =>
                 result = "accepted" \/ (Native!Parsed /\ Native!Validated))
  BY <1>1 DEF NativeInv, LinesAreOnce, MarksAreRead, CollectedIsRead, ReadIsCollected,
              AcceptedIsParsed, LineOf, Native!Key, Native!Parsed, Native!Validated
<1>2. CASE UNCHANGED nativeVars
  BY <1>1, <1>2 DEF nativeVars
<1>3. CASE Native!EndOfFile
  BY <1>1, <1>3 DEF Native!EndOfFile
<1>4. ASSUME NEW l \in NativeLine, Native!Read(l) PROVE NativeInv'
  BY <1>4, MarkStep, CollectStep DEF Native!Read
<1>5. ASSUME NEW l \in NativeLine, Native!Refuse(l) PROVE NativeInv'
  BY <1>1, <1>5 DEF Native!Refuse
<1>6. QED
  BY <1>2, <1>3, <1>4, <1>5 DEF Native!Next

(* The hits of a measurement.                                              *)
Right(n, q, r) ==
  [event |-> "sample", round |-> n, query |-> q, rank |-> r,
   row |-> Expected[q][r + 1], latency |-> 1]

LEMMA MeasuredLines ==
  /\ Native!Measurement = SetToBag(DOMAIN Native!Measurement)
  /\ \A l : l \in DOMAIN Native!Measurement <=>
       \/ l \in Native!LifecycleLine
       \/ \E n \in 0 .. Warmup + Rounds - 1, q \in 0 .. Queries - 1, r \in 0 .. K - 1 :
            l = Right(n, q, r)
BY DEF Native!Measurement, Native!SetToBag, SetToBag, Right

(* Counting means the same in both modules.                                *)
LEMMA SameCount == ASSUME NEW S PROVE Native!Cardinality(S) = Cardinality(S)
BY DEF Native!Cardinality, Cardinality

(* There are as many samples as were required only when all are there.     *)
LEMMA AllKeys ==
  ASSUME NativeInv
  PROVE  Cardinality(DOMAIN collected) = (Warmup + Rounds) * Queries
           <=> DOMAIN collected = Keys
<1>1. /\ IsFiniteSet(0 .. Warmup + Rounds - 1) /\ IsFiniteSet(0 .. Queries - 1)
      /\ Cardinality(0 .. Warmup + Rounds - 1) = Warmup + Rounds
      /\ Cardinality(0 .. Queries - 1) = Queries
  BY Sizes, FS_Interval
<1> DEFINE R == 0 .. Warmup + Rounds - 1
           Q == 0 .. Queries - 1
<1>product. IsFiniteSet(R \X Q) /\ Cardinality(R \X Q) = Cardinality(R) * Cardinality(Q)
  <2>1. IsFiniteSet(R) /\ IsFiniteSet(Q)
    BY <1>1
  <2> HIDE DEF R, Q
  <2>2. QED
    BY <2>1, FS_Product
<1>2. IsFiniteSet(Keys) /\ Cardinality(Keys) = (Warmup + Rounds) * Queries
  <2>1. Cardinality(R) = Warmup + Rounds /\ Cardinality(Q) = Queries
    BY <1>1
  <2>2. Keys = R \X Q
    BY DEF Keys
  <2> HIDE DEF R, Q
  <2>3. QED
    BY <1>product, <2>1, <2>2, Zenon
<1>3. DOMAIN collected \subseteq Keys
  BY DEF NativeInv, CollectedIsRead
<1>4. QED
  BY <1>2, <1>3, FS_Subset

(* Both events were read if and only if their lines were.                  *)
LEMMA MarkLines ==
  ASSUME NativeInv, NEW e \in {"open", "close"}
  PROVE  e \in marks <=> [event |-> e] \in DOMAIN lines
<1>1. \A l \in DOMAIN lines : l.event # "sample" => l = [event |-> l.event]
  BY NativeLineTypes DEF NativeInv, LinesAreOnce
<1>2. QED
  BY <1>1 DEF NativeInv, MarksAreRead

(* A sample that has been collected has a hit, and that has its timing.    *)
LEMMA SampleHasHit ==
  ASSUME NativeInv, NEW k \in DOMAIN collected
  PROVE  \E r \in DOMAIN collected[k].hits : LineOf(k, r) \in DOMAIN lines
BY DEF NativeInv, CollectedIsRead

(* What is parsed and validated is a measurement.                          *)
LEMMA ParsedIsMeasured ==
  ASSUME NativeInv, Native!Parsed, Native!Validated
  PROVE  lines = Native!Measurement
<1>0. Cardinality(DOMAIN collected) = (Warmup + Rounds) * Queries
  BY SameCount DEF Native!Parsed
<1>1. DOMAIN collected = Keys
  BY <1>0, AllKeys
<1>2. \A k \in Keys : \A r \in 0 .. K - 1 :
        LineOf(k, r) = Right(k[1], k[2], r) /\ LineOf(k, r) \in DOMAIN lines
  <2> SUFFICES ASSUME NEW k \in Keys, NEW r \in 0 .. K - 1
               PROVE  LineOf(k, r) = Right(k[1], k[2], r) /\ LineOf(k, r) \in DOMAIN lines
    OBVIOUS
  <2>1. r \in DOMAIN collected[k].hits /\ collected[k].hits[r] = Expected[k[2]][r + 1]
    BY <1>1 DEF Native!Parsed, Native!Validated
  <2>2. LineOf(k, r) \in DOMAIN lines
    BY <1>1, <2>1 DEF NativeInv, CollectedIsRead
  <2>3. LineOf(k, r).event = "sample" /\ LineOf(k, r).latency = collected[k].latency
    BY DEF LineOf
  <2>4. collected[k].latency \in {0, 1} /\ collected[k].latency > 0
    BY <1>1, <2>2, <2>3, NativeLineTypes DEF NativeInv, LinesAreOnce, Native!Validated
  <2>5. QED
    BY <2>1, <2>2, <2>4 DEF LineOf, Right
<1>3. ASSUME NEW l \in DOMAIN lines PROVE l \in DOMAIN Native!Measurement
  <2>1. l \in NativeLine
    BY DEF NativeInv, LinesAreOnce
  <2>2. CASE l.event = "sample"
    <3> DEFINE k == Native!Key(l)
    <3>1. k \in Keys /\ l.rank \in DOMAIN collected[k].hits /\ l = LineOf(k, l.rank)
      BY <1>1, <2>2 DEF NativeInv, ReadIsCollected
    <3>2. l.rank \in 0 .. K - 1
      BY <1>1, <3>1 DEF Native!Parsed
    <3>3. l = Right(k[1], k[2], l.rank)
      BY <1>2, <3>1, <3>2
    <3>4. k[1] \in 0 .. Warmup + Rounds - 1 /\ k[2] \in 0 .. Queries - 1
      BY <3>1 DEF Keys
    <3>5. QED
      BY <3>2, <3>3, <3>4, MeasuredLines
  <2>3. CASE l.event # "sample"
    BY <2>1, <2>3, NativeLineTypes, MeasuredLines DEF Native!LifecycleLine
  <2>4. QED
    BY <2>2, <2>3
<1>4. ASSUME NEW l \in DOMAIN Native!Measurement PROVE l \in DOMAIN lines
  <2>1. CASE l \in Native!LifecycleLine
    <3>1. PICK e \in {"open", "close"} : l = [event |-> e]
      BY <2>1 DEF Native!LifecycleLine
    <3>2. QED
      BY <3>1, MarkLines DEF Native!Parsed
  <2>2. ASSUME NEW n \in 0 .. Warmup + Rounds - 1, NEW q \in 0 .. Queries - 1,
               NEW r \in 0 .. K - 1, l = Right(n, q, r)
        PROVE  l \in DOMAIN lines
    <3>1. <<n, q>> \in Keys /\ <<n, q>>[1] = n /\ <<n, q>>[2] = q
      BY DEF Keys
    <3>2. QED
      BY <1>2, <2>2, <3>1
  <2>3. QED
    BY <2>1, <2>2, MeasuredLines
<1>5. DOMAIN lines = DOMAIN Native!Measurement
  BY <1>3, <1>4
<1>6. QED
  BY <1>5, MeasuredLines DEF NativeInv, LinesAreOnce

(* A measurement is parsed and validated.                                  *)
LEMMA MeasuredIsParsed ==
  ASSUME NativeInv, lines = Native!Measurement
  PROVE  Native!Parsed /\ Native!Validated
<1>1. ASSUME NEW k \in Keys, NEW r \in 0 .. K - 1
      PROVE  /\ k \in DOMAIN collected /\ r \in DOMAIN collected[k].hits
             /\ collected[k].hits[r] = Expected[k[2]][r + 1]
             /\ collected[k].latency = 1
  <2> DEFINE l == Right(k[1], k[2], r)
  <2>1. l \in DOMAIN lines
    BY MeasuredLines DEF Keys
  <2>2. /\ l.event = "sample" /\ Native!Key(l) = k /\ l.rank = r
        /\ l.row = Expected[k[2]][r + 1] /\ l.latency = 1
    BY DEF Right, Native!Key, Keys
  <2> HIDE DEF l
  <2>3. k \in DOMAIN collected /\ r \in DOMAIN collected[k].hits /\ l = LineOf(k, r)
    BY <2>1, <2>2 DEF NativeInv, ReadIsCollected
  <2>4. LineOf(k, r).row = collected[k].hits[r] /\ LineOf(k, r).latency = collected[k].latency
    BY DEF LineOf
  <2>5. QED
    BY <2>2, <2>3, <2>4
<1>2. 0 \in 0 .. K - 1
  BY Sizes
<1>3. DOMAIN collected = Keys
  BY <1>1, <1>2 DEF NativeInv, CollectedIsRead
<1>4. Cardinality(DOMAIN collected) = (Warmup + Rounds) * Queries
  BY <1>3, AllKeys
<1>5. \A k \in DOMAIN collected : DOMAIN collected[k].hits = 0 .. K - 1
  BY <1>1, <1>3 DEF NativeInv, CollectedIsRead
<1>6. marks = {"open", "close"}
  <2>1. \A e \in {"open", "close"} : [event |-> e] \in DOMAIN lines
    BY MeasuredLines DEF Native!LifecycleLine
  <2>2. \A e \in {"open", "close"} : e \in marks
    BY <2>1, MarkLines
  <2>3. marks \subseteq {"open", "close"}
    BY NativeLineTypes DEF NativeInv, MarksAreRead, LinesAreOnce
  <2>4. QED
    BY <2>2, <2>3
<1>7. Native!Validated
  BY <1>1, <1>2, <1>3 DEF Native!Validated
<1>8. QED
  BY <1>4, <1>5, <1>6, <1>7, SameCount DEF Native!Parsed

(* What a measurement lacks in what was read is taken, in any order.       *)
LEMMA MissingIsTaken ==
  ASSUME NativeInv, DOMAIN lines \subseteq DOMAIN Native!Measurement,
         NEW l \in DOMAIN Native!Measurement, l \notin DOMAIN lines
  PROVE  Native!Takes(l)
<1>1. CASE l \in Native!LifecycleLine
  <2>1. PICK e \in {"open", "close"} : l = [event |-> e]
    BY <1>1 DEF Native!LifecycleLine
  <2>2. e \notin marks /\ l.event = e
    BY <2>1, MarkLines
  <2>3. QED
    BY <2>2 DEF Native!Takes
<1>2. ASSUME NEW n \in 0 .. Warmup + Rounds - 1, NEW q \in 0 .. Queries - 1,
             NEW r \in 0 .. K - 1, l = Right(n, q, r)
      PROVE  Native!Takes(l)
  <2> DEFINE k == Native!Key(l)
  <2>1. /\ l.event = "sample" /\ l.round = n /\ l.query = q /\ l.rank = r
        /\ l.latency = 1 /\ k[1] = n /\ k[2] = q
    BY <1>2 DEF Right, Native!Key
  <2>2. Native!InRange(l)
    BY <2>1, Sizes DEF Native!InRange
  <2> HIDE DEF k
  <2>3. ASSUME k \in DOMAIN collected, NEW o \in DOMAIN collected[k].hits
        PROVE  /\ LineOf(k, o) \in DOMAIN lines
               /\ LineOf(k, o) = Right(n, q, o) /\ collected[k].latency = 1
    <3>1. LineOf(k, o) \in DOMAIN lines /\ LineOf(k, o) \in DOMAIN Native!Measurement
      BY <2>3 DEF NativeInv, CollectedIsRead
    <3>2. /\ LineOf(k, o).event = "sample" /\ LineOf(k, o).round = n
          /\ LineOf(k, o).query = q /\ LineOf(k, o).rank = o
          /\ LineOf(k, o).latency = collected[k].latency
      BY <2>1 DEF LineOf
    <3>3. PICK m \in 0 .. Warmup + Rounds - 1, p \in 0 .. Queries - 1, i \in 0 .. K - 1 :
            LineOf(k, o) = Right(m, p, i)
      BY <3>1, <3>2, MeasuredLines DEF Native!LifecycleLine
    <3>4. m = n /\ p = q /\ i = o /\ collected[k].latency = 1
      BY <3>2, <3>3 DEF Right
    <3>5. QED
      BY <3>1, <3>3, <3>4
  <2>4. k \in DOMAIN collected => l.rank \notin DOMAIN collected[k].hits
    BY <1>2, <2>1, <2>3
  <2>5. k \in DOMAIN collected => collected[k].latency = l.latency
    BY <2>1, <2>3, SampleHasHit
  <2>6. QED
    BY <2>1, <2>2, <2>4, <2>5 DEF Native!Takes, Native!Fits, k
<1>3. QED
  BY <1>1, <1>2, MeasuredLines

LEMMA NativeIsExact == ASSUME NativeInv PROVE AcceptedIsMeasurement
<1>1. result = "accepted" => lines = Native!Measurement
  BY ParsedIsMeasured DEF NativeInv, AcceptedIsParsed
<1>2. lines = Native!Measurement => Native!Parsed /\ Native!Validated
  BY MeasuredIsParsed
<1>3. ASSUME Native!\sqsubseteq(lines, Native!Measurement),
             NEW l \in DOMAIN Native!Measurement \ DOMAIN lines
      PROVE  Native!Takes(l)
  <2>1. DOMAIN lines \subseteq DOMAIN Native!Measurement
    BY <1>3 DEF Native!\sqsubseteq
  <2>2. QED
    BY <2>1, MissingIsTaken
<1>4. QED
  BY <1>1, <1>2, <1>3 DEF AcceptedIsMeasurement, Native!AcceptedIsMeasurement

-----------------------------------------------------------------------------
(***************************************************************************)
(* The reader of cache counters.                                           *)
(***************************************************************************)
AllRounds == DiagnosticWarmup + DiagnosticRounds
CloseAt == 2 * AllRounds + 5

(* Where the phases before and after a round are.                          *)
BeforeAt(r) == IF r = 0 THEN 3 ELSE 5 + 2 * r
AfterAt(r)  == 6 + 2 * r

(* What snapshot i of ss says of a counter; one that is not there counts   *)
(* nothing.                                                                *)
Shown(ss, i) == DOMAIN ss[i].counters
Value(ss, i, a) == Counters!Count(ss[i].counters, a)

Names == {Counters!BeforeOpen, Counters!Ready, Counters!BeforeFirst, Counters!AfterFirst,
          Counters!AfterClose}
            \cup {Counters!BeforeRound(r) : r \in Nat} \cup {Counters!AfterRound(r) : r \in Nat}

Snapshots == [phase : Names,
              counters : UNION {[D -> Nat] : D \in SUBSET Access}]

CounterTypes ==
  /\ total \in [Access -> Nat] /\ inMeasured \in [Access -> Nat]
  /\ registered \subseteq Access
  /\ snapshots \in Seq(Snapshots) /\ Len(snapshots) <= CloseAt
  /\ \A i \in 1 .. Len(snapshots) : snapshots[i].phase = Counters!Phases[i]
  /\ \A a \in Access \ registered : total[a] = 0

(* Until the recorder closes, every snapshot shows the counters so far, and*)
(* nothing gets lost or smaller from any of them to any later one.         *)
SnapshotsGrow ==
  \A i, j \in 1 .. Len(snapshots) : i <= j /\ j < CloseAt =>
    /\ Shown(snapshots, i) \subseteq Shown(snapshots, j)
    /\ \A a \in Access : Value(snapshots, i, a) <= Value(snapshots, j, a)

(* A snapshot shows what has been counted; the last may show nothing.      *)
ShowsTotal(i) ==
  /\ Shown(snapshots, i) = registered
  /\ \A a \in Access : Value(snapshots, i, a) = total[a]

NewestIsTotal ==
  LET n == Len(snapshots)
  IN  /\ n \in 1 .. CloseAt - 1 => ShowsTotal(n)
      /\ n = CloseAt =>
           /\ Shown(snapshots, CloseAt - 1) \subseteq registered
           /\ \A a \in Access : Value(snapshots, CloseAt - 1, a) <= total[a]
           /\ ShowsTotal(CloseAt) \/ Shown(snapshots, CloseAt) = {}

(* The sums s of the measured rounds that are over, added up one by one,   *)
(* and how far the accesses of measured rounds have got beyond them.       *)
MeasuredBefore(k) == BeforeAt(DiagnosticWarmup + k)
MeasuredAfter(k)  == AfterAt(DiagnosticWarmup + k)

IsSumOfRounds(ss, s) ==
  /\ s \in [0 .. DiagnosticRounds -> [Access -> Int]]
  /\ \A a \in Access : s[0][a] = 0
  /\ \A k \in 0 .. DiagnosticRounds - 1 : MeasuredAfter(k) <= Len(ss) =>
       \A a \in Access :
         s[k + 1][a] = s[k][a] + (Value(ss, MeasuredAfter(k), a)
                                    - Value(ss, MeasuredBefore(k), a))

CountedSoFar(s) ==
  LET n == Len(snapshots)
  IN  /\ n < MeasuredBefore(0) => \A a \in Access : inMeasured[a] = s[0][a]
      /\ \A k \in 0 .. DiagnosticRounds - 1 :
           /\ MeasuredBefore(k) <= n /\ n < MeasuredAfter(k) =>
                \A a \in Access :
                  inMeasured[a] = s[k][a] + (total[a] - Value(snapshots, MeasuredBefore(k), a))
           /\ n = MeasuredAfter(k) \/ (MeasuredAfter(k) < n /\ k = DiagnosticRounds - 1) =>
                \A a \in Access : inMeasured[a] = s[k + 1][a]

MeasuredIsSum == \E s : IsSumOfRounds(snapshots, s) /\ CountedSoFar(s)

CountersInv ==
  /\ CounterTypes
  /\ kind = "cumulative" => SnapshotsGrow /\ NewestIsTotal /\ MeasuredIsSum

LEMMA CounterConstants ==
  /\ DiagnosticWarmup \in Nat /\ DiagnosticRounds \in Nat \ {0} /\ MaxWork \in Nat
  /\ AllRounds \in Nat \ {0} /\ CloseAt \in Nat /\ CloseAt >= 7
<1>1. DiagnosticWarmup \in Nat /\ DiagnosticRounds \in Nat \ {0} /\ MaxWork \in Nat
  BY ReaderParameters DEF Counters!Parameters
<1>2. QED
  BY <1>1 DEF AllRounds, CloseAt

(* Sequences: a function on 1 .. n is one.                                 *)
LEMMA FunctionIsSeq ==
  ASSUME NEW S, NEW n \in Nat, NEW f \in [1 .. n -> S]
  PROVE  f \in Seq(S) /\ Len(f) = n
<1>1. f \in Seq(S)
  OBVIOUS
<1>2. DOMAIN f = 1 .. n
  OBVIOUS
<1>3. Len(f) \in Nat /\ DOMAIN f = 1 .. Len(f)
  BY <1>1, LenProperties
<1>4. QED
  BY <1>1, <1>2, <1>3

LEMMA SixInARow ==
  ASSUME NEW S, NEW a \in S, NEW b \in S, NEW c \in S, NEW d \in S, NEW e \in S,
         NEW f \in S
  PROVE  /\ <<a, b, c, d, e, f>> \in Seq(S) /\ Len(<<a, b, c, d, e, f>>) = 6
         /\ <<a, b, c, d, e, f>>[1] = a /\ <<a, b, c, d, e, f>>[2] = b
         /\ <<a, b, c, d, e, f>>[3] = c /\ <<a, b, c, d, e, f>>[4] = d
         /\ <<a, b, c, d, e, f>>[5] = e /\ <<a, b, c, d, e, f>>[6] = f
OBVIOUS

LEMMA OneInARow ==
  ASSUME NEW S, NEW a \in S
  PROVE  <<a>> \in Seq(S) /\ Len(<<a>>) = 1 /\ <<a>>[1] = a
OBVIOUS

(* The phases, by number.                                                  *)
Later(d) == IF d % 2 = 1 THEN Counters!BeforeRound((d + 1) \div 2)
                         ELSE Counters!AfterRound(d \div 2)

LEMMA NamesAre ==
  /\ Counters!BeforeOpen \in Names /\ Counters!Ready \in Names
  /\ Counters!BeforeFirst \in Names /\ Counters!AfterFirst \in Names
  /\ Counters!AfterClose \in Names
  /\ \A r \in Nat : Counters!BeforeRound(r) \in Names /\ Counters!AfterRound(r) \in Names
BY DEF Names

LEMMA PhaseList ==
  /\ Counters!Phases \in Seq(Names) /\ Len(Counters!Phases) = CloseAt
  /\ \A i \in 1 .. CloseAt : Counters!Phases[i] =
       IF i = 1 THEN Counters!BeforeOpen
       ELSE IF i = 2 THEN Counters!Ready
       ELSE IF i = 3 THEN Counters!BeforeRound(0)
       ELSE IF i = 4 THEN Counters!BeforeFirst
       ELSE IF i = 5 THEN Counters!AfterFirst
       ELSE IF i = 6 THEN Counters!AfterRound(0)
       ELSE IF i = CloseAt THEN Counters!AfterClose
       ELSE Later(i - 6)
<1> DEFINE T == Names
           n == 2 * (DiagnosticWarmup + DiagnosticRounds - 1)
           head == <<Counters!BeforeOpen, Counters!Ready, Counters!BeforeRound(0),
                     Counters!BeforeFirst, Counters!AfterFirst, Counters!AfterRound(0)>>
           others == [i \in 1 .. n |->
                       IF i % 2 = 1 THEN Counters!BeforeRound((i + 1) \div 2)
                                    ELSE Counters!AfterRound(i \div 2)]
           end == <<Counters!AfterClose>>
<1>1. Counters!Phases = (head \o others) \o end
  BY DEF Counters!Phases, Counters!phases
<1>2. n \in Nat /\ CloseAt = 6 + n + 1
  BY CounterConstants DEF CloseAt, AllRounds
<1> HIDE DEF n
<1>3. /\ head \in Seq(T) /\ Len(head) = 6
      /\ head[1] = Counters!BeforeOpen /\ head[2] = Counters!Ready
      /\ head[3] = Counters!BeforeRound(0) /\ head[4] = Counters!BeforeFirst
      /\ head[5] = Counters!AfterFirst /\ head[6] = Counters!AfterRound(0)
  <2> HIDE DEF T
  <2>1. /\ Counters!BeforeOpen \in T /\ Counters!Ready \in T
        /\ Counters!BeforeRound(0) \in T /\ Counters!BeforeFirst \in T
        /\ Counters!AfterFirst \in T /\ Counters!AfterRound(0) \in T
    BY NamesAre DEF T
  <2>2. QED
    BY <2>1, SixInARow
<1>4. others \in Seq(T) /\ Len(others) = n
  <2>1. ASSUME NEW i \in 1 .. n PROVE others[i] \in T
    <3>1. i \div 2 \in Nat /\ (i + 1) \div 2 \in Nat
      BY <1>2, Divided
    <3>2. QED
      BY <3>1, NamesAre
  <2>2. others \in [1 .. n -> T]
    <3> HIDE DEF T
    <3>1. QED
      BY <2>1
  <2> HIDE DEF others, T
  <2>3. QED
    BY <1>2, <2>2, FunctionIsSeq
<1>5. end \in Seq(T) /\ Len(end) = 1 /\ end[1] = Counters!AfterClose
  <2> HIDE DEF T
  <2>1. Counters!AfterClose \in T
    BY NamesAre DEF T
  <2>2. QED
    BY <2>1, OneInARow
<1>7. \A i \in 1 .. n : others[i] = Later(i)
  BY DEF Later
<1> HIDE DEF T, head, others, end
<1>8. /\ head \o others \in Seq(T) /\ Len(head \o others) = 6 + n
      /\ \A i \in 1 .. 6 + n :
           (head \o others)[i] = IF i <= 6 THEN head[i] ELSE others[i - 6]
  <2>1. Len(head) \in Nat /\ Len(others) \in Nat
    BY <1>2, <1>3, <1>4
  <2> DEFINE m == Len(head)
  <2>2. /\ head \o others \in Seq(T) /\ Len(head \o others) = m + n
        /\ \A i \in 1 .. m + n :
             (head \o others)[i] = IF i <= m THEN head[i] ELSE others[i - m]
    <3> HIDE DEF m
    <3>1. m \in Nat /\ Len(head) = m
      BY <2>1 DEF m
    <3>2. head \in Seq(T) /\ others \in Seq(T) /\ n \in Nat /\ Len(others) = n
      BY <1>2, <1>3, <1>4
    <3>3. QED
      BY <3>1, <3>2
  <2>3. QED
    BY <1>3, <2>2
<1> DEFINE both == head \o others
<1> HIDE DEF both
<1>9. /\ both \o end \in Seq(T) /\ Len(both \o end) = 6 + n + 1
      /\ \A i \in 1 .. 6 + n + 1 : (both \o end)[i] =
           IF i <= 6 + n THEN both[i] ELSE end[i - (6 + n)]
  <2>1. both \in Seq(T) /\ Len(both) = 6 + n /\ 6 + n \in Nat
    BY <1>2, <1>8 DEF both
  <2> DEFINE m == 6 + n
  <2> HIDE DEF m
  <2>2. m \in Nat /\ both \in Seq(T) /\ Len(both) = m
    BY <2>1 DEF m
  <2>3. /\ both \o end \in Seq(T) /\ Len(both \o end) = m + Len(end)
        /\ \A i \in 1 .. m + Len(end) : (both \o end)[i] =
             IF i <= m THEN both[i] ELSE end[i - m]
    <3> DEFINE l == Len(end)
    <3>1. l \in Nat
      BY <1>5
    <3> HIDE DEF l
    <3>2. Len(end) = l
      BY DEF l
    <3>3. end \in Seq(T) /\ both \in Seq(T) /\ m \in Nat /\ Len(both) = m
      BY <1>5, <2>2
    <3>4. QED
      BY <3>1, <3>2, <3>3
  <2>4. QED
    BY <1>5, <2>3 DEF m
<1>10. Counters!Phases = both \o end
  BY <1>1 DEF both
<1>11. \A i \in 1 .. CloseAt : Counters!Phases[i] =
         IF i <= 6 THEN head[i] ELSE IF i = CloseAt THEN end[1] ELSE others[i - 6]
  <2> SUFFICES ASSUME NEW i \in 1 .. CloseAt
               PROVE  Counters!Phases[i] =
                        IF i <= 6 THEN head[i] ELSE IF i = CloseAt THEN end[1]
                        ELSE others[i - 6]
    OBVIOUS
  <2>1. i \in 1 .. 6 + n + 1
    BY <1>2
  <2>2. Counters!Phases[i] = IF i <= 6 + n THEN both[i] ELSE end[i - (6 + n)]
    BY <1>9, <1>10, <2>1
  <2>3. i <= 6 + n => both[i] = IF i <= 6 THEN head[i] ELSE others[i - 6]
    BY <1>8, <2>1 DEF both
  <2>4. i > 6 + n => i = CloseAt /\ i - (6 + n) = 1 /\ ~(i <= 6)
    BY <1>2, <2>1
  <2>5. i <= 6 + n => i # CloseAt
    BY <1>2, <2>1
  <2>6. CASE i <= 6 + n
    BY <2>2, <2>3, <2>5, <2>6
  <2>7. CASE i > 6 + n
    BY <1>2, <2>1, <2>2, <2>4, <2>7
  <2>8. QED
    BY <1>2, <2>1, <2>6, <2>7
<1>12. \A i \in 1 .. CloseAt : i > 6 /\ i # CloseAt => i - 6 \in 1 .. n
  BY <1>2
<1>13. Counters!Phases \in Seq(T) /\ Len(Counters!Phases) = CloseAt
  BY <1>2, <1>9, <1>10
<1>14. QED
  BY <1>2, <1>3, <1>5, <1>7, <1>11, <1>12, <1>13 DEF T

LEMMA NamesDiffer ==
  ASSUME NEW r, NEW q
  PROVE  /\ Counters!BeforeRound(r) = Counters!BeforeRound(q) <=> r = q
         /\ Counters!AfterRound(r) = Counters!AfterRound(q) <=> r = q
         /\ Counters!BeforeRound(r) # Counters!AfterRound(q)
         /\ \A name \in {Counters!BeforeOpen, Counters!Ready, Counters!BeforeFirst,
                          Counters!AfterFirst, Counters!AfterClose} :
              name # Counters!BeforeRound(r) /\ name # Counters!AfterRound(r)
BY DEF Counters!BeforeOpen, Counters!Ready, Counters!BeforeRound, Counters!BeforeFirst,
       Counters!AfterFirst, Counters!AfterRound, Counters!AfterClose

(* A round has one phase before and one after it.                          *)
LEMMA RoundPhases ==
  ASSUME NEW r \in 0 .. AllRounds - 1
  PROVE  /\ BeforeAt(r) \in 1 .. CloseAt - 1 /\ AfterAt(r) \in 1 .. CloseAt - 1
         /\ BeforeAt(r) < AfterAt(r)
         /\ \A i \in 1 .. CloseAt :
              /\ Counters!Phases[i] = Counters!BeforeRound(r) <=> i = BeforeAt(r)
              /\ Counters!Phases[i] = Counters!AfterRound(r) <=> i = AfterAt(r)
<1>1. r \in Nat /\ r <= AllRounds - 1
  BY CounterConstants
<1>2. /\ BeforeAt(r) \in 1 .. CloseAt - 1 /\ AfterAt(r) \in 1 .. CloseAt - 1
      /\ BeforeAt(r) < AfterAt(r)
  BY <1>1, CounterConstants DEF BeforeAt, AfterAt, CloseAt
<1>3. ASSUME NEW i \in 1 .. CloseAt
      PROVE  /\ Counters!Phases[i] = Counters!BeforeRound(r) <=> i = BeforeAt(r)
             /\ Counters!Phases[i] = Counters!AfterRound(r) <=> i = AfterAt(r)
  <2>1. CASE i <= 6
    <3>1. i \in {1, 2, 3, 4, 5, 6} /\ CloseAt > 6
      BY <2>1, CounterConstants
    <3>2. Counters!Phases[i] =
            IF i = 1 THEN Counters!BeforeOpen
            ELSE IF i = 2 THEN Counters!Ready
            ELSE IF i = 3 THEN Counters!BeforeRound(0)
            ELSE IF i = 4 THEN Counters!BeforeFirst
            ELSE IF i = 5 THEN Counters!AfterFirst
            ELSE Counters!AfterRound(0)
      BY <3>1, PhaseList
    <3>a. /\ Counters!BeforeRound(r) = Counters!BeforeRound(0) <=> r = 0
          /\ Counters!AfterRound(r) = Counters!AfterRound(0) <=> r = 0
          /\ Counters!BeforeRound(r) # Counters!AfterRound(0)
          /\ Counters!BeforeRound(0) # Counters!AfterRound(r)
      BY NamesDiffer
    <3>b. \A name \in {Counters!BeforeOpen, Counters!Ready, Counters!BeforeFirst,
                       Counters!AfterFirst, Counters!AfterClose} :
            name # Counters!BeforeRound(r) /\ name # Counters!AfterRound(r)
      BY NamesDiffer
    <3>3. Counters!Phases[i] = Counters!BeforeRound(r) <=> i = 3 /\ r = 0
      BY <3>1, <3>2, <3>a, <3>b
    <3>4. Counters!Phases[i] = Counters!AfterRound(r) <=> i = 6 /\ r = 0
      BY <3>1, <3>2, <3>a, <3>b
    <3>5. i = BeforeAt(r) <=> i = 3 /\ r = 0
      BY <1>1, <3>1 DEF BeforeAt
    <3>6. i = AfterAt(r) <=> i = 6 /\ r = 0
      BY <1>1, <3>1 DEF AfterAt
    <3>7. QED
      BY <3>3, <3>4, <3>5, <3>6
  <2>2. CASE i = CloseAt
    <3>1. Counters!Phases[i] = Counters!AfterClose
      BY <2>2, PhaseList, CounterConstants
    <3>2. Counters!Phases[i] # Counters!BeforeRound(r) /\ Counters!Phases[i] # Counters!AfterRound(r)
      BY <3>1, NamesDiffer
    <3>3. i # BeforeAt(r) /\ i # AfterAt(r)
      BY <1>2, <2>2, CounterConstants
    <3>4. QED
      BY <3>2, <3>3
  <2>3. CASE i > 6 /\ i # CloseAt
    <3> DEFINE d == i - 6
    <3>1. d \in Nat \ {0} /\ i = d + 6
      BY <2>3
    <3>2. Counters!Phases[i] = IF d % 2 = 1 THEN Counters!BeforeRound((d + 1) \div 2)
                                            ELSE Counters!AfterRound(d \div 2)
      BY <2>3, PhaseList, CounterConstants DEF Later
    <3> HIDE DEF d
    <3>3. /\ d % 2 \in {0, 1} /\ d = 2 * (d \div 2) + (d % 2) /\ d \div 2 \in Nat
          /\ d % 2 = 1 => (d + 1) \div 2 = (d \div 2) + 1
      BY <3>1
    <3>4. QED
      BY <1>1, <3>1, <3>2, <3>3, NamesDiffer DEF BeforeAt, AfterAt
  <2>4. QED
    BY <2>1, <2>2, <2>3
<1>4. QED
  BY <1>2, <1>3

(* The measured rounds lie one after the other, with no phase between the  *)
(* end of one and the beginning of the next.                               *)
LEMMA MeasuredRoundsInOrder ==
  ASSUME NEW k \in 0 .. DiagnosticRounds - 1
  PROVE  /\ DiagnosticWarmup + k \in 0 .. AllRounds - 1
         /\ MeasuredBefore(k) \in 1 .. CloseAt - 1 /\ MeasuredAfter(k) \in 1 .. CloseAt - 1
         /\ MeasuredBefore(k) < MeasuredAfter(k)
         /\ MeasuredBefore(0) <= MeasuredBefore(k)
         /\ k > 0 => MeasuredBefore(k) = MeasuredAfter(k - 1) + 1
         /\ \A j \in 0 .. DiagnosticRounds - 1 : j < k => MeasuredAfter(j) < MeasuredBefore(k)
<1>1. /\ k \in Nat /\ k <= DiagnosticRounds - 1 /\ DiagnosticWarmup \in Nat
      /\ DiagnosticRounds \in Nat /\ CloseAt = 2 * (DiagnosticWarmup + DiagnosticRounds) + 5
      /\ AllRounds = DiagnosticWarmup + DiagnosticRounds
  BY CounterConstants DEF CloseAt, AllRounds
<1>2. QED
  BY <1>1 DEF MeasuredBefore, MeasuredAfter, BeforeAt, AfterAt

(* Which snapshots are taken in a measured round.                          *)
LEMMA InMeasuredRoundAt ==
  ASSUME NEW i \in 1 .. CloseAt
  PROVE  Counters!InMeasuredRound(i) <=>
           \E k \in 0 .. DiagnosticRounds - 1 : MeasuredBefore(k) < i /\ i <= MeasuredAfter(k)
<1>1. DOMAIN Counters!Phases = 1 .. CloseAt
  BY PhaseList, LenProperties
<1>2. ASSUME NEW k \in 0 .. DiagnosticRounds - 1, MeasuredBefore(k) < i, i <= MeasuredAfter(k)
      PROVE  Counters!InMeasuredRound(i)
  <2> DEFINE r == DiagnosticWarmup + k
  <2>1. /\ r \in 0 .. AllRounds - 1 /\ MeasuredBefore(k) \in 1 .. CloseAt
        /\ MeasuredAfter(k) \in 1 .. CloseAt
    BY MeasuredRoundsInOrder, CounterConstants
  <2>2. r \in DiagnosticWarmup .. DiagnosticWarmup + DiagnosticRounds - 1
    BY CounterConstants
  <2>3. /\ Counters!Phases[MeasuredBefore(k)] = Counters!BeforeRound(r)
        /\ Counters!Phases[MeasuredAfter(k)] = Counters!AfterRound(r)
    <3> HIDE DEF r
    <3>1. MeasuredBefore(k) = BeforeAt(r) /\ MeasuredAfter(k) = AfterAt(r)
      BY DEF MeasuredBefore, MeasuredAfter, r
    <3>2. QED
      BY <2>1, <3>1, RoundPhases
  <2> HIDE DEF r
  <2>4. QED
    BY <1>1, <1>2, <2>1, <2>2, <2>3 DEF Counters!InMeasuredRound
<1>3. ASSUME Counters!InMeasuredRound(i)
      PROVE  \E k \in 0 .. DiagnosticRounds - 1 : MeasuredBefore(k) < i /\ i <= MeasuredAfter(k)
  <2>1. PICK r \in DiagnosticWarmup .. DiagnosticWarmup + DiagnosticRounds - 1,
             b \in DOMAIN Counters!Phases, a \in DOMAIN Counters!Phases :
          /\ Counters!Phases[b] = Counters!BeforeRound(r)
          /\ Counters!Phases[a] = Counters!AfterRound(r)
          /\ b < i /\ i <= a
    BY <1>3 DEF Counters!InMeasuredRound
  <2>2. r \in 0 .. AllRounds - 1 /\ r - DiagnosticWarmup \in 0 .. DiagnosticRounds - 1
        /\ r = DiagnosticWarmup + (r - DiagnosticWarmup)
    BY CounterConstants DEF AllRounds
  <2>3. b = BeforeAt(r) /\ a = AfterAt(r)
    BY <1>1, <2>1, <2>2, RoundPhases
  <2>4. b = MeasuredBefore(r - DiagnosticWarmup) /\ a = MeasuredAfter(r - DiagnosticWarmup)
    BY <2>2, <2>3 DEF MeasuredBefore, MeasuredAfter
  <2>5. QED
    BY <2>1, <2>2, <2>4
<1>4. QED
  BY <1>2, <1>3

(* Nothing has been counted at first.                                      *)
LEMMA CountersInit == Counters!Init => CountersInv
<1> SUFFICES ASSUME Counters!Init PROVE CountersInv
  OBVIOUS
<1>1. /\ total = [a \in Access |-> 0] /\ inMeasured = [a \in Access |-> 0]
      /\ registered = {} /\ snapshots = <<>>
  BY DEF Counters!Init, Counters!Zero
<1>2. snapshots \in Seq(Snapshots) /\ Len(snapshots) = 0
  BY <1>1, EmptySeq
<1>3. CounterTypes
  BY <1>1, <1>2, CounterConstants DEF CounterTypes
<1>4. SnapshotsGrow /\ NewestIsTotal
  BY <1>2, CounterConstants DEF SnapshotsGrow, NewestIsTotal
<1>5. MeasuredIsSum
  <2> DEFINE s == [k \in 0 .. DiagnosticRounds |-> [a \in Access |-> 0]]
  <2>1. \A k \in 0 .. DiagnosticRounds - 1 : MeasuredBefore(k) > 0 /\ MeasuredAfter(k) > 0
    BY MeasuredRoundsInOrder
  <2>2. IsSumOfRounds(snapshots, s)
    <3>1. 0 \in 0 .. DiagnosticRounds
      BY CounterConstants
    <3>2. s \in [0 .. DiagnosticRounds -> [Access -> Int]]
      OBVIOUS
    <3>3. \A k \in 0 .. DiagnosticRounds - 1 : ~(MeasuredAfter(k) <= Len(snapshots))
      BY <1>2, MeasuredRoundsInOrder
    <3>4. QED
      BY <3>1, <3>2, <3>3 DEF IsSumOfRounds
  <2>3. CountedSoFar(s)
    <3>1. \A a \in Access : inMeasured[a] = s[0][a]
      BY <1>1, CounterConstants
    <3>2. \A k \in 0 .. DiagnosticRounds - 1 :
            /\ ~(MeasuredBefore(k) <= Len(snapshots))
            /\ ~(Len(snapshots) = MeasuredAfter(k)) /\ ~(MeasuredAfter(k) < Len(snapshots))
      BY <1>2, MeasuredRoundsInOrder
    <3> HIDE DEF s
    <3>3. QED
      BY <3>1, <3>2 DEF CountedSoFar
  <2> HIDE DEF s
  <2>4. QED
    BY <2>2, <2>3 DEF MeasuredIsSum
<1>6. QED
  BY <1>3, <1>4, <1>5 DEF CountersInv

(* A snapshot shows every counter known, with what it has counted, unless  *)
(* it is the last and lost.                                                *)
SnapshotTaken(work, more, lost) ==
  LET next  == Len(snapshots) + 1
      known == registered \cup more \cup {a \in Access : work[a] > 0}
      value == IF kind = "cumulative" THEN Counters!Plus(total, work) ELSE work
  IN  /\ work \in [Access -> 0 .. MaxWork] /\ more \subseteq Access
      /\ next <= CloseAt /\ (lost => next = CloseAt)
      /\ total' = Counters!Plus(total, work)
      /\ inMeasured' = IF Counters!InMeasuredRound(next) THEN Counters!Plus(inMeasured, work)
                                                         ELSE inMeasured
      /\ registered' = known /\ kind' = kind
      /\ snapshots' = Append(snapshots,
           [phase |-> Counters!Phases[next],
            counters |-> [a \in IF lost THEN {} ELSE known |-> value[a]]])

LEMMA SnapshotIsTaken ==
  ASSUME CounterTypes, Counters!Snapshot
  PROVE  \E work, more, lost : SnapshotTaken(work, more, lost)
<1>1. PICK work \in [Access -> 0 .. MaxWork], more \in SUBSET Access, lost \in BOOLEAN :
        LET next  == Len(snapshots) + 1
            known == registered \cup more \cup {a \in Access : work[a] > 0}
            value == IF kind = "cumulative" THEN Counters!Plus(total, work) ELSE work
        IN  /\ lost => next = Len(Counters!Phases)
            /\ total' = Counters!Plus(total, work)
            /\ inMeasured' = IF Counters!InMeasuredRound(next) THEN Counters!Plus(inMeasured, work)
                                                               ELSE inMeasured
            /\ registered' = known
            /\ snapshots' = Append(snapshots,
                 [phase |-> Counters!Phases[next],
                  counters |-> [a \in IF lost THEN {} ELSE known |-> value[a]]])
  BY DEF Counters!Snapshot
<1>2. Len(snapshots) # CloseAt /\ kind' = kind
  BY PhaseList DEF Counters!Snapshot, Counters!Written
<1>3. Len(snapshots) \in Nat /\ Len(snapshots) <= CloseAt
  BY LenProperties DEF CounterTypes
<1>4. Len(snapshots) + 1 <= CloseAt
  BY <1>2, <1>3, CounterConstants
<1>5. Len(Counters!Phases) = CloseAt
  BY PhaseList
<1>6. SnapshotTaken(work, more, lost)
  BY <1>1, <1>2, <1>4, <1>5 DEF SnapshotTaken
<1>7. QED
  BY <1>6

(* What that leaves.                                                       *)
LEMMA SnapshotAdds ==
  ASSUME CounterTypes, NEW work, NEW more, NEW lost, SnapshotTaken(work, more, lost)
  PROVE  LET n == Len(snapshots)
         IN  /\ n \in Nat /\ n + 1 \in 1 .. CloseAt
             /\ work \in [Access -> Nat]
             /\ \A a \in Access : total'[a] = total[a] + work[a]
             /\ registered \subseteq registered'
             /\ snapshots' \in Seq(Snapshots) /\ Len(snapshots') = n + 1
             /\ \A i \in 1 .. n : snapshots'[i] = snapshots[i]
             /\ snapshots'[n + 1].phase = Counters!Phases[n + 1]
             /\ Shown(snapshots', n + 1) = IF lost THEN {} ELSE registered'
             /\ kind = "cumulative" /\ ~lost =>
                  \A a \in Access : Value(snapshots', n + 1, a) = total'[a]
             /\ CounterTypes'
<1> DEFINE n == Len(snapshots)
           known == registered \cup more \cup {a \in Access : work[a] > 0}
           value == IF kind = "cumulative" THEN Counters!Plus(total, work) ELSE work
           D == IF lost THEN {} ELSE known
           new == [phase |-> Counters!Phases[n + 1], counters |-> [a \in D |-> value[a]]]
<1>1. /\ work \in [Access -> 0 .. MaxWork] /\ more \subseteq Access
      /\ n + 1 <= CloseAt /\ (lost => n + 1 = CloseAt)
      /\ total' = Counters!Plus(total, work)
      /\ inMeasured' = IF Counters!InMeasuredRound(n + 1) THEN Counters!Plus(inMeasured, work)
                                                          ELSE inMeasured
      /\ registered' = known /\ kind' = kind
      /\ snapshots' = Append(snapshots, new)
  BY DEF SnapshotTaken
<1>2. /\ total \in [Access -> Nat] /\ inMeasured \in [Access -> Nat]
      /\ registered \subseteq Access /\ snapshots \in Seq(Snapshots)
      /\ \A i \in 1 .. n : snapshots[i].phase = Counters!Phases[i]
      /\ \A a \in Access \ registered : total[a] = 0
  BY DEF CounterTypes
<1>3. n \in Nat /\ n + 1 \in 1 .. CloseAt
  <2>1. n \in Nat
    BY <1>2, LenProperties
  <2>2. QED
    BY <1>1, <2>1, CounterConstants
<1>4. work \in [Access -> Nat]
  BY <1>1, CounterConstants
<1>5. /\ Counters!Plus(total, work) \in [Access -> Nat]
      /\ Counters!Plus(inMeasured, work) \in [Access -> Nat]
      /\ \A a \in Access : Counters!Plus(total, work)[a] = total[a] + work[a]
  BY <1>2, <1>4 DEF Counters!Plus
<1>6. /\ total' \in [Access -> Nat] /\ inMeasured' \in [Access -> Nat]
      /\ \A a \in Access : total'[a] = total[a] + work[a]
  BY <1>1, <1>2, <1>5
<1>7. known \subseteq Access /\ registered \subseteq known
  BY <1>1, <1>2
<1>8. value \in [Access -> Nat]
  BY <1>4, <1>5
<1> HIDE DEF value
<1>9. new \in Snapshots
  <2>1. Counters!Phases[n + 1] \in Names
    BY <1>3, PhaseList, ElementOfSeq
  <2>2. D \in SUBSET Access
    BY <1>7
  <2> HIDE DEF D
  <2>3. [a \in D |-> value[a]] \in [D -> Nat]
    BY <1>8, <2>2
  <2>4. QED
    BY <2>1, <2>2, <2>3 DEF Snapshots
<1>10. new.phase = Counters!Phases[n + 1] /\ new.counters = [a \in D |-> value[a]]
  OBVIOUS
<1> HIDE DEF new, n
<1>11. /\ snapshots' \in Seq(Snapshots) /\ Len(snapshots') = n + 1
       /\ \A i \in 1 .. n : snapshots'[i] = snapshots[i]
       /\ snapshots'[n + 1] = new
  BY <1>1, <1>2, <1>3, <1>9 DEF n
<1>12. Shown(snapshots', n + 1) = D
  BY <1>10, <1>11 DEF Shown
<1>13. \A a \in Access \ registered' : total'[a] = 0
  <2> SUFFICES ASSUME NEW a \in Access \ known PROVE total'[a] = 0
    BY <1>1
  <2>1. a \notin registered /\ ~(work[a] > 0)
    OBVIOUS
  <2>2. total[a] = 0 /\ work[a] = 0
    BY <1>2, <1>4, <2>1
  <2>3. QED
    BY <1>6, <2>2
<1>14. ASSUME kind = "cumulative", ~lost, NEW a \in Access
       PROVE  Value(snapshots', n + 1, a) = total'[a]
  <2>1. D = known /\ value[a] = total'[a]
    BY <1>1, <1>14 DEF value
  <2>2. Value(snapshots', n + 1, a) = Counters!Count([b \in D |-> value[b]], a)
    BY <1>10, <1>11 DEF Value
  <2> HIDE DEF D, known
  <2>3. CASE a \in D
    BY <2>1, <2>2, <2>3 DEF Counters!Count
  <2>4. CASE a \notin D
    <3>1. total'[a] = 0
      BY <1>1, <1>13, <2>1, <2>4
    <3>2. QED
      BY <2>2, <2>4, <3>1 DEF Counters!Count
  <2>5. QED
    BY <2>3, <2>4
<1>15. \A i \in 1 .. n + 1 : snapshots'[i].phase = Counters!Phases[i]
  <2> SUFFICES ASSUME NEW i \in 1 .. n + 1 PROVE snapshots'[i].phase = Counters!Phases[i]
    OBVIOUS
  <2>1. CASE i = n + 1
    BY <1>10, <1>11, <2>1
  <2>2. CASE i # n + 1
    <3>1. i \in 1 .. n
      BY <1>3, <2>2
    <3>2. QED
      BY <1>2, <1>11, <3>1 DEF n
  <2>3. QED
    BY <2>1, <2>2
<1>16. registered' \subseteq Access
  BY <1>1, <1>7
<1>17. CounterTypes'
  <2>1. Len(snapshots') <= CloseAt
    BY <1>3, <1>11
  <2>2. \A i \in 1 .. Len(snapshots') : snapshots'[i].phase = Counters!Phases[i]
    BY <1>11, <1>15
  <2>3. QED
    BY <1>6, <1>11, <1>13, <1>16, <2>1, <2>2 DEF CounterTypes
<1>18. snapshots'[n + 1].phase = Counters!Phases[n + 1]
  BY <1>10, <1>11
<1>19. D = IF lost THEN {} ELSE registered'
  BY <1>1
<1>20. registered \subseteq registered'
  BY <1>1, <1>7
<1>21. QED
  BY <1>3, <1>4, <1>6, <1>11, <1>12, <1>14, <1>17, <1>18, <1>19, <1>20 DEF n

(* Earlier snapshots stay as they are.                                     *)
LEMMA Unchanged ==
  ASSUME NEW ss, NEW tt, NEW i, ss[i] = tt[i]
  PROVE  Shown(ss, i) = Shown(tt, i) /\ \A a \in Access : Value(ss, i, a) = Value(tt, i, a)
BY DEF Shown, Value

LEMMA ValuesAreNumbers ==
  ASSUME NEW ss \in Seq(Snapshots), NEW i \in 1 .. Len(ss), NEW a \in Access
  PROVE  Value(ss, i, a) \in Nat
<1>1. ss[i] \in Snapshots
  BY ElementOfSeq
<1>2. PICK D \in SUBSET Access : ss[i].counters \in [D -> Nat]
  BY <1>1 DEF Snapshots
<1>3. QED
  BY <1>2 DEF Value, Counters!Count

(* No snapshot shows less than the one before.                             *)
LEMMA SnapshotsStillGrow ==
  ASSUME CounterTypes, kind = "cumulative", SnapshotsGrow, NewestIsTotal,
         NEW work, NEW more, NEW lost, SnapshotTaken(work, more, lost)
  PROVE  SnapshotsGrow' /\ NewestIsTotal'
<1> DEFINE n == Len(snapshots)
<1>1. /\ n \in Nat /\ n + 1 \in 1 .. CloseAt
      /\ work \in [Access -> Nat]
      /\ \A a \in Access : total'[a] = total[a] + work[a]
      /\ registered \subseteq registered'
      /\ snapshots' \in Seq(Snapshots) /\ Len(snapshots') = n + 1
      /\ \A i \in 1 .. n : snapshots'[i] = snapshots[i]
      /\ Shown(snapshots', n + 1) = IF lost THEN {} ELSE registered'
      /\ ~lost => \A a \in Access : Value(snapshots', n + 1, a) = total'[a]
  BY SnapshotAdds
<1>2. total \in [Access -> Nat] /\ snapshots \in Seq(Snapshots)
  BY DEF CounterTypes
<1>3. lost => n + 1 = CloseAt
  BY DEF SnapshotTaken
<1>4. CloseAt \in Nat /\ CloseAt >= 7
  BY CounterConstants
<1>5. \A a \in Access : total[a] <= total'[a] /\ total[a] \in Nat /\ total'[a] \in Nat
  BY <1>1, <1>2
<1>6. n \in 1 .. CloseAt - 1 =>
        /\ Shown(snapshots, n) = registered
        /\ \A a \in Access : Value(snapshots, n, a) = total[a]
  BY DEF NewestIsTotal, ShowsTotal
<1>7. ASSUME NEW i \in 1 .. n
      PROVE  /\ Shown(snapshots', i) = Shown(snapshots, i)
             /\ \A a \in Access : Value(snapshots', i, a) = Value(snapshots, i, a)
  BY <1>1, Unchanged
<1>8. \A i \in 1 .. n, a \in Access : Value(snapshots, i, a) \in Nat
  BY <1>2, ValuesAreNumbers
<1> HIDE DEF n
<1>9. SnapshotsGrow'
  <2> SUFFICES ASSUME NEW i \in 1 .. n + 1, NEW j \in 1 .. n + 1, i <= j, j < CloseAt
               PROVE  /\ Shown(snapshots', i) \subseteq Shown(snapshots', j)
                      /\ \A a \in Access :
                           Value(snapshots', i, a) <= Value(snapshots', j, a)
    BY <1>1 DEF SnapshotsGrow
  <2>1. CASE j <= n
    <3>1. i \in 1 .. n /\ j \in 1 .. n
      BY <1>1, <2>1
    <3>2. /\ Shown(snapshots, i) \subseteq Shown(snapshots, j)
          /\ \A a \in Access : Value(snapshots, i, a) <= Value(snapshots, j, a)
      BY <3>1 DEF SnapshotsGrow, n
    <3>3. QED
      BY <1>7, <3>1, <3>2
  <2>2. CASE j = n + 1
    <3>1. ~lost
      BY <1>3, <2>2
    <3>2. Shown(snapshots', j) = registered' /\ \A a \in Access : Value(snapshots', j, a) = total'[a]
      BY <1>1, <2>2, <3>1
    <3>3. CASE i = n + 1
      BY <1>5, <2>2, <3>2, <3>3
    <3>4. CASE i <= n
      <4>1. i \in 1 .. n /\ n \in 1 .. n /\ i <= n /\ n < CloseAt /\ n \in 1 .. CloseAt - 1
        BY <1>1, <1>4, <3>4
      <4>2. /\ Shown(snapshots, i) \subseteq Shown(snapshots, n)
            /\ \A a \in Access : Value(snapshots, i, a) <= Value(snapshots, n, a)
        BY <4>1 DEF SnapshotsGrow, n
      <4>3. Shown(snapshots', i) \subseteq Shown(snapshots', j)
        BY <1>1, <1>6, <1>7, <3>2, <4>1, <4>2
      <4>4. ASSUME NEW a \in Access
            PROVE  Value(snapshots', i, a) <= Value(snapshots', j, a)
        <5>1. /\ Value(snapshots', i, a) = Value(snapshots, i, a)
              /\ Value(snapshots, i, a) <= total[a] /\ Value(snapshots, i, a) \in Nat
          BY <1>6, <1>7, <1>8, <4>1, <4>2
        <5>2. QED
          BY <1>5, <3>2, <5>1
      <4>5. QED
        BY <4>3, <4>4
    <3>5. QED
      BY <1>1, <3>3, <3>4
  <2>3. QED
    BY <1>1, <2>1, <2>2
<1>10. NewestIsTotal'
  <2> DEFINE Shows(i) == /\ Shown(snapshots', i) = registered'
                         /\ \A a \in Access : Value(snapshots', i, a) = total'[a]
  <2>1. ASSUME n + 1 \in 1 .. CloseAt - 1 PROVE Shows(n + 1)
    <3>1. ~lost
      BY <1>3, <1>4, <2>1
    <3>2. QED
      BY <1>1, <3>1
  <2>2. ASSUME n + 1 = CloseAt
        PROVE  /\ Shown(snapshots', CloseAt - 1) \subseteq registered'
               /\ \A a \in Access : Value(snapshots', CloseAt - 1, a) <= total'[a]
               /\ Shows(CloseAt) \/ Shown(snapshots', CloseAt) = {}
    <3>1. n = CloseAt - 1 /\ n \in 1 .. n /\ n \in 1 .. CloseAt - 1
      BY <1>1, <1>4, <2>2
    <3>2. Shown(snapshots', n) = registered
      BY <1>6, <1>7, <3>1
    <3>3. \A a \in Access : Value(snapshots', n, a) = total[a]
      BY <1>6, <1>7, <3>1
    <3>4. Shows(n + 1) \/ Shown(snapshots', n + 1) = {}
      BY <1>1
    <3>5. Shows(CloseAt) \/ Shown(snapshots', CloseAt) = {}
      BY <2>2, <3>4
    <3>6. QED
      BY <1>1, <1>5, <3>1, <3>2, <3>3, <3>5
  <2>3. QED
    BY <1>1, <2>1, <2>2 DEF NewestIsTotal, ShowsTotal
<1>11. QED
  BY <1>9, <1>10

(* In a measured round its accesses get ahead of the sums; where it ends   *)
(* the next sum takes them in; elsewhere neither moves.                    *)
LEMMA SumsKeepUp ==
  ASSUME CounterTypes, kind = "cumulative", MeasuredIsSum,
         NEW work, NEW more, NEW lost, SnapshotTaken(work, more, lost)
  PROVE  MeasuredIsSum'
<1> DEFINE n == Len(snapshots)
           Q == 0 .. DiagnosticRounds - 1
<1>1. /\ n \in Nat /\ n + 1 \in 1 .. CloseAt
      /\ work \in [Access -> Nat]
      /\ \A a \in Access : total'[a] = total[a] + work[a]
      /\ snapshots' \in Seq(Snapshots) /\ Len(snapshots') = n + 1
      /\ \A i \in 1 .. n : snapshots'[i] = snapshots[i]
      /\ ~lost => \A a \in Access : Value(snapshots', n + 1, a) = total'[a]
      /\ CounterTypes'
  BY SnapshotAdds
<1>2. /\ total \in [Access -> Nat] /\ inMeasured \in [Access -> Nat]
      /\ total' \in [Access -> Nat] /\ snapshots \in Seq(Snapshots)
  BY <1>1 DEF CounterTypes
<1>3. lost => n + 1 = CloseAt
  BY DEF SnapshotTaken
<1>4. inMeasured' = IF Counters!InMeasuredRound(n + 1) THEN Counters!Plus(inMeasured, work)
                                                       ELSE inMeasured
  BY DEF SnapshotTaken
<1>5. \A a \in Access : Counters!Plus(inMeasured, work)[a] = inMeasured[a] + work[a]
  BY DEF Counters!Plus
<1>6. Counters!InMeasuredRound(n + 1) <=>
        \E k \in Q : MeasuredBefore(k) < n + 1 /\ n + 1 <= MeasuredAfter(k)
  BY <1>1, InMeasuredRoundAt
<1>7. \A k \in Q : /\ MeasuredBefore(k) \in 1 .. CloseAt - 1 /\ MeasuredAfter(k) \in 1 .. CloseAt - 1
                   /\ MeasuredBefore(k) < MeasuredAfter(k)
                   /\ MeasuredBefore(0) <= MeasuredBefore(k)
                   /\ k > 0 => MeasuredBefore(k) = MeasuredAfter(k - 1) + 1
                   /\ \A j \in Q : j < k => MeasuredAfter(j) < MeasuredBefore(k)
  BY MeasuredRoundsInOrder
<1>8. DiagnosticRounds \in Nat \ {0} /\ CloseAt \in Nat /\ 0 \in Q
  BY CounterConstants
<1>9. MeasuredBefore(0) \in Nat
  BY <1>7, <1>8
<1>10. \A i \in 1 .. n, a \in Access :
         Value(snapshots', i, a) = Value(snapshots, i, a) /\ Value(snapshots, i, a) \in Nat
  BY <1>1, <1>2, Unchanged, ValuesAreNumbers
<1>11. PICK s : IsSumOfRounds(snapshots, s) /\ CountedSoFar(s)
  BY DEF MeasuredIsSum
<1>12. /\ s \in [0 .. DiagnosticRounds -> [Access -> Int]]
       /\ \A a \in Access : s[0][a] = 0
       /\ \A k \in Q : MeasuredAfter(k) <= n =>
            \A a \in Access :
              s[k + 1][a] = s[k][a] + (Value(snapshots, MeasuredAfter(k), a)
                                         - Value(snapshots, MeasuredBefore(k), a))
  BY <1>11 DEF IsSumOfRounds
<1>13. /\ n < MeasuredBefore(0) => \A a \in Access : inMeasured[a] = s[0][a]
       /\ \A k \in Q :
            /\ MeasuredBefore(k) <= n /\ n < MeasuredAfter(k) =>
                 \A a \in Access :
                   inMeasured[a] = s[k][a] + (total[a] - Value(snapshots, MeasuredBefore(k), a))
            /\ n = MeasuredAfter(k) \/ (MeasuredAfter(k) < n /\ k = DiagnosticRounds - 1) =>
                 \A a \in Access : inMeasured[a] = s[k + 1][a]
  BY <1>11 DEF CountedSoFar
<1>14. \A k \in Q, a \in Access : s[k][a] \in Int /\ s[k + 1][a] \in Int
  <2>1. \A k \in Q : k \in 0 .. DiagnosticRounds /\ k + 1 \in 0 .. DiagnosticRounds
    BY <1>8
  <2>2. QED
    BY <1>12, <2>1
<1>15. \A k \in Q : k \in Int
  OBVIOUS
<1> HIDE DEF n, Q
(* what is to be shown of the sums t *)
<1> DEFINE Sum(t) ==
      /\ t \in [0 .. DiagnosticRounds -> [Access -> Int]]
      /\ \A a \in Access : t[0][a] = 0
      /\ \A k \in Q : MeasuredAfter(k) <= n + 1 =>
           \A a \in Access :
             t[k + 1][a] = t[k][a] + (Value(snapshots', MeasuredAfter(k), a)
                                        - Value(snapshots', MeasuredBefore(k), a))
           Counted(t) ==
      /\ n + 1 < MeasuredBefore(0) => \A a \in Access : inMeasured'[a] = t[0][a]
      /\ \A k \in Q :
           /\ MeasuredBefore(k) <= n + 1 /\ n + 1 < MeasuredAfter(k) =>
                \A a \in Access :
                  inMeasured'[a] = t[k][a] + (total'[a] - Value(snapshots', MeasuredBefore(k), a))
           /\ n + 1 = MeasuredAfter(k) \/ (MeasuredAfter(k) < n + 1 /\ k = DiagnosticRounds - 1) =>
                \A a \in Access : inMeasured'[a] = t[k + 1][a]
<1>16. SUFFICES \E t : Sum(t) /\ Counted(t)
  <2>1. ASSUME NEW t, Sum(t), Counted(t) PROVE MeasuredIsSum'
    <3>1. IsSumOfRounds(snapshots', t)
      BY <1>1, <2>1 DEF IsSumOfRounds, Q
    <3>2. CountedSoFar(t)'
      BY <1>1, <2>1 DEF CountedSoFar, Q
    <3>3. QED
      BY <3>1, <3>2 DEF MeasuredIsSum
  <2> HIDE DEF Sum, Counted
  <2>2. QED
    BY <2>1
<1>17. ASSUME \A k \in Q : n + 1 # MeasuredAfter(k)
       PROVE  Sum(s)
  <2> SUFFICES ASSUME NEW k \in Q, MeasuredAfter(k) <= n + 1, NEW a \in Access
               PROVE  s[k + 1][a] = s[k][a] + (Value(snapshots', MeasuredAfter(k), a)
                                                 - Value(snapshots', MeasuredBefore(k), a))
    BY <1>12
  <2>1. /\ MeasuredAfter(k) <= n /\ MeasuredAfter(k) \in 1 .. n /\ MeasuredBefore(k) \in 1 .. n
    BY <1>1, <1>7, <1>17
  <2>2. QED
    BY <1>10, <1>12, <2>1
<1>18. CASE \E k \in Q : MeasuredBefore(k) < n + 1 /\ n + 1 < MeasuredAfter(k)
  <2>1. PICK k \in Q : MeasuredBefore(k) < n + 1 /\ n + 1 < MeasuredAfter(k)
    BY <1>18
  <2>2. \A j \in Q : /\ n + 1 # MeasuredAfter(j)
                     /\ MeasuredBefore(j) <= n + 1 /\ n + 1 < MeasuredAfter(j) => j = k
                     /\ ~(MeasuredAfter(j) < n + 1 /\ j = DiagnosticRounds - 1)
    <3> SUFFICES ASSUME NEW j \in Q
                 PROVE  /\ n + 1 # MeasuredAfter(j)
                        /\ MeasuredBefore(j) <= n + 1 /\ n + 1 < MeasuredAfter(j) => j = k
                        /\ ~(MeasuredAfter(j) < n + 1 /\ j = DiagnosticRounds - 1)
      OBVIOUS
    <3>1. j < k => MeasuredAfter(j) < MeasuredBefore(k)
      BY <1>7
    <3>2. k < j => MeasuredAfter(k) < MeasuredBefore(j)
      BY <1>7
    <3>3. /\ MeasuredBefore(j) \in Nat /\ MeasuredAfter(j) \in Nat /\ MeasuredBefore(j) < MeasuredAfter(j)
          /\ MeasuredBefore(k) \in Nat /\ MeasuredAfter(k) \in Nat /\ j \in Int /\ k \in Int
      BY <1>7, <1>15
    <3>4. k <= DiagnosticRounds - 1
      BY <1>8 DEF Q
    <3>5. QED
      BY <1>1, <1>8, <2>1, <3>1, <3>2, <3>3, <3>4
  <2>3. Sum(s)
    BY <1>17, <2>2
  <2>4. \A a \in Access : inMeasured'[a] = s[k][a] + (total'[a] - Value(snapshots', MeasuredBefore(k), a))
    <3> SUFFICES ASSUME NEW a \in Access
                 PROVE  inMeasured'[a] = s[k][a] + (total'[a] - Value(snapshots', MeasuredBefore(k), a))
      OBVIOUS
    <3>1. MeasuredBefore(k) <= n /\ n < MeasuredAfter(k) /\ MeasuredBefore(k) \in 1 .. n
      BY <1>1, <1>7, <2>1
    <3>2. Counters!InMeasuredRound(n + 1)
      BY <1>1, <1>6, <1>7, <2>1
    <3>3. inMeasured'[a] = inMeasured[a] + work[a]
      BY <1>4, <1>5, <3>2
    <3>4. inMeasured[a] = s[k][a] + (total[a] - Value(snapshots, MeasuredBefore(k), a))
      BY <1>13, <3>1
    <3>5. /\ total'[a] = total[a] + work[a] /\ total[a] \in Int /\ work[a] \in Int
          /\ Value(snapshots', MeasuredBefore(k), a) = Value(snapshots, MeasuredBefore(k), a)
          /\ Value(snapshots, MeasuredBefore(k), a) \in Int /\ s[k][a] \in Int
      BY <1>1, <1>2, <1>10, <1>14, <3>1
    <3>6. QED
      BY <3>3, <3>4, <3>5
  <2>5. ~(n + 1 < MeasuredBefore(0))
    BY <1>1, <1>7, <1>9, <2>1
  <2>6. Counted(s)
    BY <2>2, <2>4, <2>5
  <2> HIDE DEF Sum, Counted
  <2>7. QED
    BY <2>3, <2>6
<1>19. CASE \E k \in Q : n + 1 = MeasuredAfter(k)
  <2>1. PICK k \in Q : n + 1 = MeasuredAfter(k)
    BY <1>19
  <2> DEFINE t == [s EXCEPT ![k + 1] =
                    [a \in Access |-> s[k][a] + (total'[a] - Value(snapshots, MeasuredBefore(k), a))]]
  <2>2. MeasuredBefore(k) \in 1 .. n /\ n < MeasuredAfter(k) /\ n + 1 < CloseAt
    BY <1>1, <1>7, <1>8, <2>1
  <2>3. k + 1 \in 0 .. DiagnosticRounds /\ k + 1 # 0 /\ k \in 0 .. DiagnosticRounds
    BY <1>8 DEF Q
  <2>4. /\ t \in [0 .. DiagnosticRounds -> [Access -> Int]]
        /\ \A j \in 0 .. DiagnosticRounds : j # k + 1 => t[j] = s[j]
        /\ \A a \in Access : t[k + 1][a] = s[k][a] + (total'[a] - Value(snapshots, MeasuredBefore(k), a))
    <3> DEFINE v == [a \in Access |-> s[k][a] + (total'[a] - Value(snapshots, MeasuredBefore(k), a))]
    <3>1. v \in [Access -> Int]
      BY <1>2, <1>10, <1>14, <2>2
    <3>2. \A a \in Access : v[a] = s[k][a] + (total'[a] - Value(snapshots, MeasuredBefore(k), a))
      OBVIOUS
    <3>3. t = [s EXCEPT ![k + 1] = v]
      OBVIOUS
    <3> HIDE DEF v, t
    <3>4. QED
      BY <1>12, <2>3, <3>1, <3>2, <3>3
  <2> HIDE DEF t
  <2>5. \A j \in Q : /\ MeasuredAfter(j) <= n + 1 => j <= k
                     /\ j # k => /\ n + 1 # MeasuredAfter(j)
                                 /\ ~(MeasuredAfter(j) < n + 1 /\ j = DiagnosticRounds - 1)
                     /\ ~(MeasuredBefore(j) <= n + 1 /\ n + 1 < MeasuredAfter(j))
    <3> SUFFICES ASSUME NEW j \in Q
                 PROVE  /\ MeasuredAfter(j) <= n + 1 => j <= k
                        /\ j # k => /\ n + 1 # MeasuredAfter(j)
                                    /\ ~(MeasuredAfter(j) < n + 1 /\ j = DiagnosticRounds - 1)
                        /\ ~(MeasuredBefore(j) <= n + 1 /\ n + 1 < MeasuredAfter(j))
      OBVIOUS
    <3>1. j < k => MeasuredAfter(j) < MeasuredBefore(k)
      BY <1>7
    <3>2. k < j => MeasuredAfter(k) < MeasuredBefore(j)
      BY <1>7
    <3>3. /\ MeasuredBefore(j) \in Nat /\ MeasuredAfter(j) \in Nat /\ MeasuredBefore(j) < MeasuredAfter(j)
          /\ MeasuredBefore(k) \in Nat /\ MeasuredAfter(k) \in Nat /\ j \in Int /\ k \in Int
          /\ MeasuredBefore(k) < MeasuredAfter(k)
      BY <1>7, <1>15
    <3>4. k <= DiagnosticRounds - 1
      BY <1>8 DEF Q
    <3>5. QED
      BY <1>1, <1>8, <2>1, <3>1, <3>2, <3>3, <3>4
  <2>6. \A a \in Access : Value(snapshots', n + 1, a) = total'[a]
    BY <1>1, <1>3, <1>8, <2>2
  <2>7. ASSUME NEW j \in Q, MeasuredAfter(j) <= n + 1, NEW a \in Access
        PROVE  t[j + 1][a] = t[j][a] + (Value(snapshots', MeasuredAfter(j), a)
                                          - Value(snapshots', MeasuredBefore(j), a))
    <3>1. j <= k /\ j \in 0 .. DiagnosticRounds /\ j + 1 \in 0 .. DiagnosticRounds
          /\ j # k + 1 /\ j \in Int /\ k \in Int
      BY <1>8, <2>5, <2>7 DEF Q
    <3>2. t[j] = s[j]
      BY <2>4, <3>1
    <3>3. CASE j = k
      BY <1>10, <2>1, <2>2, <2>4, <2>6, <3>2, <3>3
    <3>4. CASE j # k
      <4>1. j + 1 # k + 1 /\ t[j + 1] = s[j + 1]
        BY <2>4, <3>1, <3>4
      <4>2. MeasuredAfter(j) # n + 1
        BY <2>5, <3>4
      <4>3. MeasuredAfter(j) <= n /\ MeasuredAfter(j) \in 1 .. n /\ MeasuredBefore(j) \in 1 .. n
        BY <1>1, <1>7, <2>7, <4>2
      <4>4. QED
        BY <1>10, <1>12, <3>2, <4>1, <4>3
    <3>5. QED
      BY <3>3, <3>4
  <2>8. \A a \in Access : t[0][a] = 0
    BY <1>8, <1>12, <2>3, <2>4
  <2>9. Sum(t)
    BY <2>4, <2>7, <2>8
  <2>10. ASSUME NEW a \in Access PROVE inMeasured'[a] = t[k + 1][a]
    <3>1. Counters!InMeasuredRound(n + 1)
      BY <1>1, <1>6, <1>7, <2>1
    <3>2. inMeasured'[a] = inMeasured[a] + work[a]
      BY <1>4, <1>5, <3>1
    <3>3. inMeasured[a] = s[k][a] + (total[a] - Value(snapshots, MeasuredBefore(k), a))
      BY <1>1, <1>13, <2>2
    <3>4. QED
      BY <1>1, <1>2, <1>10, <1>14, <2>2, <2>4, <3>2, <3>3
  <2>11. ~(n + 1 < MeasuredBefore(0))
    BY <1>1, <1>7, <1>9, <2>1
  <2>12. Counted(t)
    BY <2>5, <2>10, <2>11
  <2> HIDE DEF Sum, Counted
  <2>13. QED
    BY <2>9, <2>12
<1>20. CASE \A k \in Q : ~(MeasuredBefore(k) < n + 1 /\ n + 1 <= MeasuredAfter(k))
  <2>1. inMeasured' = inMeasured
    BY <1>4, <1>6, <1>20
  <2>2. \A k \in Q : n + 1 # MeasuredAfter(k)
    BY <1>1, <1>7, <1>20
  <2>3. Sum(s)
    BY <1>17, <2>2
  <2>4. n + 1 < MeasuredBefore(0) => \A a \in Access : inMeasured'[a] = s[0][a]
    BY <1>1, <1>9, <1>13, <2>1
  <2>5. ASSUME NEW k \in Q, MeasuredBefore(k) <= n + 1, n + 1 < MeasuredAfter(k), NEW a \in Access
        PROVE  inMeasured'[a] = s[k][a] + (total'[a] - Value(snapshots', MeasuredBefore(k), a))
    <3>1. n + 1 = MeasuredBefore(k) /\ n + 1 < CloseAt
      BY <1>1, <1>7, <1>8, <1>20, <2>5
    <3>2. Value(snapshots', MeasuredBefore(k), a) = total'[a] /\ total'[a] \in Nat
      BY <1>1, <1>2, <1>3, <1>8, <3>1
    <3>3. inMeasured[a] = s[k][a]
      <4>1. CASE k = 0
        BY <1>1, <1>9, <1>13, <3>1, <4>1
      <4>2. CASE k > 0
        <5>1. k - 1 \in Q /\ (k - 1) + 1 = k
          BY <1>8, <4>2 DEF Q
        <5>2. n = MeasuredAfter(k - 1)
          BY <1>1, <1>7, <3>1, <4>2, <5>1
        <5>3. QED
          BY <1>13, <5>1, <5>2
      <4>3. QED
        BY <4>1, <4>2 DEF Q
    <3>4. QED
      BY <1>14, <2>1, <3>2, <3>3
  <2>6. ASSUME NEW k \in Q, MeasuredAfter(k) < n + 1, k = DiagnosticRounds - 1, NEW a \in Access
        PROVE  inMeasured'[a] = s[k + 1][a]
    <3>1. n = MeasuredAfter(k) \/ MeasuredAfter(k) < n
      BY <1>1, <1>7, <2>6
    <3>2. QED
      BY <1>13, <2>1, <2>6, <3>1
  <2>7. Counted(s)
    BY <2>2, <2>4, <2>5, <2>6
  <2> HIDE DEF Sum, Counted
  <2>8. QED
    BY <2>3, <2>7
<1>21. \A k \in Q : n + 1 <= MeasuredAfter(k) => n + 1 < MeasuredAfter(k) \/ n + 1 = MeasuredAfter(k)
  BY <1>1, <1>7
<1>22. QED
  BY <1>18, <1>19, <1>20, <1>21

LEMMA CountersStep ==
  ASSUME CountersInv, [Counters!Snapshot]_counterVars
  PROVE  CountersInv'
<1>1. CASE UNCHANGED counterVars
  BY <1>1 DEF CountersInv, counterVars, CounterTypes, SnapshotsGrow, NewestIsTotal, ShowsTotal,
              MeasuredIsSum, CountedSoFar
<1>2. CASE Counters!Snapshot
  <2>1. CounterTypes
    BY DEF CountersInv
  <2>2. PICK work, more, lost : SnapshotTaken(work, more, lost)
    BY <1>2, <2>1, SnapshotIsTaken
  <2>3. kind' = kind /\ CounterTypes'
    BY <2>1, <2>2, SnapshotAdds DEF SnapshotTaken
  <2>4. ASSUME kind = "cumulative" PROVE SnapshotsGrow' /\ NewestIsTotal' /\ MeasuredIsSum'
    <3>1. SnapshotsGrow /\ NewestIsTotal /\ MeasuredIsSum
      BY <2>4 DEF CountersInv
    <3>2. QED
      BY <2>1, <2>2, <2>4, <3>1, SnapshotsStillGrow, SumsKeepUp
  <2>5. QED
    BY <2>3, <2>4 DEF CountersInv
<1>3. QED
  BY <1>1, <1>2

(* The recursive sums satisfy their equations: there is a function that    *)
(* does.                                                                   *)
LEMMA SumsAdd ==
  ASSUME NEW ss
  PROVE  Counters!Sums(ss) =
           [k \in 0 .. DiagnosticRounds |->
             IF k = 0 THEN <<>>
             ELSE Counters!Add(Counters!Sums(ss)[k - 1],
                               Counters!RoundDelta(ss, DiagnosticWarmup + k - 1))]
<1> DEFINE D(k) == Counters!RoundDelta(ss, Counters!MeasuredRounds[k])
           IsSum(f, m) == f = [k \in 0 .. m |-> IF k = 0 THEN <<>> ELSE Counters!Add(f[k - 1], D(k))]
           S == {m \in Nat : \E f : IsSum(f, m)}
<1>1. DiagnosticRounds \in Nat /\ Len(Counters!MeasuredRounds) = DiagnosticRounds
      /\ \A k \in 1 .. DiagnosticRounds :
           Counters!MeasuredRounds[k] = DiagnosticWarmup + k - 1
  BY CounterConstants DEF Counters!MeasuredRounds
<1>2. 0 \in S
  <2> DEFINE f == [k \in 0 .. 0 |-> <<>>]
  <2>1. f = [k \in 0 .. 0 |-> IF k = 0 THEN <<>> ELSE Counters!Add(f[k - 1], D(k))]
    OBVIOUS
  <2> HIDE DEF f
  <2>2. QED
    BY <2>1
<1>3. ASSUME NEW m \in S PROVE m + 1 \in S
  <2>1. PICK f : IsSum(f, m)
    BY <1>3
  <2> HIDE DEF D
  <2> DEFINE g == [k \in 0 .. m + 1 |-> IF k = m + 1 THEN Counters!Add(f[m], D(m + 1)) ELSE f[k]]
  <2>2. m \in Nat
    OBVIOUS
  <2>3. g[m] = f[m] /\ \A k \in 1 .. m : g[k - 1] = f[k - 1]
    BY <2>2
  <2>4. ASSUME NEW k \in 0 .. m + 1
        PROVE  g[k] = IF k = 0 THEN <<>> ELSE Counters!Add(g[k - 1], D(k))
    <3>1. CASE k = m + 1
      <4>1. g[k] = Counters!Add(f[m], D(m + 1)) /\ k - 1 = m /\ k # 0
        BY <2>2, <3>1
      <4>2. QED
        BY <2>3, <3>1, <4>1
    <3>2. CASE k # m + 1
      <4>1. k \in 0 .. m /\ g[k] = f[k]
        BY <2>2, <3>2
      <4>2. f[k] = IF k = 0 THEN <<>> ELSE Counters!Add(f[k - 1], D(k))
        BY <2>1, <4>1
      <4>3. k # 0 => g[k - 1] = f[k - 1]
        BY <2>2, <2>3, <4>1
      <4>4. QED
        BY <4>1, <4>2, <4>3
    <3>3. QED
      BY <3>1, <3>2
  <2>5. g = [k \in 0 .. m + 1 |-> g[k]]
    OBVIOUS
  <2> HIDE DEF g
  <2>6. g = [k \in 0 .. m + 1 |-> IF k = 0 THEN <<>> ELSE Counters!Add(g[k - 1], D(k))]
    BY <2>4, <2>5
  <2>7. QED
    BY <2>2, <2>6
<1>4. S = Nat
  <2> HIDE DEF S
  <2>1. S \in SUBSET Nat
    BY DEF S
  <2>2. QED
    BY <1>2, <1>3, <2>1, InductiveSet
<1>5. \E f : IsSum(f, DiagnosticRounds)
  BY <1>1, <1>4
<1>6. Counters!Sums(ss) = CHOOSE f : IsSum(f, Len(Counters!MeasuredRounds))
  BY DEF Counters!Sums
<1>7. IsSum(Counters!Sums(ss), DiagnosticRounds)
  BY <1>1, <1>5, <1>6
<1>8. QED
  BY <1>1, <1>7

(* What is added up for a measured round, and for two things at a time.    *)
LEMMA RoundDeltaAt ==
  ASSUME CounterTypes, Len(snapshots) = CloseAt, NEW k \in 0 .. DiagnosticRounds - 1
  PROVE  Counters!RoundDelta(snapshots, DiagnosticWarmup + k) =
           [a \in Shown(snapshots, MeasuredAfter(k)) |->
             Value(snapshots, MeasuredAfter(k), a) - Value(snapshots, MeasuredBefore(k), a)]
<1> DEFINE r == DiagnosticWarmup + k
<1>1. DOMAIN snapshots = 1 .. CloseAt /\ \A i \in 1 .. CloseAt : snapshots[i].phase = Counters!Phases[i]
  BY LenProperties DEF CounterTypes
<1>2. /\ MeasuredBefore(k) \in 1 .. CloseAt /\ MeasuredAfter(k) \in 1 .. CloseAt
      /\ r \in 0 .. AllRounds - 1
  BY MeasuredRoundsInOrder, CounterConstants
<1>3. MeasuredBefore(k) = BeforeAt(r) /\ MeasuredAfter(k) = AfterAt(r)
  BY DEF MeasuredBefore, MeasuredAfter
<1> HIDE DEF r
<1>4. \A i \in 1 .. CloseAt :
        /\ snapshots[i].phase = Counters!BeforeRound(r) <=> i = MeasuredBefore(k)
        /\ snapshots[i].phase = Counters!AfterRound(r) <=> i = MeasuredAfter(k)
  BY <1>1, <1>2, <1>3, RoundPhases
<1> DEFINE b == CHOOSE i \in DOMAIN snapshots : snapshots[i].phase = Counters!BeforeRound(r)
           e == CHOOSE i \in DOMAIN snapshots : snapshots[i].phase = Counters!AfterRound(r)
<1>5. b = MeasuredBefore(k)
  BY <1>1, <1>2, <1>4
<1>6. e = MeasuredAfter(k)
  BY <1>1, <1>2, <1>4
<1> DEFINE before == snapshots[MeasuredBefore(k)].counters
           after  == snapshots[MeasuredAfter(k)].counters
<1>7. Counters!RoundDelta(snapshots, r) =
        [key \in DOMAIN after |-> after[key] - Counters!Count(before, key)]
  <2>1. Counters!RoundDelta(snapshots, r) =
          [key \in DOMAIN snapshots[e].counters |->
            snapshots[e].counters[key] - Counters!Count(snapshots[b].counters, key)]
    BY Zenon DEF Counters!RoundDelta
  <2> HIDE DEF b, e
  <2>2. QED
    BY <1>5, <1>6, <2>1
<1>8. \A key \in DOMAIN after : after[key] = Counters!Count(after, key)
  BY DEF Counters!Count
<1>9. QED
  BY <1>7, <1>8 DEF Shown, Value, r

LEMMA Added ==
  ASSUME NEW f, NEW g, NEW a,
         Counters!Count(f, a) \in Int, Counters!Count(g, a) \in Int
  PROVE  /\ DOMAIN Counters!Add(f, g) = DOMAIN f \cup DOMAIN g
         /\ Counters!Count(Counters!Add(f, g), a) = Counters!Count(f, a) + Counters!Count(g, a)
<1>1. /\ DOMAIN Counters!Add(f, g) = DOMAIN f \cup DOMAIN g
      /\ a \in DOMAIN f \cup DOMAIN g =>
           Counters!Add(f, g)[a] = Counters!Count(f, a) + Counters!Count(g, a)
  BY DEF Counters!Add
<1>2. CASE a \in DOMAIN f \cup DOMAIN g
  BY <1>1, <1>2 DEF Counters!Count
<1>3. CASE a \notin DOMAIN f \cup DOMAIN g
  BY <1>1, <1>3 DEF Counters!Count
<1>4. QED
  BY <1>1, <1>2, <1>3

(* The counters added up are the sums of the invariant, for the counters   *)
(* shown at the end of the round.                                          *)
LEMMA SumsAre ==
  ASSUME CounterTypes, SnapshotsGrow, Len(snapshots) = CloseAt,
         NEW s, IsSumOfRounds(snapshots, s)
  PROVE  \A k \in 0 .. DiagnosticRounds :
           /\ DOMAIN Counters!Sums(snapshots)[k] =
                IF k = 0 THEN {} ELSE Shown(snapshots, MeasuredAfter(k - 1))
           /\ \A a \in Access : Counters!Count(Counters!Sums(snapshots)[k], a) = s[k][a]
<1> DEFINE sum == Counters!Sums(snapshots)
           P(k) == /\ DOMAIN sum[k] = IF k = 0 THEN {} ELSE Shown(snapshots, MeasuredAfter(k - 1))
                   /\ \A a \in Access : Counters!Count(sum[k], a) = s[k][a]
           S == {k \in Nat : k <= DiagnosticRounds => P(k)}
<1>1. DiagnosticRounds \in Nat \ {0} /\ CloseAt \in Nat
  BY CounterConstants
<1>2. \A k \in 0 .. DiagnosticRounds :
        sum[k] = IF k = 0 THEN <<>>
                 ELSE Counters!Add(sum[k - 1],
                        Counters!RoundDelta(snapshots, DiagnosticWarmup + k - 1))
  BY SumsAdd
<1>3. /\ s \in [0 .. DiagnosticRounds -> [Access -> Int]]
      /\ \A a \in Access : s[0][a] = 0
      /\ \A k \in 0 .. DiagnosticRounds - 1 : MeasuredAfter(k) <= CloseAt =>
           \A a \in Access :
             s[k + 1][a] = s[k][a] + (Value(snapshots, MeasuredAfter(k), a)
                                        - Value(snapshots, MeasuredBefore(k), a))
  BY DEF IsSumOfRounds
<1> HIDE DEF sum
<1>4. 0 \in S
  <2>1. sum[0] = <<>>
    BY <1>1, <1>2
  <2>2. DOMAIN sum[0] = {}
    BY <2>1
  <2>3. P(0)
    BY <1>3, <2>2 DEF Counters!Count
  <2>4. QED
    BY <2>3
<1>5. ASSUME NEW k \in S PROVE k + 1 \in S
  <2> SUFFICES ASSUME k + 1 <= DiagnosticRounds PROVE P(k + 1)
    OBVIOUS
  <2>1. k \in Nat /\ k \in 0 .. DiagnosticRounds - 1 /\ k + 1 \in 0 .. DiagnosticRounds
        /\ k \in 0 .. DiagnosticRounds
    BY <1>1
  <2>2. P(k)
    BY <1>1, <2>1
  <2>3. /\ MeasuredAfter(k) \in 1 .. CloseAt - 1 /\ MeasuredBefore(k) \in 1 .. CloseAt - 1
        /\ MeasuredBefore(k) < MeasuredAfter(k)
        /\ k > 0 => MeasuredAfter(k - 1) \in 1 .. CloseAt - 1
                    /\ MeasuredAfter(k - 1) < MeasuredBefore(k)
    <3>1. /\ MeasuredAfter(k) \in 1 .. CloseAt - 1 /\ MeasuredBefore(k) \in 1 .. CloseAt - 1
          /\ MeasuredBefore(k) < MeasuredAfter(k)
          /\ \A j \in 0 .. DiagnosticRounds - 1 : j < k => MeasuredAfter(j) < MeasuredBefore(k)
      BY <2>1, MeasuredRoundsInOrder
    <3>2. k > 0 => k - 1 \in 0 .. DiagnosticRounds - 1 /\ k - 1 < k
      BY <1>1, <2>1
    <3>3. k > 0 => MeasuredAfter(k - 1) \in 1 .. CloseAt - 1
      BY <3>2, MeasuredRoundsInOrder
    <3>4. QED
      BY <3>1, <3>2, <3>3
  <2> DEFINE delta == Counters!RoundDelta(snapshots, DiagnosticWarmup + k)
  <2>4. delta = [a \in Shown(snapshots, MeasuredAfter(k)) |->
                  Value(snapshots, MeasuredAfter(k), a) - Value(snapshots, MeasuredBefore(k), a)]
    BY <2>1, RoundDeltaAt
  <2>5. sum[k + 1] = Counters!Add(sum[k], delta)
    <3>1. k + 1 # 0 /\ (k + 1) - 1 = k /\ DiagnosticWarmup + (k + 1) - 1 = DiagnosticWarmup + k
      BY <2>1, CounterConstants
    <3>2. QED
      BY <1>2, <2>1, <3>1
  <2> HIDE DEF delta
  <2>6. \A i \in 1 .. CloseAt, a \in Access : Value(snapshots, i, a) \in Nat
    BY ValuesAreNumbers DEF CounterTypes
  <2>7. Shown(snapshots, MeasuredBefore(k)) \subseteq Shown(snapshots, MeasuredAfter(k))
    BY <1>1, <2>3 DEF SnapshotsGrow
  <2>8. DOMAIN sum[k] \subseteq Shown(snapshots, MeasuredAfter(k))
    <3>1. CASE k = 0
      BY <2>2, <3>1
    <3>2. CASE k # 0
      <4>1. k > 0 /\ DOMAIN sum[k] = Shown(snapshots, MeasuredAfter(k - 1))
        BY <2>1, <2>2, <3>2
      <4>2. /\ MeasuredAfter(k - 1) \in 1 .. Len(snapshots)
            /\ MeasuredAfter(k) \in 1 .. Len(snapshots)
            /\ MeasuredAfter(k - 1) <= MeasuredAfter(k) /\ MeasuredAfter(k) < CloseAt
        BY <1>1, <2>3, <4>1
      <4>3. QED
        BY <4>1, <4>2 DEF SnapshotsGrow
    <3>3. QED
      BY <3>1, <3>2
  <2>9. DOMAIN delta = Shown(snapshots, MeasuredAfter(k))
    BY <2>4
  <2>10. DOMAIN sum[k + 1] = Shown(snapshots, MeasuredAfter((k + 1) - 1)) /\ k + 1 # 0
    <3>1. DOMAIN Counters!Add(sum[k], delta) = DOMAIN sum[k] \cup DOMAIN delta
      BY DEF Counters!Add
    <3>2. (k + 1) - 1 = k /\ k + 1 # 0
      BY <2>1
    <3>3. QED
      BY <2>5, <2>8, <2>9, <3>1, <3>2
  <2>11. ASSUME NEW a \in Access PROVE Counters!Count(sum[k + 1], a) = s[k + 1][a]
    <3>1. Counters!Count(sum[k], a) = s[k][a] /\ s[k][a] \in Int
      BY <1>3, <2>1, <2>2
    <3>2. MeasuredAfter(k) \in 1 .. CloseAt /\ MeasuredBefore(k) \in 1 .. CloseAt
      BY <1>1, <2>3
    <3>3. Value(snapshots, MeasuredAfter(k), a) \in Nat /\ Value(snapshots, MeasuredBefore(k), a) \in Nat
      BY <2>6, <3>2
    <3>4. Counters!Count(delta, a)
            = Value(snapshots, MeasuredAfter(k), a) - Value(snapshots, MeasuredBefore(k), a)
      <4>1. CASE a \in Shown(snapshots, MeasuredAfter(k))
        BY <2>4, <2>9, <4>1 DEF Counters!Count
      <4>2. CASE a \notin Shown(snapshots, MeasuredAfter(k))
        <5>1. Counters!Count(delta, a) = 0
          BY <2>9, <4>2 DEF Counters!Count
        <5>2. Value(snapshots, MeasuredAfter(k), a) = 0
          BY <4>2 DEF Shown, Value, Counters!Count
        <5>3. Value(snapshots, MeasuredBefore(k), a) = 0
          BY <2>7, <4>2 DEF Shown, Value, Counters!Count
        <5>4. QED
          BY <5>1, <5>2, <5>3
      <4>3. QED
        BY <4>1, <4>2
    <3>5. Counters!Count(delta, a) \in Int
      BY <3>3, <3>4
    <3>6. Counters!Count(sum[k + 1], a) = s[k][a] + Counters!Count(delta, a)
      <4> DEFINE f == sum[k]
      <4>1. Counters!Count(f, a) = s[k][a] /\ Counters!Count(f, a) \in Int
        BY <3>1
      <4> HIDE DEF f
      <4>2. Counters!Count(Counters!Add(f, delta), a) = s[k][a] + Counters!Count(delta, a)
        <5>1. Counters!Count(f, a) \in Int /\ Counters!Count(delta, a) \in Int
          BY <3>5, <4>1
        <5>2. Counters!Count(Counters!Add(f, delta), a)
                = Counters!Count(f, a) + Counters!Count(delta, a)
          BY ONLY <5>1, Added
        <5>3. QED
          BY <4>1, <5>2
      <4>3. QED
        BY <2>5, <4>2 DEF f
    <3>7. MeasuredAfter(k) <= CloseAt
      BY <3>2
    <3>8. QED
      BY <1>3, <2>1, <3>4, <3>6, <3>7
  <2>12. QED
    BY <2>10, <2>11
<1>6. S = Nat
  <2> HIDE DEF S
  <2>1. S \in SUBSET Nat
    BY DEF S
  <2>2. QED
    BY <1>4, <1>5, <2>1, InductiveSet
<1>7. ASSUME NEW k \in 0 .. DiagnosticRounds PROVE P(k)
  <2>1. k \in S /\ k <= DiagnosticRounds
    BY <1>1, <1>6
  <2>2. QED
    BY <2>1
<1>8. QED
  BY <1>7 DEF sum

(* Every snapshot but the last continues the one before, and the last does *)
(* when it is kept.                                                        *)
LEMMA ContinuousWhenKept ==
  ASSUME CounterTypes, SnapshotsGrow, NewestIsTotal, Len(snapshots) = CloseAt
  PROVE  Counters!Continuous(snapshots) <=>
           (Shown(snapshots, CloseAt - 1) = {} \/ ShowsTotal(CloseAt))
<1>1. CloseAt \in Nat /\ CloseAt >= 7
  BY CounterConstants
<1>2. ASSUME NEW i \in 1 .. CloseAt, NEW a \in Shown(snapshots, i)
      PROVE  a \in Access /\ snapshots[i].counters[a] = Value(snapshots, i, a)
  <2>1. snapshots[i] \in Snapshots
    BY ElementOfSeq DEF CounterTypes
  <2>2. PICK D \in SUBSET Access : snapshots[i].counters \in [D -> Nat]
    BY <2>1 DEF Snapshots
  <2>3. QED
    BY <2>2 DEF Shown, Value, Counters!Count
<1>3. Counters!Continuous(snapshots) <=>
        \A i \in 1 .. CloseAt - 1 : \A a \in Shown(snapshots, i) :
          a \in Shown(snapshots, i + 1) /\ Value(snapshots, i, a) <= Value(snapshots, i + 1, a)
  <2>1. \A i \in 1 .. CloseAt - 1 : i \in 1 .. CloseAt /\ i + 1 \in 1 .. CloseAt
    BY <1>1
  <2>2. Counters!Continuous(snapshots) <=>
          \A i \in 1 .. CloseAt - 1 : \A a \in Shown(snapshots, i) :
            a \in Shown(snapshots, i + 1)
              /\ snapshots[i].counters[a] <= snapshots[i + 1].counters[a]
    BY DEF Counters!Continuous, Shown
  <2>3. QED
    BY <1>2, <2>1, <2>2
<1>4. \A i \in 1 .. CloseAt - 1 : i + 1 # CloseAt =>
        \A a \in Shown(snapshots, i) :
          a \in Shown(snapshots, i + 1) /\ Value(snapshots, i, a) <= Value(snapshots, i + 1, a)
  <2> SUFFICES ASSUME NEW i \in 1 .. CloseAt - 1, i + 1 # CloseAt
               PROVE  \A a \in Shown(snapshots, i) :
                        /\ a \in Shown(snapshots, i + 1)
                        /\ Value(snapshots, i, a) <= Value(snapshots, i + 1, a)
    OBVIOUS
  <2>1. /\ i \in 1 .. Len(snapshots) /\ i + 1 \in 1 .. Len(snapshots)
        /\ i <= i + 1 /\ i + 1 < CloseAt /\ i \in 1 .. CloseAt
    BY <1>1
  <2>2. /\ Shown(snapshots, i) \subseteq Shown(snapshots, i + 1)
        /\ \A a \in Access : Value(snapshots, i, a) <= Value(snapshots, i + 1, a)
    BY <2>1 DEF SnapshotsGrow
  <2>3. QED
    BY <1>2, <2>1, <2>2
<1>5. CloseAt - 1 \in 1 .. CloseAt - 1 /\ (CloseAt - 1) + 1 = CloseAt /\ CloseAt - 1 \in 1 .. CloseAt
      /\ \A i \in 1 .. CloseAt - 1 : i + 1 = CloseAt => i = CloseAt - 1
  BY <1>1
<1>6. Counters!Continuous(snapshots) <=>
        \A a \in Shown(snapshots, CloseAt - 1) :
          /\ a \in Shown(snapshots, CloseAt)
          /\ Value(snapshots, CloseAt - 1, a) <= Value(snapshots, CloseAt, a)
  BY <1>3, <1>4, <1>5
<1>7. /\ Shown(snapshots, CloseAt - 1) \subseteq registered
      /\ \A a \in Access : Value(snapshots, CloseAt - 1, a) <= total[a]
      /\ ShowsTotal(CloseAt) \/ Shown(snapshots, CloseAt) = {}
  BY DEF NewestIsTotal
<1>8. ASSUME ShowsTotal(CloseAt)
      PROVE  \A a \in Shown(snapshots, CloseAt - 1) :
               /\ a \in Shown(snapshots, CloseAt)
               /\ Value(snapshots, CloseAt - 1, a) <= Value(snapshots, CloseAt, a)
  BY <1>2, <1>5, <1>7, <1>8 DEF ShowsTotal
<1>9. QED
  BY <1>6, <1>7, <1>8

(* CountersAreExact: of a finished file of cumulative counters.            *)
LEMMA CountersExact ==
  ASSUME CountersInv
  PROVE  CountersAreExact
<1> SUFFICES ASSUME Counters!Written, kind = "cumulative"
             PROVE  LET kept  == \A a \in registered :
                                   a \in DOMAIN snapshots[Len(Counters!Phases)].counters
                        shown == DOMAIN snapshots[Len(Counters!Phases) - 1].counters
                    IN  /\ Counters!Accepted(snapshots) <=> kept /\ shown # {}
                        /\ Counters!Accepted(snapshots) =>
                             Counters!Measured(snapshots) = [a \in shown |-> inMeasured[a]]
  BY DEF CountersAreExact, Counters!CountersAreExact
<1> DEFINE last  == DiagnosticRounds - 1
           shown == Shown(snapshots, CloseAt - 1)
           kept  == \A a \in registered : a \in Shown(snapshots, CloseAt)
           sum   == Counters!Sums(snapshots)
<1>1. /\ CounterTypes /\ SnapshotsGrow /\ NewestIsTotal /\ MeasuredIsSum
      /\ Len(Counters!Phases) = CloseAt /\ Len(snapshots) = CloseAt
      /\ CloseAt \in Nat /\ DiagnosticRounds \in Nat \ {0} /\ CloseAt >= 7
  BY PhaseList, CounterConstants DEF CountersInv, Counters!Written
<1>2. last \in 0 .. DiagnosticRounds - 1 /\ last + 1 = DiagnosticRounds
      /\ DiagnosticRounds \in 0 .. DiagnosticRounds /\ DiagnosticRounds - 1 = last
  BY <1>1
<1>3. MeasuredAfter(last) = CloseAt - 1
  BY CounterConstants DEF MeasuredAfter, AfterAt, CloseAt, AllRounds
<1> HIDE DEF last
<1>4. PICK s : IsSumOfRounds(snapshots, s) /\ CountedSoFar(s)
  BY <1>1 DEF MeasuredIsSum
<1>5. \A a \in Access : inMeasured[a] = s[DiagnosticRounds][a]
  <2>1. MeasuredAfter(last) < Len(snapshots)
    BY <1>1, <1>3
  <2>2. QED
    BY <1>2, <1>4, <2>1 DEF CountedSoFar
<1>6. /\ DOMAIN sum[DiagnosticRounds] = shown
      /\ \A a \in Access : Counters!Count(sum[DiagnosticRounds], a) = s[DiagnosticRounds][a]
  <2>1. /\ DOMAIN sum[DiagnosticRounds] =
             IF DiagnosticRounds = 0 THEN {}
             ELSE Shown(snapshots, MeasuredAfter(DiagnosticRounds - 1))
        /\ \A a \in Access : Counters!Count(sum[DiagnosticRounds], a) = s[DiagnosticRounds][a]
    BY <1>1, <1>2, <1>4, SumsAre
  <2>2. QED
    BY <1>1, <1>2, <1>3, <2>1
<1>7. Counters!Measured(snapshots) = sum[DiagnosticRounds]
  <2>1. Len(Counters!MeasuredRounds) = DiagnosticRounds
    BY <1>1 DEF Counters!MeasuredRounds
  <2>2. QED
    BY <2>1 DEF Counters!Measured
<1>8. shown \subseteq registered /\ registered \subseteq Access
  <2>1. shown \subseteq registered
    BY <1>1 DEF NewestIsTotal
  <2>2. QED
    BY <1>1, <2>1 DEF CounterTypes
<1>9. Counters!Measured(snapshots) = [a \in shown |-> inMeasured[a]]
  <2> DEFINE f == Counters!Add(sum[last], Counters!RoundDelta(snapshots, DiagnosticWarmup + last))
  <2>1. sum[DiagnosticRounds] = f
    <3>1. DiagnosticWarmup + DiagnosticRounds - 1 = DiagnosticWarmup + last
      BY <1>2, CounterConstants
    <3>2. QED
      BY <1>1, <1>2, <3>1, SumsAdd
  <2>2. f = [a \in DOMAIN f |-> f[a]]
    BY DEF Counters!Add
  <2> HIDE DEF f, sum, shown
  <2>3. \A a \in shown : f[a] = inMeasured[a]
    BY <1>5, <1>6, <1>8, <2>1 DEF Counters!Count
  <2>4. QED
    BY <1>6, <1>7, <2>1, <2>2, <2>3
<1>10. [i \in DOMAIN snapshots |-> snapshots[i].phase] = Counters!Phases
  <2>1. /\ DOMAIN snapshots = 1 .. CloseAt /\ Counters!Phases \in [1 .. CloseAt -> Names]
        /\ \A i \in 1 .. CloseAt : snapshots[i].phase = Counters!Phases[i]
    BY <1>1, PhaseList, LenProperties DEF CounterTypes
  <2>2. QED
    BY <2>1
<1>11. Counters!Accepted(snapshots) <=> Counters!Continuous(snapshots) /\ shown # {}
  <2>1. DOMAIN Counters!Measured(snapshots) = shown
    BY <1>9
  <2>2. QED
    BY <1>10, <2>1 DEF Counters!Accepted
<1>12. Counters!Continuous(snapshots) <=> (shown = {} \/ ShowsTotal(CloseAt))
  BY <1>1, ContinuousWhenKept
<1>13. ASSUME shown # {} PROVE kept <=> ShowsTotal(CloseAt)
  <2>1. ShowsTotal(CloseAt) \/ Shown(snapshots, CloseAt) = {}
    BY <1>1 DEF NewestIsTotal
  <2>2. ShowsTotal(CloseAt) => kept
    BY DEF ShowsTotal
  <2>3. Shown(snapshots, CloseAt) = {} => ~kept
    BY <1>8, <1>13
  <2>4. QED
    BY <2>1, <2>2, <2>3
<1>14. Counters!Accepted(snapshots) <=> kept /\ shown # {}
  BY <1>11, <1>12, <1>13
<1>15. QED
  BY <1>1, <1>9, <1>14 DEF Shown

-----------------------------------------------------------------------------
(***************************************************************************)
(* The readers together.                                                   *)
(***************************************************************************)
IInv == StreamInv /\ NativeInv /\ CountersInv

(* The inductive invariant of all three readers: what the stream has       *)
(* checked of the lines written so far, how far the native reader has got  *)
(* in its lines, what the snapshots show of the accesses.                  *)
THEOREM Invariant == ReadersSpec => []IInv
<1>1. ReadersInit => IInv
  BY StreamInit, NativeInit, CountersInit DEF ReadersInit, IInv
<1>2. IInv /\ [ReadersNext]_readerVars => IInv'
  <2> SUFFICES ASSUME IInv, [ReadersNext]_readerVars PROVE IInv'
    OBVIOUS
  <2>1. [Next]_vars /\ [Native!Next]_nativeVars /\ [Counters!Snapshot]_counterVars
    BY DEF ReadersNext, ReadCapi, ReadNative, Record, readerVars
  <2>2. QED
    BY <2>1, StreamStep, NativeStep, CountersStep DEF IInv
<1>3. QED
  BY <1>1, <1>2, PTL DEF ReadersSpec

(* AcceptedIsComplete: output of the C API worker that was accepted is the *)
(* whole protocol, each sample once, with the hits it declared.            *)
THEOREM CompleteOutput == ReadersSpec => []AcceptedIsComplete
<1>1. IInv => AcceptedIsComplete
  BY StreamAccepts DEF IInv
<1>2. QED
  BY <1>1, Invariant, PTL

(* RejectedIsDeviating: only output that deviates is rejected.             *)
THEOREM DeviatingOutput == ReadersSpec => []RejectedIsDeviating
<1>1. IInv => RejectedIsDeviating
  BY StreamRejects DEF IInv
<1>2. QED
  BY <1>1, Invariant, PTL

(* AcceptedIsMeasurement: the native reader accepts exactly the lines that *)
(* make up a complete measurement.                                         *)
THEOREM NativeMeasurement == ReadersSpec => []AcceptedIsMeasurement
<1>1. IInv => AcceptedIsMeasurement
  BY NativeIsExact DEF IInv
<1>2. QED
  BY <1>1, Invariant, PTL

(* CountersAreExact: cumulative counters are accepted exactly when they    *)
(* were kept to the end, and report what was accessed in measured rounds,  *)
(* however many rounds there are and whenever a counter is registered.     *)
THEOREM ExactCounters == ReadersSpec => []CountersAreExact
<1>1. IInv => CountersAreExact
  BY CountersExact DEF IInv
<1>2. QED
  BY <1>1, Invariant, PTL

-----------------------------------------------------------------------------
(* phase_deltas subtracts the counters of an earlier snapshot from those   *)
(* of a later one that is in the list, and never those at the close: what  *)
(* PhaseBarrier assumes of its intervals, for every number of rounds.      *)
(* (CloseAt is the length of the list, PhaseList.)                         *)
THEOREM IntervalsAreOrdered ==
  \A d \in Counters!phase_deltas(DiagnosticWarmup, DiagnosticRounds) :
    /\ d \in (1 .. CloseAt - 1) \X (1 .. CloseAt - 1)
    /\ d[1] < d[2]
<1> DEFINE P == Counters!phases(DiagnosticWarmup, DiagnosticRounds)
           IndexOf(name) == CHOOSE i \in DOMAIN P : P[i] = name
           Ordered(d) == d \in (1 .. CloseAt - 1) \X (1 .. CloseAt - 1) /\ d[1] < d[2]
<1>1. P = Counters!Phases /\ DOMAIN P = 1 .. CloseAt /\ CloseAt \in Nat /\ CloseAt > 6
  BY PhaseList, CounterConstants DEF Counters!Phases, CloseAt, AllRounds
<1>2. ASSUME NEW name, NEW k \in 1 .. CloseAt,
             \A i \in 1 .. CloseAt : P[i] = name <=> i = k
      PROVE  IndexOf(name) = k
  BY <1>1, <1>2
<1>pair. ASSUME NEW i \in 1 .. CloseAt - 1, NEW j \in 1 .. CloseAt - 1, i < j
         PROVE  Ordered(<<i, j>>)
  BY <1>pair
<1> HIDE DEF P, IndexOf, Ordered
<1>3. ASSUME NEW r \in 0 .. DiagnosticWarmup + DiagnosticRounds - 1
      PROVE  Ordered(<<IndexOf(Counters!BeforeRound(r)), IndexOf(Counters!AfterRound(r))>>)
  <2>0. r \in 0 .. AllRounds - 1
    BY CounterConstants DEF AllRounds
  <2>1. /\ BeforeAt(r) \in 1 .. CloseAt - 1 /\ AfterAt(r) \in 1 .. CloseAt - 1
        /\ BeforeAt(r) < AfterAt(r)
        /\ BeforeAt(r) \in 1 .. CloseAt /\ AfterAt(r) \in 1 .. CloseAt
    BY <1>1, <2>0, RoundPhases
  <2>2. IndexOf(Counters!BeforeRound(r)) = BeforeAt(r)
    BY <1>1, <1>2, <2>0, <2>1, RoundPhases
  <2>3. IndexOf(Counters!AfterRound(r)) = AfterAt(r)
    BY <1>1, <1>2, <2>0, <2>1, RoundPhases
  <2>4. QED
    BY <2>1, <2>2, <2>3, <1>pair
<1>4. \A i \in 1 .. CloseAt :
        /\ P[i] = Counters!BeforeOpen <=> i = 1
        /\ P[i] = Counters!Ready <=> i = 2
        /\ P[i] = Counters!BeforeFirst <=> i = 4
        /\ P[i] = Counters!AfterFirst <=> i = 5
  <2> SUFFICES ASSUME NEW i \in 1 .. CloseAt
               PROVE  /\ P[i] = Counters!BeforeOpen <=> i = 1
                      /\ P[i] = Counters!Ready <=> i = 2
                      /\ P[i] = Counters!BeforeFirst <=> i = 4
                      /\ P[i] = Counters!AfterFirst <=> i = 5
    OBVIOUS
  <2>1. P[i][1] = IF i = 1 THEN "before_open" ELSE IF i = 2 THEN "ready"
                  ELSE IF i = 4 THEN "before_first_search"
                  ELSE IF i = 5 THEN "after_first_search" ELSE P[i][1]
    BY <1>1, PhaseList
    DEF Counters!BeforeOpen, Counters!Ready, Counters!BeforeFirst, Counters!AfterFirst
  <2>2. i \notin {1, 2, 4, 5} =>
          P[i][1] \in {"before_round", "after_round", "after_close"}
    BY <1>1, PhaseList, CounterConstants
    DEF Counters!BeforeRound, Counters!AfterRound, Counters!AfterClose, Later
  <2>3. /\ i = 1 => P[i] = Counters!BeforeOpen
        /\ i = 2 => P[i] = Counters!Ready
        /\ i = 4 => P[i] = Counters!BeforeFirst
        /\ i = 5 => P[i] = Counters!AfterFirst
    BY <1>1, PhaseList
  <2>4. QED
    BY <2>1, <2>2, <2>3
    DEF Counters!BeforeOpen, Counters!Ready, Counters!BeforeFirst, Counters!AfterFirst
<1>5. Ordered(<<IndexOf(Counters!BeforeOpen), IndexOf(Counters!Ready)>>)
  <2>1. IndexOf(Counters!BeforeOpen) = 1 /\ IndexOf(Counters!Ready) = 2
    BY <1>1, <1>2, <1>4
  <2>2. QED
    BY <1>1, <2>1, <1>pair
<1>6. Ordered(<<IndexOf(Counters!BeforeFirst), IndexOf(Counters!AfterFirst)>>)
  <2>1. IndexOf(Counters!BeforeFirst) = 4 /\ IndexOf(Counters!AfterFirst) = 5
    BY <1>1, <1>2, <1>4
  <2>2. QED
    BY <1>1, <2>1, <1>pair
<1>7. Counters!phase_deltas(DiagnosticWarmup, DiagnosticRounds)
        = {<<IndexOf(Counters!BeforeOpen), IndexOf(Counters!Ready)>>,
           <<IndexOf(Counters!BeforeFirst), IndexOf(Counters!AfterFirst)>>}
          \cup {<<IndexOf(Counters!BeforeRound(r)), IndexOf(Counters!AfterRound(r))>> :
                  r \in 0 .. DiagnosticWarmup + DiagnosticRounds - 1}
  BY Zenon DEF Counters!phase_deltas, P, IndexOf
<1>8. \A d \in Counters!phase_deltas(DiagnosticWarmup, DiagnosticRounds) : Ordered(d)
  BY Zenon, <1>3, <1>5, <1>6, <1>7
<1>9. QED
  BY <1>8 DEF Ordered
=============================================================================
