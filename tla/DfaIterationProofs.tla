-------------------------- MODULE DfaIterationProofs --------------------------
(***************************************************************************)
(* Proofs about the enumeration of DFA results, for all valid subjects,    *)
(* all patterns and all changes of the settings: every search starts at a  *)
(* character, an enumeration that ends has one result for each position    *)
(* where the pattern matches, and the matches shown are the pattern's for  *)
(* the settings that can be honoured.                                      *)
(***************************************************************************)
EXTENDS DfaIteration, SequenceTheorems, FiniteSetTheorems, TLAPS

(* What a search may work with. *)
Searches == [max : MaxResultsSet, single : BOOLEAN, shortest : BOOLEAN]

(* What SearchFrom may append to the results. *)
Findings == {Result(q, s) : q \in MatchesFrom(0), s \in Searches}

(* Every position from the first start up to q where the pattern matches   *)
(* has its result.                                                         *)
FoundBefore(q) ==
  \A p \in MatchesFrom(first) :
    p < q => \E i \in 1..Len(results) : results[i].index = p

(* The results are in order; the i-th is no earlier than offset i - 1, so  *)
(* the history never fills up.                                             *)
InOrder ==
  /\ results \in Seq(Findings)
  /\ \A i \in 1..Len(results) :
       results[i].index \in MatchesFrom(first) /\ results[i].index >= i - 1
  /\ \A i, j \in 1..Len(results) : i < j => results[i].index < results[j].index

Progress ==
  /\ pc = "new" => results = << >>
  /\ pc \in {"suspended", "searching"} => Len(results) > 0
  /\ pc = "suspended" => FoundBefore(results[Len(results)].index)
  /\ pc = "searching" =>
       /\ next \in Boundaries /\ first <= next
       /\ results[Len(results)].index < next
       /\ FoundBefore(next)
  /\ pc = "done" => FoundBefore(Length + 1)

Inv == TypeOK /\ InOrder /\ Progress

-----------------------------------------------------------------------------
(* Subjects and results. *)

LEMMA Positions ==
  ASSUME TypeOK
  PROVE  /\ Length \in Nat /\ subject \in Seq(Units)
         /\ Boundaries \subseteq 0..Length
         /\ \A q \in Boundaries : pattern[q] \subseteq 0..Length
<1>1. subject \in Seq(Units)
  BY DfaAssumption DEF TypeOK
<1>2. Length \in Nat
  BY <1>1, LenProperties DEF Length
<1>3. Boundaries \subseteq 0..Length
  BY DEF Boundaries, BoundariesOf, Length
<1>4. pattern \in [Boundaries -> SUBSET Boundaries]
  BY DEF TypeOK, PatternsOf, Boundaries
<1> QED
  BY <1>1, <1>2, <1>3, <1>4

LEMMA DescendingLength ==
  ASSUME NEW ends, Cardinality(ends) \in Nat
  PROVE  /\ Descending(ends) \in Seq({Descending(ends)[i] : i \in 1..Cardinality(ends)})
         /\ Len(Descending(ends)) = Cardinality(ends)
<1> DEFINE n == Cardinality(ends)
           d == Descending(ends)
           S == {d[i] : i \in 1..n}
<1>1. d \in [1..n -> S]
  BY DEF Descending
<1> HIDE DEF d, S
<1>2. d \in Seq(S)
  BY <1>1, SeqDef
<1>3. Len(d) \in Nat /\ DOMAIN d = 1..Len(d) /\ DOMAIN d = 1..n
  BY <1>1, <1>2, LenProperties
<1>4. Len(d) = n
  BY <1>3
<1> QED
  BY <1>2, <1>4 DEF d, S

(* The sizes of the two vectors. *)
LEMMA Sizes ==
  ASSUME NEW s \in Searches
  PROVE  /\ NativePairs(s) \in Nat \ {0} /\ ManagedPairs(s) \in Nat \ {0}
         /\ Larger(1, s.max) = ManagedPairs(s)
         /\ Honoured(s) /\ ~s.shortest => NativePairs(s) = ManagedPairs(s)
<1>1. s.max \in 0..MaxRequest /\ UINT16_MAX \in Nat \ {0}
  <2>1. s.max \in MaxResultsSet
    BY DEF Searches
  <2> QED
    BY <2>1, DfaAssumption
<1> QED
  BY <1>1 DEF NativePairs, ManagedPairs, AskedPairs, Larger, Honoured

(* The ends of the matches at a position, from the longest match.          *)
LEMMA EndsListed ==
  ASSUME TypeOK, NEW q \in MatchesFrom(0)
  PROVE  LET all == Descending(pattern[q])
             n == Cardinality(pattern[q])
         IN /\ n \in Nat \ {0} /\ IsFiniteSet(pattern[q]) /\ pattern[q] \subseteq Int
            /\ all \in Seq({all[i] : i \in 1..n}) /\ Len(all) = n
<1>1. q \in Boundaries /\ pattern[q] # {} /\ pattern[q] \subseteq 0..Length /\ Length \in Nat
  BY Positions DEF MatchesFrom
<1>2. IsFiniteSet(0..Length)
  BY <1>1, FS_Interval
<1>3. IsFiniteSet(pattern[q])
  BY <1>1, <1>2, FS_Subset
<1>4. Cardinality(pattern[q]) \in Nat \ {0}
  BY <1>1, <1>3, FS_CardinalityType, FS_EmptySet
<1>5. \A i \in 0..Length : i \in Int
  BY <1>1
<1>6. pattern[q] \subseteq Int
  BY <1>1, <1>5
<1> DEFINE all == Descending(pattern[q])
           n == Cardinality(pattern[q])
<1>7. all \in Seq({all[i] : i \in 1..n}) /\ Len(all) = n
  BY <1>4, DescendingLength
<1> HIDE DEF all
<1> QED
  BY <1>3, <1>4, <1>6, <1>7 DEF all

-----------------------------------------------------------------------------
(* The matches of a result.                                                *)

LEMMA Ranks ==
  ASSUME NEW ends, ends \subseteq Int, IsFiniteSet(ends), NEW i \in 1..Cardinality(ends)
  PROVE  \E e \in ends : Cardinality({x \in ends : x > e}) = i - 1
<1> DEFINE n == Cardinality(ends)
           above(e) == {x \in ends : x > e}
           rank == [e \in ends |-> Cardinality(above(e))]
<1>1. n \in Nat
  BY FS_CardinalityType
<1>2. ASSUME NEW e \in ends
      PROVE  IsFiniteSet(above(e)) /\ Cardinality(above(e)) \in 0..(n - 1)
  <2>1. IsFiniteSet(above(e)) /\ Cardinality(above(e)) <= n
        /\ (n = Cardinality(above(e)) => ends = above(e))
    BY FS_Subset
  <2>2. e \notin above(e)
    OBVIOUS
  <2>3. Cardinality(above(e)) \in Nat
    BY <2>1, FS_CardinalityType
  <2> HIDE DEF above
  <2> QED
    BY <1>1, <2>1, <2>2, <2>3
<1>3. ASSUME NEW e \in ends, NEW d \in ends, e < d
      PROVE  Cardinality(above(d)) < Cardinality(above(e))
  <2>1. above(d) \subseteq above(e) /\ d \in above(e) /\ d \notin above(d)
    <3>1. e \in Int /\ d \in Int /\ \A x \in ends : x \in Int
      OBVIOUS
    <3>2. (\A x \in ends : x > d => x > e) /\ d > e /\ ~(d > d)
      BY <1>3, <3>1
    <3> QED
      BY <3>2
  <2>2. /\ Cardinality(above(d)) <= Cardinality(above(e))
        /\ (Cardinality(above(e)) = Cardinality(above(d)) => above(e) = above(d))
    BY <1>2, <2>1, FS_Subset
  <2>3. Cardinality(above(d)) \in Nat /\ Cardinality(above(e)) \in Nat
    BY <1>1, <1>2
  <2> HIDE DEF above
  <2> QED
    BY <2>1, <2>2, <2>3
<1> HIDE DEF above
<1>4. rank \in [ends -> 0..(n - 1)]
  BY <1>2
<1>5. \A e, d \in ends : rank[e] = rank[d] => e = d
  <2> SUFFICES ASSUME NEW e \in ends, NEW d \in ends, rank[e] = rank[d], e # d
               PROVE  FALSE
    OBVIOUS
  <2>1. Cardinality(above(e)) = Cardinality(above(d))
    OBVIOUS
  <2>2. e < d \/ d < e
    OBVIOUS
  <2>3. Cardinality(above(d)) \in Int
    BY <1>1, <1>2
  <2> QED
    BY <1>3, <2>1, <2>2, <2>3
<1>6. rank \in Injection(ends, 0..(n - 1))
  <2> HIDE DEF rank
  <2> QED
    BY <1>4, <1>5 DEF Injection, IsInjective
<1>7. IsFiniteSet(0..(n - 1)) /\ Cardinality(0..(n - 1)) = n
  <2> HIDE DEF n
  <2>1. 0 \in Int /\ n - 1 \in Int /\ (IF 0 > n - 1 THEN 0 ELSE (n - 1) - 0 + 1) = n
    BY <1>1
  <2>2. /\ IsFiniteSet(0..(n - 1))
        /\ Cardinality(0..(n - 1)) = IF 0 > n - 1 THEN 0 ELSE (n - 1) - 0 + 1
    BY <2>1, FS_Interval
  <2> QED
    BY <2>1, <2>2
<1>8. rank \in Surjection(ends, 0..(n - 1))
  <2> HIDE DEF rank
  <2> QED
    BY <1>6, <1>7, FS_Injection
<1>9. i - 1 \in 0..(n - 1)
  BY <1>1
<1>10. PICK e \in ends : rank[e] = i - 1
  BY <1>8, <1>9 DEF Surjection
<1> QED
  BY <1>10 DEF above

(* The ends are listed from the largest to the smallest.                   *)
LEMMA DescendingEnds ==
  ASSUME NEW ends, ends \subseteq Int, IsFiniteSet(ends)
  PROVE  /\ \A i \in 1..Cardinality(ends) : Descending(ends)[i] \in ends
         /\ \A i \in 2..Cardinality(ends) : Descending(ends)[i] < Descending(ends)[i - 1]
<1> DEFINE n == Cardinality(ends)
           d == Descending(ends)
           above(e) == {x \in ends : x > e}
<1>1. n \in Nat
  BY FS_CardinalityType
<1>2. ASSUME NEW i \in 1..n
      PROVE  d[i] \in ends /\ Cardinality(above(d[i])) = i - 1
  <2>1. d[i] = CHOOSE e \in ends : Cardinality({x \in ends : x > e}) = i - 1
    BY DEF Descending
  <2>2. \E e \in ends : Cardinality({x \in ends : x > e}) = i - 1
    BY Ranks
  <2> HIDE DEF d
  <2> QED
    BY <2>1, <2>2
<1> HIDE DEF d
<1>3. ASSUME NEW i \in 2..n
      PROVE  d[i] < d[i - 1]
  <2>1. i \in 1..n /\ i - 1 \in 1..n
    BY <1>1
  <2>2. /\ d[i] \in ends /\ d[i - 1] \in ends
        /\ Cardinality(above(d[i])) = i - 1 /\ Cardinality(above(d[i - 1])) = (i - 1) - 1
    BY <1>2, <2>1
  <2> SUFFICES ASSUME d[i - 1] <= d[i]
               PROVE  FALSE
    <3>1. d[i] \in Int /\ d[i - 1] \in Int
      BY <2>2
    <3> QED
      BY <3>1
  <2>3. above(d[i]) \subseteq above(d[i - 1]) /\ above(d[i - 1]) \subseteq ends
    <3>1. d[i] \in Int /\ d[i - 1] \in Int /\ \A x \in ends : x \in Int
      BY <2>2
    <3>2. \A x \in ends : x > d[i] => x > d[i - 1]
      BY <3>1
    <3> QED
      BY <3>2
  <2>4. Cardinality(above(d[i])) <= Cardinality(above(d[i - 1]))
    BY <2>3, FS_Subset
  <2> HIDE DEF above
  <2> QED
    BY <1>1, <2>2, <2>4
<1> QED
  BY <1>2, <1>3 DEF d

LEMMA SmallerOfTwo ==
  ASSUME NEW a \in Int, NEW b \in Int
  PROVE  Min({a, b}) = IF a <= b THEN a ELSE b
<1> DEFINE m == IF a <= b THEN a ELSE b
<1>1. m \in {a, b} /\ \A y \in {a, b} : m <= y
  OBVIOUS
<1>2. \A x \in {a, b} : (\A y \in {a, b} : x <= y) => x = m
  BY <1>1
<1> HIDE DEF m
<1>3. Min({a, b}) = m
  BY <1>1, <1>2 DEF Min
<1> QED
  BY <1>3 DEF m

(* What a search reports: ends of the pattern, longest first, as many as   *)
(* the output vector has room for.                                         *)
LEMMA Reported ==
  ASSUME TypeOK, NEW q \in MatchesFrom(0), NEW s \in Searches
  PROVE  LET n == Cardinality(pattern[q])
             m == IF s.shortest THEN 1 ELSE Min({n, NativePairs(s)})
         IN /\ Len(ReportedEnds(q, s)) = m /\ m \in Nat \ {0}
            /\ \A k \in 1..m : ReportedEnds(q, s)[k] \in pattern[q]
            /\ \A k \in 2..m : ReportedEnds(q, s)[k] < ReportedEnds(q, s)[k - 1]
            /\ Code(q, s) = IF ~s.shortest /\ n > NativePairs(s) THEN 0 ELSE m
<1> DEFINE all == Descending(pattern[q])
           n == Cardinality(pattern[q])
           room == NativePairs(s)
<1>1. /\ n \in Nat \ {0} /\ IsFiniteSet(pattern[q]) /\ pattern[q] \subseteq Int
      /\ all \in Seq({all[i] : i \in 1..n}) /\ Len(all) = n
  BY EndsListed
<1>2. /\ \A i \in 1..n : all[i] \in pattern[q]
      /\ \A i \in 2..n : all[i] < all[i - 1]
  BY <1>1, DescendingEnds
<1>3. room \in Nat \ {0}
  BY Sizes
<1> HIDE DEF all, room
<1>4. CASE s.shortest
  <2>1. ReportedEnds(q, s) = <<all[n]>> /\ n \in 1..n
    BY <1>1, <1>4 DEF ReportedEnds, all
  <2>2. Len(ReportedEnds(q, s)) = 1 /\ ReportedEnds(q, s)[1] \in pattern[q]
    BY <1>2, <2>1
  <2>3. Code(q, s) = 1
    BY <1>4, <2>2 DEF Code
  <2> QED
    BY <1>4, <2>2, <2>3
<1>5. CASE ~s.shortest /\ n > room
  <2>1. ReportedEnds(q, s) = SubSeq(all, 1, room)
    BY <1>1, <1>5 DEF ReportedEnds, all, room
  <2>2. Min({n, room}) = room
    BY <1>1, <1>3, <1>5, SmallerOfTwo
  <2>3. \A i \in 1..room : i \in 1..n
    BY <1>1, <1>3, <1>5
  <2>4. \A i \in 1..room : all[i] \in {all[j] : j \in 1..n}
    BY <2>3
  <2>5. /\ Len(SubSeq(all, 1, room)) = room
        /\ \A i \in 1..room : SubSeq(all, 1, room)[i] = all[i]
    BY <1>3, <2>4, SubSeqProperties
  <2>6. Code(q, s) = 0
    BY <1>5 DEF Code, room
  <2>7. \A i \in 2..room :
          all[i] < all[i - 1] /\ i \in 1..room /\ i - 1 \in 1..room
    BY <1>1, <1>2, <1>3, <1>5
  <2>8. \A i \in 1..room : all[i] \in pattern[q]
    BY <1>2, <2>3
  <2> QED
    BY <1>3, <1>5, <2>1, <2>2, <2>5, <2>6, <2>7, <2>8 DEF room
<1>6. CASE ~s.shortest /\ ~(n > room)
  <2>1. ReportedEnds(q, s) = all
    BY <1>1, <1>6 DEF ReportedEnds, all, room
  <2>2. Min({n, room}) = n
    BY <1>1, <1>3, <1>6, SmallerOfTwo
  <2>3. Code(q, s) = n
    BY <1>1, <1>6, <2>1 DEF Code, room
  <2> QED
    BY <1>1, <1>2, <1>6, <2>1, <2>2, <2>3 DEF room
<1> QED
  BY <1>4, <1>5, <1>6 DEF room

(* The first pair of the managed array is the first match reported; so the *)
(* result shows the position it was found at.                              *)
LEMMA FirstPair ==
  ASSUME TypeOK, NEW q \in MatchesFrom(0), NEW s \in Searches
  PROVE  /\ OutputVector(q, s)[1] = <<q, ReportedEnds(q, s)[1]>>
         /\ ReportedEnds(q, s)[1] \in pattern[q]
         /\ Result(q, s).index = q
         /\ Count(Code(q, s), s) \in Nat \ {0}
<1>1. ManagedPairs(s) \in Nat \ {0}
  BY Sizes
<1>2. PICK m \in Nat \ {0} :
        /\ Len(ReportedEnds(q, s)) = m
        /\ \A k \in 1..m : ReportedEnds(q, s)[k] \in pattern[q]
        /\ Code(q, s) \in {0, m}
  BY Reported
<1>3. 1 \in 1..m /\ 1 <= Len(ReportedEnds(q, s)) /\ 1 \in 1..ManagedPairs(s)
  BY <1>1, <1>2
<1>4. OutputVector(q, s)[1] = <<q, ReportedEnds(q, s)[1]>>
  BY <1>3 DEF OutputVector
<1>5. Result(q, s).index = q
  BY <1>4 DEF Result
<1>6. Count(Code(q, s), s) \in Nat \ {0}
  BY <1>1, <1>2 DEF Count
<1> QED
  BY <1>2, <1>3, <1>4, <1>5, <1>6

(* The matches that a result shows are the pairs of the managed array.     *)
LEMMA ShownPairs ==
  ASSUME NEW q, NEW s, Count(Code(q, s), s) \in Nat
  PROVE  /\ Len(Result(q, s).matches) = Count(Code(q, s), s)
         /\ \A k \in 1..Count(Code(q, s), s) :
              Result(q, s).matches[k] = OutputVector(q, s)[k]
<1> DEFINE v == OutputVector(q, s)
           c == Count(Code(q, s), s)
           S == {v[k] : k \in 1..c}
<1>1. Result(q, s).matches = SubSeq(v, 1, c)
  BY DEF Result
<1>2. c \in Nat
  OBVIOUS
<1> HIDE DEF v, c
<1>3. \A k \in 1..c : v[k] \in S
  OBVIOUS
<1> HIDE DEF S
<1>4. Len(SubSeq(v, 1, c)) = c /\ \A k \in 1..c : SubSeq(v, 1, c)[k] = v[k]
  BY <1>2, <1>3, SubSeqProperties
<1> QED
  BY <1>1, <1>4 DEF v, c

(* Whatever the search works with, the first match is one of the pattern's. *)
LEMMA FirstIsReal ==
  ASSUME TypeOK, NEW q \in MatchesFrom(0), NEW s \in Searches
  PROVE  /\ Result(q, s).matches[1][1] = q
         /\ Result(q, s).matches[1][2] \in pattern[q]
<1>1. 1 \in 1..Count(Code(q, s), s)
  BY FirstPair
<1>2. Result(q, s).matches[1] = OutputVector(q, s)[1]
  BY <1>1, FirstPair, ShownPairs
<1> QED
  BY <1>2, FirstPair

(* How many matches the settings ask for.                                  *)
Pairs(q, s) ==
  IF s.shortest THEN 1 ELSE Min({Cardinality(pattern[q]), Larger(1, s.max)})

LEMMA ResultMatches ==
  ASSUME TypeOK, NEW q \in MatchesFrom(0), NEW s \in Searches, Honoured(s)
  PROVE  /\ Len(Result(q, s).matches) = Pairs(q, s)
         /\ \A k \in 1..Pairs(q, s) :
              Result(q, s).matches[k][1] = q /\ Result(q, s).matches[k][2] \in pattern[q]
         /\ \A k \in 2..Pairs(q, s) :
              Result(q, s).matches[k][2] < Result(q, s).matches[k - 1][2]
<1> DEFINE ends == ReportedEnds(q, s)
           pairs == Pairs(q, s)
           n == Cardinality(pattern[q])
           v == OutputVector(q, s)
<1>1. /\ NativePairs(s) \in Nat \ {0} /\ ManagedPairs(s) \in Nat \ {0}
      /\ Larger(1, s.max) = ManagedPairs(s)
      /\ ~s.shortest => NativePairs(s) = ManagedPairs(s)
  BY Sizes
<1>2. /\ Len(ends) = pairs /\ pairs \in Nat \ {0}
      /\ \A k \in 1..pairs : ends[k] \in pattern[q]
      /\ \A k \in 2..pairs : ends[k] < ends[k - 1]
      /\ Code(q, s) = IF ~s.shortest /\ n > ManagedPairs(s) THEN 0 ELSE pairs
  BY <1>1, Reported DEF Pairs
<1>3. n \in Nat \ {0}
  BY EndsListed
<1>4. pairs <= ManagedPairs(s) /\ Count(Code(q, s), s) = pairs
  <2>1. CASE s.shortest
    BY <1>1, <1>2, <2>1 DEF Pairs, Count
  <2>2. CASE ~s.shortest
    <3>1. pairs = IF n <= ManagedPairs(s) THEN n ELSE ManagedPairs(s)
      BY <1>1, <1>3, <2>2, SmallerOfTwo DEF Pairs
    <3> HIDE DEF pairs, n
    <3> QED
      BY <1>1, <1>2, <1>3, <2>2, <3>1 DEF Count
  <2> QED
    BY <2>1, <2>2
<1> HIDE DEF pairs, n, ends
<1>5. \A k \in 1..pairs : v[k] = <<q, ends[k]>>
  BY <1>1, <1>2, <1>4 DEF OutputVector, ends
<1>6. /\ Len(Result(q, s).matches) = pairs
      /\ \A k \in 1..pairs : Result(q, s).matches[k] = <<q, ends[k]>>
  BY <1>2, <1>4, <1>5, ShownPairs
<1>7. \A k \in 2..pairs : k \in 1..pairs /\ k - 1 \in 1..pairs
  BY <1>2
<1>8. \A k \in 2..pairs :
        Result(q, s).matches[k][2] < Result(q, s).matches[k - 1][2]
  BY <1>2, <1>6, <1>7
<1>9. \A k \in 1..pairs :
        Result(q, s).matches[k][1] = q /\ Result(q, s).matches[k][2] \in pattern[q]
  BY <1>2, <1>6
<1> QED
  BY <1>6, <1>8, <1>9 DEF pairs

-----------------------------------------------------------------------------
(* A search. *)

LEMMA GivenKept ==
  ASSUME UNCHANGED given
  PROVE  /\ Length' = Length /\ Boundaries' = Boundaries /\ Findings' = Findings
         /\ MaxFound' = MaxFound
         /\ subject' = subject /\ pattern' = pattern
BY DEF given, Length, Boundaries, BoundariesOf, Findings, MaxFound, MatchesFrom, Result,
       OutputVector, ReportedEnds, Code, Count, NativePairs, ManagedPairs, AskedPairs, Searches

LEMMA FindingsAreTyped ==
  ASSUME TypeOK, NEW log \in Seq(Findings)
  PROVE  /\ Len(log) \in Nat
         /\ \A i \in 1..Len(log) : log[i].index \in MatchesFrom(0) /\ log[i].index \in 0..Length
<1>1. Len(log) \in Nat
  BY LenProperties
<1>2. ASSUME NEW i \in 1..Len(log)
      PROVE  log[i].index \in MatchesFrom(0) /\ log[i].index \in 0..Length
  <2>1. log[i] \in Findings
    BY ElementOfSeq
  <2>2. PICK q \in MatchesFrom(0), s \in Searches : log[i] = Result(q, s)
    BY <2>1 DEF Findings
  <2>3. log[i].index = q
    BY <2>2, FirstPair
  <2> QED
    BY <2>3, Positions DEF MatchesFrom
<1> QED
  BY <1>1, <1>2

(* What is known before a search from p: the results are those of the      *)
(* positions from f on that are before p.                                  *)
Before(f, p) ==
  /\ results \in Seq(Findings)
  /\ \A i \in 1..Len(results) :
       /\ results[i].index \in MatchesFrom(f) /\ results[i].index >= i - 1
       /\ results[i].index < p
  /\ \A i, j \in 1..Len(results) : i < j => results[i].index < results[j].index
  /\ \A q \in MatchesFrom(f) : q < p => \E i \in 1..Len(results) : results[i].index = q

LEMMA SearchStep ==
  ASSUME TypeOK, NEW f \in Int, NEW p \in Boundaries, f <= p, Before(f, p),
         NEW s \in Searches, SearchFrom(p, s), UNCHANGED given, first' = f
  PROVE  /\ InOrder' /\ Progress' /\ pc' \in {"suspended", "done", "threw"}
         /\ failures' \in 0..MaxFailures
         /\ \A i \in 1..Len(results') : results'[i].index \in 0..Length
<1> DEFINE n == Len(results)
<1>1. /\ n \in Nat /\ p \in 0..Length /\ Length \in Nat
      /\ \A i \in 1..n : results[i].index \in 0..Length
  BY Positions, FindingsAreTyped DEF Before
<1>2. MatchesFrom(f)' = MatchesFrom(f)
  BY GivenKept DEF MatchesFrom
<1>3. ASSUME NEW q \in FirstFrom(p), pc' = "suspended", failures' = failures,
             results' = IF n < MaxFound THEN Append(results, Result(q, s)) ELSE results
      PROVE  /\ InOrder' /\ Progress'
             /\ \A i \in 1..Len(results') : results'[i].index \in 0..Length
  <2>1. /\ q \in MatchesFrom(p) /\ q >= p /\ q \in Boundaries /\ q \in 0..Length
        /\ q \in MatchesFrom(0) /\ q \in MatchesFrom(f)
    <3>1. q \in Boundaries /\ q >= p /\ pattern[q] # {}
      BY <1>3 DEF FirstFrom, MatchesFrom
    <3>2. q \in 0..Length
      BY <3>1, Positions
    <3> QED
      BY <1>1, <3>1, <3>2 DEF MatchesFrom
  <2>2. Result(q, s).index = q /\ Result(q, s) \in Findings
    BY <2>1, FirstPair DEF Findings
  <2>3. n <= p
    <3>1. CASE n = 0
      BY <1>1, <3>1
    <3>2. CASE n # 0
      <4>1. n \in 1..n
        BY <1>1, <3>2
      <4>2. results[n].index >= n - 1 /\ results[n].index < p /\ results[n].index \in 0..Length
        BY <1>1, <4>1 DEF Before
      <4> QED
        BY <1>1, <4>2
    <3> QED
      BY <3>1, <3>2
  <2>4. n < MaxFound
    BY <1>1, <2>3 DEF MaxFound
  <2>5. /\ results' = Append(results, Result(q, s)) /\ results' \in Seq(Findings)
        /\ Len(results') = n + 1
        /\ \A i \in 1..n : results'[i] = results[i]
        /\ results'[n + 1] = Result(q, s)
    BY <1>3, <2>2, <2>4, AppendProperties DEF Before
  <2>6. results'[n + 1].index = q
    BY <2>2, <2>5
  <2>7. ASSUME NEW i \in 1..(n + 1)
        PROVE  /\ results'[i].index \in MatchesFrom(f) /\ results'[i].index >= i - 1
               /\ results'[i].index <= q /\ results'[i].index \in 0..Length
    <3>1. CASE i = n + 1
      BY <1>1, <2>1, <2>3, <2>6, <3>1
    <3>2. CASE i # n + 1
      <4>1. i \in 1..n
        BY <1>1, <3>2
      <4> QED
        BY <1>1, <2>1, <2>5, <4>1 DEF Before
    <3> QED
      BY <3>1, <3>2
  <2>8. ASSUME NEW i \in 1..(n + 1), NEW j \in 1..(n + 1), i < j
        PROVE  results'[i].index < results'[j].index
    <3>1. i \in 1..n
      BY <1>1, <2>8
    <3>2. CASE j = n + 1
      <4>1. results'[i].index = results[i].index /\ results[i].index < p
        BY <2>5, <3>1 DEF Before
      <4> QED
        BY <1>1, <2>1, <2>6, <3>1, <3>2, <4>1
    <3>3. CASE j # n + 1
      <4>1. j \in 1..n
        BY <1>1, <3>3
      <4> QED
        BY <2>5, <2>8, <3>1, <4>1 DEF Before
    <3> QED
      BY <3>2, <3>3
  <2>9. InOrder'
    BY <1>2, <2>5, <2>7, <2>8, GivenKept DEF InOrder
  <2>10. FoundBefore(results[Len(results)].index)'
    <3> SUFFICES ASSUME NEW x \in MatchesFrom(f), x < q
                 PROVE  \E i \in 1..(n + 1) : results'[i].index = x
      BY <1>2, <2>5, <2>6 DEF FoundBefore
    <3>1. x \in 0..Length /\ ~(x >= p)
      <4>1. x \in Boundaries /\ pattern[x] # {}
        BY DEF MatchesFrom
      <4>2. x \in 0..Length
        BY <4>1, Positions
      <4>3. x >= p => x \in MatchesFrom(p)
        BY <4>1 DEF MatchesFrom
      <4>4. \A y \in MatchesFrom(p) : q <= y
        BY <1>3 DEF FirstFrom
      <4> QED
        BY <2>1, <4>2, <4>3, <4>4
    <3>2. PICK i \in 1..n : results[i].index = x
      BY <1>1, <3>1 DEF Before
    <3> QED
      BY <1>1, <2>5, <3>2
  <2> QED
    BY <1>1, <1>3, <2>5, <2>7, <2>9, <2>10 DEF Progress
<1>4. ASSUME MatchesFrom(p) = {}, pc' = "done", results' = results
      PROVE  InOrder' /\ Progress'
  <2>1. InOrder'
    BY <1>2, <1>4, GivenKept DEF Before, InOrder
  <2>2. FoundBefore(Length + 1)'
    <3> SUFFICES ASSUME NEW x \in MatchesFrom(f)
                 PROVE  \E i \in 1..n : results[i].index = x
      BY <1>2, <1>4 DEF FoundBefore
    <3>1. x \in 0..Length /\ ~(x >= p)
      BY <1>1, <1>4, Positions DEF MatchesFrom
    <3> QED
      BY <1>1, <3>1 DEF Before
  <2> QED
    BY <1>4, <2>1, <2>2 DEF Progress
<1>5. ASSUME pc' = "threw", results' = results
      PROVE  InOrder' /\ Progress'
  BY <1>2, <1>5, GivenKept DEF Before, InOrder, Progress
<1>6. failures' \in 0..MaxFailures /\ pc' \in {"suspended", "done", "threw"}
  BY DfaAssumption DEF SearchFrom, TypeOK
<1> QED
  BY <1>1, <1>3, <1>4, <1>5, <1>6 DEF SearchFrom

-----------------------------------------------------------------------------
(* The steps of the enumeration. *)

(* Moving on by one unit, past the low surrogate it may meet, reaches the  *)
(* next character and skips none.                                          *)
LEMMA NextCharacter ==
  ASSUME TypeOK, NEW i \in 0..Length
  PROVE  /\ Advanced(i) \in Boundaries /\ Advanced(i) >= i
         /\ \A q \in Boundaries : q < Advanced(i) => q < i
<1>1. /\ Length \in Nat /\ Length = Len(subject) /\ Boundaries \subseteq 0..Length
      /\ \A k \in 1..Length : subject[k] = "low" => k > 1 /\ subject[k - 1] = "high"
  BY Positions, DfaAssumption DEF TypeOK, Length
<1>2. CASE IsLowSurrogate(i)
  <2>1. i < Length /\ subject[i + 1] = "low" /\ Advanced(i) = i + 1
    BY <1>2 DEF IsLowSurrogate, Advanced
  <2>2. i + 1 = Length \/ subject[(i + 1) + 1] # "low"
    <3> SUFFICES ASSUME i + 1 # Length, subject[(i + 1) + 1] = "low"
                 PROVE  FALSE
      OBVIOUS
    <3>1. (i + 1) + 1 \in 1..Length /\ ((i + 1) + 1) - 1 = i + 1
      BY <1>1, <2>1
    <3>2. subject[i + 1] = "high"
      BY <1>1, <3>1
    <3> QED
      BY <2>1, <3>2
  <2>3. i + 1 \in Boundaries
    BY <1>1, <2>1, <2>2 DEF Boundaries, BoundariesOf
  <2>4. i \notin Boundaries
    BY <1>1, <2>1 DEF Boundaries, BoundariesOf
  <2> QED
    BY <1>1, <2>1, <2>3, <2>4
<1>3. CASE ~IsLowSurrogate(i)
  <2>1. i = Length \/ subject[i + 1] # "low"
    BY <1>1, <1>3 DEF IsLowSurrogate
  <2>2. i \in Boundaries
    BY <1>1, <2>1 DEF Boundaries, BoundariesOf
  <2> QED
    BY <1>1, <1>3, <2>2 DEF Advanced
<1> QED
  BY <1>2, <1>3

LEMMA InitInv == Init => Inv
<1> SUFFICES ASSUME Init PROVE Inv
  OBVIOUS
<1>1. Length \in Nat /\ results = << >> /\ Len(results) = 0 /\ results \in Seq(Findings)
  BY DfaAssumption, LenProperties, EmptySeq DEF Init, Length
<1>2. TypeOK
  <2>1. 0 \in 0..MaxChanges /\ 0 \in 0..MaxFailures
    BY DfaAssumption
  <2>2. 0 \in 0..Length /\ 0 \in (-1)..(Length + 1) /\ startIndex \in (-1)..(Length + 1)
    BY <1>1 DEF Init
  <2>3. \A i \in 1..Len(results) : results[i].index \in 0..Length
    BY <1>1
  <2>4. /\ subject \in Subjects /\ pattern \in PatternsOf(subject)
        /\ maxResults \in MaxResultsSet /\ shortest \in BOOLEAN /\ options \in BOOLEAN
        /\ changes = 0 /\ failures = 0 /\ next = 0 /\ first = 0 /\ pc = "new"
    BY DEF Init
  <2> QED
    BY <2>1, <2>2, <2>3, <2>4 DEF TypeOK
<1>3. InOrder
  BY <1>1 DEF InOrder
<1>4. Progress
  BY DEF Init, Progress
<1> QED
  BY <1>2, <1>3, <1>4 DEF Inv

LEMMA ChangeSettingsStep ==
  ASSUME Inv, ChangeSettings
  PROVE  Inv'
<1>1. /\ pc' = pc /\ UNCHANGED <<given, options, next, first, results, failures>>
      /\ changes' = changes + 1 /\ changes < MaxChanges
      /\ maxResults' \in MaxResultsSet /\ shortest' \in BOOLEAN
      /\ startIndex' \in (-1)..(Length + 1) \/ startIndex' = startIndex
  BY DEF ChangeSettings
<1>2. changes' \in 0..MaxChanges
  BY <1>1, DfaAssumption DEF Inv, TypeOK
<1>3. TypeOK'
  BY <1>1, <1>2, GivenKept DEF Inv, TypeOK
<1>4. MatchesFrom(first)' = MatchesFrom(first)
  BY <1>1, GivenKept DEF MatchesFrom
<1>5. InOrder' /\ Progress'
  BY <1>1, <1>4, GivenKept DEF Inv, InOrder, Progress, FoundBefore
<1> QED
  BY <1>3, <1>5 DEF Inv

(* What a search works with is what the settings and the options hold.     *)
LEMMA SearchesAreTyped ==
  ASSUME TypeOK
  PROVE  Search(options) \in Searches /\ Search(shortest) \in Searches
BY DEF TypeOK, Search, Searches

LEMMA FirstMatchStep ==
  ASSUME Inv, FirstMatch
  PROVE  Inv'
<1>1. /\ TypeOK /\ results = << >> /\ Len(results) = 0 /\ results \in Seq(Findings)
      /\ next' = startIndex /\ first' = startIndex /\ UNCHANGED <<given, settings>>
      /\ options' = shortest
  BY EmptySeq DEF Inv, Progress, FirstMatch
<1>2. CASE startIndex \in Boundaries
  <2>1. startIndex \in 0..Length /\ Length \in Nat
    BY <1>1, <1>2, Positions
  <2>2. Before(startIndex, startIndex)
    BY <1>1, <2>1, Positions DEF Before, MatchesFrom
  <2>3. SearchFrom(startIndex, Search(shortest)) /\ Search(shortest) \in Searches
    BY <1>1, <1>2, SearchesAreTyped DEF FirstMatch
  <2>4. /\ InOrder' /\ Progress' /\ pc' \in {"suspended", "done", "threw"}
        /\ failures' \in 0..MaxFailures
        /\ \A i \in 1..Len(results') : results'[i].index \in 0..Length
    BY <1>1, <1>2, <2>1, <2>2, <2>3, SearchStep
  <2> QED
    BY <1>1, <2>4, GivenKept DEF Inv, TypeOK, settings
<1>3. CASE startIndex \notin Boundaries
  <2>1. pc' = "threw" /\ UNCHANGED <<results, failures>>
    BY <1>3 DEF FirstMatch
  <2>2. TypeOK'
    BY <1>1, <2>1, GivenKept DEF TypeOK, settings
  <2>3. InOrder'
    BY <1>1, <2>1, GivenKept DEF InOrder
  <2> QED
    BY <2>1, <2>2, <2>3 DEF Inv, Progress
<1> QED
  BY <1>2, <1>3

LEMMA NextMatchStep ==
  ASSUME Inv, NextMatch
  PROVE  Inv'
<1>1. /\ TypeOK /\ InOrder /\ pc = "searching"
      /\ SearchFrom(next, Search(options)) /\ Search(options) \in Searches
      /\ UNCHANGED <<given, settings, options, next, first>>
  BY SearchesAreTyped DEF Inv, NextMatch
<1>2. /\ next \in Boundaries /\ first <= next /\ Len(results) > 0
      /\ results[Len(results)].index < next /\ FoundBefore(next)
  BY <1>1 DEF Inv, Progress
<1>3. /\ Len(results) \in Nat /\ next \in 0..Length /\ first \in Int
      /\ \A i \in 1..Len(results) : results[i].index \in 0..Length
  BY <1>1, <1>2, Positions, FindingsAreTyped DEF InOrder, TypeOK
<1>4. Before(first, next)
  <2> DEFINE n == Len(results)
  <2>1. ASSUME NEW i \in 1..n
        PROVE  results[i].index < next
    <3>1. n \in 1..n
      BY <1>2, <1>3
    <3>2. i = n \/ results[i].index < results[n].index
      BY <1>1, <1>3, <3>1 DEF InOrder
    <3> QED
      BY <1>2, <1>3, <3>1, <3>2
  <2> QED
    BY <1>1, <1>2, <2>1 DEF Before, InOrder, FoundBefore
<1>5. /\ InOrder' /\ Progress' /\ pc' \in {"suspended", "done", "threw"}
      /\ failures' \in 0..MaxFailures
      /\ \A i \in 1..Len(results') : results'[i].index \in 0..Length
  BY <1>1, <1>2, <1>3, <1>4, SearchStep
<1> QED
  BY <1>1, <1>5, GivenKept DEF Inv, TypeOK, settings

LEMMA NextIndexStep ==
  ASSUME Inv, NextIndex
  PROVE  Inv'
<1> DEFINE n == Len(results)
           last == results[n].index
<1>1. /\ TypeOK /\ InOrder /\ pc = "suspended" /\ n > 0 /\ FoundBefore(last)
      /\ UNCHANGED <<given, settings, options, first, results, failures>>
      /\ IF IsPastEnd(last + 1)
         THEN pc' = "done" /\ next' = next
         ELSE pc' = "searching" /\ next' = Advanced(last + 1)
  BY DEF Inv, Progress, NextIndex, AfterIndex
<1>2. n \in 1..n /\ last \in 0..Length /\ Length \in Nat /\ last \in MatchesFrom(first)
  BY <1>1, Positions, FindingsAreTyped DEF InOrder
<1>3. Boundaries \subseteq 0..Length
  BY <1>1, Positions
<1>4. MatchesFrom(first)' = MatchesFrom(first)
  BY <1>1, GivenKept DEF MatchesFrom
<1>5. InOrder'
  BY <1>1, <1>4, GivenKept DEF InOrder
<1>6. \A q \in MatchesFrom(first) :
        q < last + 1 => \E i \in 1..n : results[i].index = q
  <2> SUFFICES ASSUME NEW q \in MatchesFrom(first), q < last + 1
               PROVE  \E i \in 1..n : results[i].index = q
    OBVIOUS
  <2>1. q \in 0..Length
    BY <1>3 DEF MatchesFrom
  <2>2. q = last \/ q < last
    BY <1>2, <2>1
  <2> QED
    BY <1>1, <1>2, <2>2 DEF FoundBefore
<1>7. CASE IsPastEnd(last + 1)
  <2>1. last = Length
    BY <1>2, <1>7 DEF IsPastEnd
  <2>2. FoundBefore(Length + 1)'
    BY <1>1, <1>4, <1>6, <2>1, GivenKept DEF FoundBefore
  <2>3. TypeOK'
    BY <1>1, <1>7, GivenKept DEF TypeOK, settings
  <2> QED
    BY <1>1, <1>5, <1>7, <2>2, <2>3 DEF Inv, Progress
<1>8. CASE ~IsPastEnd(last + 1)
  <2>1. last + 1 \in 0..Length /\ pc' = "searching" /\ next' = Advanced(last + 1)
    BY <1>1, <1>2, <1>8 DEF IsPastEnd
  <2>2. /\ next' \in Boundaries /\ next' >= last + 1
        /\ \A q \in Boundaries : q < next' => q < last + 1
    BY <1>1, <2>1, NextCharacter
  <2>3. next' \in 0..Length /\ last < next'
    <3>1. next' \in 0..Length
      BY <1>3, <2>2
    <3> HIDE DEF last
    <3> QED
      BY <1>2, <2>2, <3>1
  <2>4. first <= next'
    BY <1>1, <1>2, <2>3 DEF MatchesFrom, TypeOK
  <2>5. FoundBefore(next)'
    BY <1>1, <1>4, <1>6, <2>2 DEF FoundBefore, MatchesFrom
  <2>6. TypeOK'
    BY <1>1, <2>1, <2>3, GivenKept DEF TypeOK, settings
  <2>7. Progress'
    BY <1>1, <2>1, <2>2, <2>3, <2>4, <2>5, GivenKept DEF Progress
  <2> QED
    BY <1>5, <2>6, <2>7 DEF Inv
<1> QED
  BY <1>7, <1>8

LEMMA StepInv == Inv /\ [Next]_vars => Inv'
<1> SUFFICES ASSUME Inv, [Next]_vars PROVE Inv'
  OBVIOUS
<1>1. CASE UNCHANGED vars
  <2>1. UNCHANGED <<given, settings, options, next, first, results, failures, pc>>
    BY <1>1 DEF vars, given
  <2>2. TypeOK'
    BY <2>1, GivenKept DEF Inv, TypeOK, settings
  <2>3. MatchesFrom(first)' = MatchesFrom(first)
    BY <2>1, GivenKept DEF MatchesFrom
  <2>4. InOrder' /\ Progress'
    BY <2>1, <2>3, GivenKept DEF Inv, InOrder, Progress, FoundBefore
  <2> QED
    BY <2>2, <2>4 DEF Inv
<1> QED
  BY <1>1, ChangeSettingsStep, FirstMatchStep, NextIndexStep, NextMatchStep DEF Next, Done

LEMMA Invariance == Spec => []Inv
BY InitInv, StepInv, PTL DEF Spec

(* Every variable of the enumeration keeps its type; in particular no      *)
(* result is outside of the subject.                                       *)
THEOREM DfaTypeOK == Spec => []TypeOK
<1>1. Inv => TypeOK
  BY DEF Inv
<1> QED
  BY <1>1, Invariance, PTL

(* No search that skips the check of the subject starts inside a           *)
(* surrogate pair: PcreDfaRegex.MatchesIterator moves on by characters.    *)
THEOREM DfaStartsAtCharacters == Spec => []StartsAtCharacters
<1>1. Inv => StartsAtCharacters
  BY DEF Inv, Progress, StartsAtCharacters
<1> QED
  BY <1>1, Invariance, PTL

(* An enumeration that ends has one result for each position from its      *)
(* start on where the pattern matches, in order.                           *)
THEOREM DfaEachStartOnce == Spec => []EachStartOnce
<1>1. ASSUME Inv, pc = "done"
      PROVE  {results[i].index : i \in 1..Len(results)} = MatchesFrom(first)
  <2>1. FoundBefore(Length + 1) /\ TypeOK /\ InOrder
    BY <1>1 DEF Inv, Progress
  <2>2. \A q \in MatchesFrom(first) : q < Length + 1
    BY <2>1, Positions DEF MatchesFrom
  <2> QED
    BY <2>1, <2>2 DEF FoundBefore, InOrder
<1>2. Inv => EachStartOnce
  BY <1>1 DEF Inv, InOrder, EachStartOnce
<1> QED
  BY <1>2, Invariance, PTL

(* Whatever the settings become between two results, the first match of a  *)
(* result is one of the pattern's that start where the result does; and    *)
(* every match is, the longest first and as many as settings.MaxResults    *)
(* allows, when the search was for the shortest match, or for no more      *)
(* matches than a match data block holds with DfaShortest not set since.   *)
THEOREM DfaMatchesAreReal == Spec => []MatchesAreReal
<1>1. ASSUME Inv, NEW i \in 1..Len(results)
      PROVE  \E q \in MatchesFrom(0), s \in Searches :
               results[i] = Result(q, s) /\ results[i].index = q
  <2>1. results[i] \in Findings
    BY <1>1, ElementOfSeq DEF Inv, InOrder
  <2> QED
    BY <1>1, <2>1, FirstPair DEF Findings, Inv
<1>2. Inv => MatchesAreReal
  <2> SUFFICES ASSUME Inv, NEW i \in 1..Len(results)
               PROVE  LET r == results[i]
                          s == r.search
                          n == Cardinality(pattern[r.index])
                      IN /\ r.matches[1][1] = r.index
                         /\ r.matches[1][2] \in pattern[r.index]
                         /\ Honoured(s) =>
                              /\ Len(r.matches) =
                                   IF s.shortest THEN 1 ELSE Min({n, Larger(1, s.max)})
                              /\ \A k \in 1..Len(r.matches) :
                                   /\ r.matches[k][1] = r.index
                                   /\ r.matches[k][2] \in pattern[r.index]
                              /\ \A k \in 2..Len(r.matches) :
                                   r.matches[k][2] < r.matches[k - 1][2]
    BY DEF MatchesAreReal
  <2>1. PICK q \in MatchesFrom(0), s \in Searches :
          results[i] = Result(q, s) /\ results[i].index = q
    BY <1>1
  <2>2. TypeOK /\ results[i].search = s
    BY <2>1 DEF Inv, Result
  <2>3. results[i].matches[1][1] = q /\ results[i].matches[1][2] \in pattern[q]
    BY <2>1, <2>2, FirstIsReal
  <2>4. ASSUME Honoured(s)
        PROVE  /\ Len(results[i].matches) = Pairs(q, s)
               /\ \A k \in 1..Pairs(q, s) :
                    /\ results[i].matches[k][1] = q
                    /\ results[i].matches[k][2] \in pattern[q]
               /\ \A k \in 2..Pairs(q, s) :
                    results[i].matches[k][2] < results[i].matches[k - 1][2]
    BY <2>1, <2>2, <2>4, ResultMatches
  <2> QED
    BY <2>1, <2>2, <2>3, <2>4 DEF Pairs
<1> QED
  BY <1>2, Invariance, PTL
=============================================================================
