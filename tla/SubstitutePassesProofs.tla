------------------------- MODULE SubstitutePassesProofs -------------------------
(***************************************************************************)
(* Proofs about the passes a call of Substitute takes, for all subjects,   *)
(* replacements, buffers and answers of the callouts: the second pass fits *)
(* the buffer that the first one asked for, no pass is refused the memory  *)
(* it needs, and the text of the last one is the documented text.          *)
(*                                                                         *)
(* The first pass treats an answer that aborts as one that rejects, and    *)
(* the replay obeys it: the second pass may stop where the first went on.  *)
(***************************************************************************)
EXTENDS SubstituteProofs, FiniteSetTheorems, WellFoundedInduction

(* Calls without a case callout, in which nothing fails. *)
Plain == ~input.caseCallout /\ ~input.faulty

Working == Searching \cup {"tail"}

(* How many of the first k answers of a log let the match or the           *)
(* substitution pass.                                                      *)
Passed(log, k) == Cardinality({i \in 1..k : log[i][2] = "Pass"})

(* The units that n units of the subject take in the output of call c. *)
Room(c, n) == IF c.replacementOnly THEN 0 ELSE n

(* What a match takes that is replaced, and what one takes whose           *)
(* substitution callout has not been run.                                  *)
Insertion(c) == c.replacement

Worst(c) ==
  IF c.substCallout /\ Insertion(c) < Width THEN Width ELSE Insertion(c)

(* The output after k units of the subject outside of the matches, and     *)
(* matches of which a are replaced, r put back and u not decided yet.      *)
Size(c, k, a, r, u) ==
  Room(c, k) + a * Insertion(c) + Room(c, r * Width) + u * Worst(c)

(* Of j matches that are decided, those that are replaced. *)
Accepted(c, log, j) == IF c.substCallout THEN Passed(log, j) ELSE j

(* Of d matches, those that are decided. *)
Known(c, log, d) == IF c.substCallout THEN Len(log) ELSE d

(* The output up to position p of the subject, after j decided matches. *)
Written(c, log, p, j) ==
  Size(c, p - j * Width, Accepted(c, log, j), j - Accepted(c, log, j), 0)

(* The output up to position p after d matches, at worst. *)
Promise(c, log, p, d) ==
  LET j == Known(c, log, d) IN
  Size(c, p - d * Width, Accepted(c, log, j), j - Accepted(c, log, j), d - j)

-----------------------------------------------------------------------------
(* Products and counts. *)

LEMMA Times ==
  ASSUME NEW a \in Nat, NEW b \in Nat
  PROVE  a * b \in Nat /\ (a + 1) * b = a * b + b /\ 0 * b = 0 /\ (b > 0 => a <= a * b)
<1>1. a * b \in Nat /\ (a + 1) * b = a * b + b /\ 0 * b = 0
  OBVIOUS
<1>2. ASSUME b > 0
      PROVE  a <= a * b
  <2>1. PICK c \in Nat : b = c + 1
    <3>1. b - 1 \in Nat /\ b = (b - 1) + 1
      BY <1>2
    <3> QED
      BY <3>1
  <2>2. a * (c + 1) = a * c + a /\ a * c \in Nat
    OBVIOUS
  <2> QED
    BY <2>1, <2>2
<1> QED
  BY <1>1, <1>2

LEMMA TimesMonotone ==
  ASSUME NEW a \in Nat, NEW b \in Nat, NEW c \in Nat, a <= b
  PROVE  a * c <= b * c /\ (b - a) * c = b * c - a * c /\ (b - a) * c \in Nat
<1>1. PICK d \in Nat : b = a + d
  <2>1. b - a \in Nat /\ b = a + (b - a)
    OBVIOUS
  <2> QED
    BY <2>1
<1>2. (a + d) * c = a * c + d * c /\ d * c \in Nat /\ a * c \in Nat
  OBVIOUS
<1>3. b - a = d
  BY <1>1
<1> QED
  BY <1>1, <1>2, <1>3

LEMMA PassedStep ==
  ASSUME NEW log, NEW k \in Nat
  PROVE  /\ Passed(log, k) \in Nat /\ Passed(log, 0) = 0
         /\ Passed(log, k + 1) =
              IF log[k + 1][2] = "Pass" THEN Passed(log, k) + 1 ELSE Passed(log, k)
<1> DEFINE P(n) == {i \in 1..n : log[i][2] = "Pass"}
<1>1. P(k) \in SUBSET (1..k) /\ IsFiniteSet(1..k)
  BY FS_Interval
<1>2. IsFiniteSet(P(k))
  BY <1>1, FS_Subset
<1>3. Cardinality(P(k)) \in Nat
  BY <1>2, FS_CardinalityType
<1>4. P(0) = {}
  OBVIOUS
<1>5. CASE log[k + 1][2] = "Pass"
  <2>1. P(k + 1) = P(k) \cup {k + 1} /\ k + 1 \notin P(k)
    BY <1>5
  <2> HIDE DEF P
  <2>2. Cardinality(P(k + 1)) = Cardinality(P(k)) + 1
    BY <1>2, <2>1, FS_AddElement
  <2> QED
    BY <1>3, <1>4, <1>5, <2>2, FS_EmptySet DEF Passed, P
<1>6. CASE log[k + 1][2] # "Pass"
  <2>1. P(k + 1) = P(k)
    BY <1>6
  <2> QED
    BY <1>3, <1>4, <1>6, <2>1, FS_EmptySet DEF Passed
<1> QED
  BY <1>5, <1>6

LEMMA PassedMonotone ==
  ASSUME NEW log, NEW j \in Nat, NEW k \in Nat, j <= k
  PROVE  /\ Passed(log, j) \in Nat /\ Passed(log, k) \in Nat
         /\ Passed(log, j) <= Passed(log, k)
         /\ Passed(log, k) - Passed(log, j) <= k - j
<1> DEFINE P(n) == {i \in 1..n : log[i][2] = "Pass"}
           D == {i \in (j + 1)..k : log[i][2] = "Pass"}
<1>1. /\ P(j) \in SUBSET (1..j) /\ P(k) \in SUBSET (1..k) /\ D \in SUBSET ((j + 1)..k)
      /\ IsFiniteSet(1..j) /\ IsFiniteSet(1..k) /\ IsFiniteSet((j + 1)..k)
      /\ Cardinality((j + 1)..k) = k - j
  <2>1. /\ IsFiniteSet((j + 1)..k)
        /\ Cardinality((j + 1)..k) = IF j + 1 > k THEN 0 ELSE k - (j + 1) + 1
    <3>1. j + 1 \in Int /\ k \in Int
      OBVIOUS
    <3> QED
      BY <3>1, FS_Interval
  <2>2. IsFiniteSet(1..j) /\ IsFiniteSet(1..k)
    BY FS_Interval
  <2>3. (IF j + 1 > k THEN 0 ELSE k - (j + 1) + 1) = k - j
    OBVIOUS
  <2>4. P(j) \in SUBSET (1..j) /\ P(k) \in SUBSET (1..k) /\ D \in SUBSET ((j + 1)..k)
    OBVIOUS
  <2> QED
    BY <2>1, <2>2, <2>3, <2>4
<1>2. IsFiniteSet(P(j)) /\ IsFiniteSet(P(k)) /\ IsFiniteSet(D) /\ Cardinality(D) <= k - j
  BY <1>1, FS_Subset
<1>3. P(k) = P(j) \cup D /\ P(j) \cap D = {}
  OBVIOUS
<1> HIDE DEF P, D
<1>4. Cardinality(P(k)) = Cardinality(P(j)) + Cardinality(D) - Cardinality({})
  BY <1>2, <1>3, FS_Union
<1>5. Cardinality({}) = 0
  BY FS_EmptySet
<1>6. Cardinality(P(k)) \in Nat /\ Cardinality(P(j)) \in Nat /\ Cardinality(D) \in Nat
  BY <1>2, FS_CardinalityType
<1> QED
  BY <1>2, <1>4, <1>5, <1>6 DEF Passed, P

LEMMA PassedBound ==
  ASSUME NEW log, NEW k \in Nat
  PROVE  Passed(log, k) \in Nat /\ Passed(log, k) <= k /\ k - Passed(log, k) \in Nat
<1>1. Passed(log, 0) = 0
  BY PassedStep
<1> QED
  BY <1>1, PassedMonotone

LEMMA PassedAlike ==
  ASSUME NEW log, NEW longer, NEW k \in Nat, \A i \in 1..k : longer[i] = log[i]
  PROVE  Passed(longer, k) = Passed(log, k)
<1>1. {i \in 1..k : longer[i][2] = "Pass"} = {i \in 1..k : log[i][2] = "Pass"}
  OBVIOUS
<1> QED
  BY <1>1 DEF Passed

-----------------------------------------------------------------------------
(* Sizes of outputs. *)

LEMMA SizeTypes ==
  ASSUME NEW c \in InputType
  PROVE  /\ Insertion(c) \in Nat /\ Worst(c) \in Nat /\ Width \in Nat \ {0}
         /\ Insertion(c) <= Worst(c)
         /\ c.substCallout => Width <= Worst(c)
         /\ ~c.substCallout => Worst(c) = Insertion(c)
         /\ \A n \in Nat : Room(c, n) \in Nat /\ Room(c, n) <= n
         /\ \A n \in Nat, k \in Nat : Room(c, n + k) = Room(c, n) + Room(c, k)
         /\ \A n \in Nat, k \in Nat : n <= k => Room(c, n) <= Room(c, k)
         /\ Room(c, 0) = 0
BY SubstituteAssumption DEF Insertion, Worst, Room, InputType

LEMMA SizeSteps ==
  ASSUME NEW c \in InputType, NEW k \in Nat, NEW a \in Nat, NEW r \in Nat, NEW u \in Nat
  PROVE  /\ Size(c, k, a, r, u) \in Nat
         /\ Size(c, k, a + 1, r, u) = Size(c, k, a, r, u) + Insertion(c)
         /\ Size(c, k, a, r + 1, u) = Size(c, k, a, r, u) + Room(c, Width)
         /\ Size(c, k, a, r, u + 1) = Size(c, k, a, r, u) + Worst(c)
<1> DEFINE n1 == Room(c, k)
           n2 == a * Insertion(c)
           n3 == Room(c, r * Width)
           n4 == u * Worst(c)
           x2 == (a + 1) * Insertion(c)
           x3 == Room(c, (r + 1) * Width)
           x4 == (u + 1) * Worst(c)
<1>1. /\ n1 \in Nat /\ n2 \in Nat /\ n3 \in Nat /\ n4 \in Nat
      /\ x2 = n2 + Insertion(c) /\ x3 = n3 + Room(c, Width) /\ x4 = n4 + Worst(c)
  <2>1. n2 \in Nat /\ x2 = n2 + Insertion(c)
    BY SizeTypes, Times
  <2>2. n4 \in Nat /\ x4 = n4 + Worst(c)
    BY SizeTypes, Times
  <2>3. n1 \in Nat
    BY SizeTypes
  <2>4. n3 \in Nat /\ x3 = n3 + Room(c, Width)
    <3> DEFINE w == r * Width
    <3>1. w \in Nat /\ (r + 1) * Width = w + Width /\ Width \in Nat
      BY SizeTypes, Times
    <3>2. n3 = Room(c, w)
      OBVIOUS
    <3>3. x3 = Room(c, w + Width)
      BY <3>1
    <3> HIDE DEF w, n3, x3
    <3>4. Room(c, w) \in Nat /\ Room(c, w + Width) = Room(c, w) + Room(c, Width)
      BY <3>1, SizeTypes
    <3> QED
      BY <3>2, <3>3, <3>4
  <2> QED
    BY <2>1, <2>2, <2>3, <2>4
<1>2. Room(c, Width) \in Nat /\ Worst(c) \in Nat /\ Insertion(c) \in Nat
  BY SizeTypes
<1>3. Size(c, k, a, r, u) = n1 + n2 + n3 + n4
  BY DEF Size
<1>4. Size(c, k, a + 1, r, u) = n1 + x2 + n3 + n4
  BY DEF Size
<1>5. Size(c, k, a, r + 1, u) = n1 + n2 + x3 + n4
  BY DEF Size
<1>6. Size(c, k, a, r, u + 1) = n1 + n2 + n3 + x4
  BY DEF Size
<1> HIDE DEF n1, n2, n3, n4, x2, x3, x4
<1>7. Size(c, k, a, r, u) \in Nat
  BY <1>1, <1>3
<1>8. Size(c, k, a + 1, r, u) = Size(c, k, a, r, u) + Insertion(c)
  BY <1>1, <1>2, <1>3, <1>4
<1>9. Size(c, k, a, r + 1, u) = Size(c, k, a, r, u) + Room(c, Width)
  BY <1>1, <1>2, <1>3, <1>5
<1>10. Size(c, k, a, r, u + 1) = Size(c, k, a, r, u) + Worst(c)
  BY <1>1, <1>2, <1>3, <1>6
<1> QED
  BY <1>7, <1>8, <1>9, <1>10

LEMMA SizeGrows ==
  ASSUME NEW c \in InputType,
         NEW k \in Nat, NEW a \in Nat, NEW r \in Nat, NEW u \in Nat, NEW n \in Nat
  PROVE  Size(c, k + n, a, r, u) = Size(c, k, a, r, u) + Room(c, n)
<1> DEFINE n2 == a * Insertion(c)
           n3 == Room(c, r * Width)
           n4 == u * Worst(c)
<1>1. n2 \in Nat /\ n4 \in Nat /\ r * Width \in Nat
  BY SizeTypes, Times
<1>2. Room(c, k) \in Nat /\ Room(c, n) \in Nat /\ Room(c, k + n) = Room(c, k) + Room(c, n)
  BY SizeTypes
<1>3. n3 \in Nat
  BY <1>1, SizeTypes
<1>4. /\ Size(c, k, a, r, u) = Room(c, k) + n2 + n3 + n4
      /\ Size(c, k + n, a, r, u) = Room(c, k + n) + n2 + n3 + n4
  BY DEF Size
<1> HIDE DEF n2, n3, n4
<1> QED
  BY <1>1, <1>2, <1>3, <1>4

LEMMA SizeMonotone ==
  ASSUME NEW c \in InputType,
         NEW k \in Nat, NEW a \in Nat, NEW r \in Nat, NEW u \in Nat,
         NEW k2 \in Nat, NEW u2 \in Nat, k <= k2, u <= u2
  PROVE  /\ Size(c, k, a, r, u) <= Size(c, k2, a, r, u2)
         /\ u < u2 => Size(c, k, a, r, u) + Worst(c) <= Size(c, k2, a, r, u2)
<1>1. /\ Size(c, k, a, r, u) \in Nat /\ Size(c, k2, a, r, u) \in Nat
      /\ Size(c, k, a, r, u) <= Size(c, k2, a, r, u)
  <2>1. PICK n \in Nat : k2 = k + n
    <3>1. k2 - k \in Nat /\ k2 = k + (k2 - k)
      OBVIOUS
    <3> QED
      BY <3>1
  <2>2. Size(c, k + n, a, r, u) = Size(c, k, a, r, u) + Room(c, n)
    BY SizeGrows
  <2>3. Size(c, k, a, r, u) \in Nat /\ Room(c, n) \in Nat
    BY SizeTypes, SizeSteps
  <2> QED
    BY <2>1, <2>2, <2>3
<1> DEFINE n2 == a * Insertion(c)
           n4 == u * Worst(c)
           x4 == u2 * Worst(c)
<1>2. n4 <= x4 /\ n4 \in Nat /\ x4 \in Nat /\ (u < u2 => n4 + Worst(c) <= x4)
  <2>1. n4 <= x4 /\ n4 \in Nat /\ x4 \in Nat
    BY SizeTypes, Times, TimesMonotone
  <2>2. ASSUME u < u2
        PROVE  n4 + Worst(c) <= x4
    <3>1. u + 1 \in Nat /\ u + 1 <= u2
      BY <2>2
    <3>2. (u + 1) * Worst(c) <= x4 /\ (u + 1) * Worst(c) = n4 + Worst(c)
      BY <3>1, SizeTypes, Times, TimesMonotone
    <3> QED
      BY <3>2
  <2> QED
    BY <2>1, <2>2
<1>3. /\ Size(c, k2, a, r, u) = Room(c, k2) + n2 + Room(c, r * Width) + n4
      /\ Size(c, k2, a, r, u2) = Room(c, k2) + n2 + Room(c, r * Width) + x4
  BY DEF Size
<1>4. n2 \in Nat /\ Room(c, k2) \in Nat /\ Room(c, r * Width) \in Nat /\ Worst(c) \in Nat
  BY SizeTypes, Times
<1> HIDE DEF n2, n4, x4
<1> QED
  BY <1>1, <1>2, <1>3, <1>4

(* Matches that are left in the subject take no more room than undecided   *)
(* ones.                                                                   *)
LEMMA SizeOfLeft ==
  ASSUME NEW c \in InputType, c.replacementOnly \/ Width <= Worst(c),
         NEW k \in Nat, NEW a \in Nat, NEW r \in Nat, NEW n \in Nat
  PROVE  n * Width \in Nat /\ Size(c, k + n * Width, a, r, 0) <= Size(c, k, a, r, n)
<1> DEFINE w == n * Width
           x == n * Worst(c)
<1>1. Width \in Nat /\ Worst(c) \in Nat
  BY SizeTypes
<1>2. w \in Nat /\ x \in Nat /\ Room(c, w) <= x
  <2>1. w \in Nat /\ x \in Nat
    BY <1>1, Times
  <2>2. CASE c.replacementOnly
    BY <2>1, <2>2 DEF Room
  <2>3. CASE Width <= Worst(c)
    <3>1. Width * n <= Worst(c) * n
      BY <1>1, <2>3, TimesMonotone
    <3>2. Width * n = w /\ Worst(c) * n = x
      BY <1>1
    <3> HIDE DEF w, x
    <3> QED
      BY <2>1, <3>1, <3>2, SizeTypes
  <2> QED
    BY <2>2, <2>3
<1>3. Size(c, k + w, a, r, 0) = Size(c, k, a, r, 0) + Room(c, w)
  BY <1>2, SizeGrows
<1>4. Size(c, k, a, r, n) = Size(c, k, a, r, 0) + x
  <2>1. 0 * Worst(c) = 0
    BY <1>1, Times
  <2> DEFINE n2 == a * Insertion(c)
             n3 == r * Width
  <2>2. n2 \in Nat /\ n3 \in Nat
    BY SizeTypes, Times
  <2>3. /\ Size(c, k, a, r, n) = Room(c, k) + n2 + Room(c, n3) + x
        /\ Size(c, k, a, r, 0) = Room(c, k) + n2 + Room(c, n3) + 0
    BY <2>1 DEF Size
  <2> HIDE DEF n2, n3, x
  <2> QED
    BY <1>2, <2>2, <2>3, SizeTypes
<1> HIDE DEF w, x
<1>5. Size(c, k, a, r, 0) \in Nat /\ Room(c, w) \in Nat
  BY <1>2, SizeSteps, SizeTypes
<1> QED
  BY <1>2, <1>3, <1>4, <1>5 DEF w

-----------------------------------------------------------------------------
(* What the answers in a log say of the output. *)

(* The j-th match is replaced. *)
Replaced(c, log, j) == ~c.substCallout \/ log[j][2] = "Pass"

LEMMA AcceptedSteps ==
  ASSUME NEW c \in InputType, NEW log, NEW j \in Nat
  PROVE  /\ Accepted(c, log, j) \in Nat /\ j - Accepted(c, log, j) \in Nat
         /\ Accepted(c, log, j + 1) =
              IF Replaced(c, log, j + 1) THEN Accepted(c, log, j) + 1 ELSE Accepted(c, log, j)
         /\ Accepted(c, log, 0) = 0
BY PassedStep, PassedBound DEF Accepted, Replaced

(* Position p is not before the end of j matches.                          *)
Beyond(p, j) == j * Width <= p

LEMMA WrittenSteps ==
  ASSUME NEW c \in InputType, NEW log, NEW p \in Nat, NEW j \in Nat, Beyond(p, j)
  PROVE  /\ Written(c, log, p, j) \in Nat
         /\ Written(c, log, p + Width, j + 1) =
              Written(c, log, p, j) +
                IF Replaced(c, log, j + 1) THEN Insertion(c) ELSE Room(c, Width)
         /\ Beyond(p + Width, j + 1)
<1>1. Width \in Nat /\ j * Width \in Nat /\ (j + 1) * Width = j * Width + Width
  BY SizeTypes, Times
<1>2. PICK k \in Nat : p = j * Width + k
  <2>1. p - j * Width \in Nat /\ p = j * Width + (p - j * Width)
    BY <1>1 DEF Beyond
  <2> QED
    BY <2>1
<1>3. PICK a \in Nat : a = Accepted(c, log, j)
  BY AcceptedSteps
<1>4. PICK r \in Nat : r = j - a
  BY <1>3, AcceptedSteps
<1>5. p - j * Width = k /\ (p + Width) - (j + 1) * Width = k
  BY <1>1, <1>2
<1>6. Written(c, log, p, j) = Size(c, k, a, r, 0)
  BY <1>3, <1>4, <1>5 DEF Written
<1>7. Written(c, log, p + Width, j + 1) =
        IF Replaced(c, log, j + 1) THEN Size(c, k, a + 1, r, 0) ELSE Size(c, k, a, r + 1, 0)
  <2> DEFINE a1 == Accepted(c, log, j + 1)
  <2>1. Written(c, log, p + Width, j + 1) = Size(c, k, a1, (j + 1) - a1, 0)
    BY <1>5 DEF Written
  <2>2. IF Replaced(c, log, j + 1) THEN a1 = a + 1 /\ (j + 1) - a1 = r
        ELSE a1 = a /\ (j + 1) - a1 = r + 1
    <3>1. a1 = IF Replaced(c, log, j + 1) THEN a + 1 ELSE a
      BY <1>3, AcceptedSteps
    <3> HIDE DEF a1
    <3> QED
      BY <1>3, <1>4, <3>1
  <2> HIDE DEF a1
  <2> QED
    BY <2>1, <2>2
<1>8. /\ Size(c, k, a, r, 0) \in Nat
      /\ Size(c, k, a + 1, r, 0) = Size(c, k, a, r, 0) + Insertion(c)
      /\ Size(c, k, a, r + 1, 0) = Size(c, k, a, r, 0) + Room(c, Width)
  <2>1. 0 \in Nat
    OBVIOUS
  <2>2. Size(c, k, a, r, 0) \in Nat
    BY <2>1, SizeSteps
  <2>3. Size(c, k, a + 1, r, 0) = Size(c, k, a, r, 0) + Insertion(c)
    BY <2>1, SizeSteps
  <2>4. Size(c, k, a, r + 1, 0) = Size(c, k, a, r, 0) + Room(c, Width)
    BY <2>1, SizeSteps
  <2> QED
    BY <2>2, <2>3, <2>4
<1>9. Beyond(p + Width, j + 1)
  BY <1>1 DEF Beyond
<1> QED
  BY <1>6, <1>7, <1>8, <1>9

LEMMA WrittenGrows ==
  ASSUME NEW c \in InputType, NEW log, NEW p \in Nat, NEW j \in Nat, Beyond(p, j),
         NEW n \in Nat
  PROVE  Written(c, log, p + n, j) = Written(c, log, p, j) + Room(c, n)
<1>1. j * Width \in Nat
  BY SizeTypes, Times
<1>2. PICK k \in Nat : p - j * Width = k /\ (p + n) - j * Width = k + n
  <2>1. p - j * Width \in Nat /\ (p + n) - j * Width = (p - j * Width) + n
    BY <1>1 DEF Beyond
  <2> QED
    BY <2>1
<1>3. PICK a \in Nat, r \in Nat : a = Accepted(c, log, j) /\ r = j - a
  BY AcceptedSteps
<1>4. /\ Written(c, log, p, j) = Size(c, k, a, r, 0)
      /\ Written(c, log, p + n, j) = Size(c, k + n, a, r, 0)
  BY <1>2, <1>3 DEF Written
<1>5. 0 \in Nat
  OBVIOUS
<1> QED
  BY <1>4, <1>5, SizeGrows

(* All the matches that have been decided are counted. *)
Counted(c, log, d) == c.substCallout => Len(log) \in Nat /\ Len(log) <= d

LEMMA PromiseSteps ==
  ASSUME NEW c \in InputType, NEW log, NEW p \in Nat, NEW d \in Nat, Beyond(p, d),
         Counted(c, log, d)
  PROVE  /\ Promise(c, log, p, d) \in Nat
         /\ Promise(c, log, p + Width, d + 1) = Promise(c, log, p, d) + Worst(c)
         /\ Beyond(p + Width, d + 1)
<1>1. Width \in Nat /\ d * Width \in Nat /\ (d + 1) * Width = d * Width + Width
  BY SizeTypes, Times
<1>2. PICK k \in Nat : p = d * Width + k
  <2>1. p - d * Width \in Nat /\ p = d * Width + (p - d * Width)
    BY <1>1 DEF Beyond
  <2> QED
    BY <2>1
<1>3. PICK j \in Nat, u \in Nat : j = Known(c, log, d) /\ u = d - j
  BY DEF Known, Counted
<1>4. PICK a \in Nat, r \in Nat : a = Accepted(c, log, j) /\ r = j - a
  BY AcceptedSteps
<1>5. p - d * Width = k /\ (p + Width) - (d + 1) * Width = k
  BY <1>1, <1>2
<1>6. Promise(c, log, p, d) = Size(c, k, a, r, u)
  BY <1>3, <1>4, <1>5 DEF Promise
<1>7. /\ Size(c, k, a, r, u) \in Nat
      /\ Size(c, k, a + 1, r, u) = Size(c, k, a, r, u) + Insertion(c)
      /\ Size(c, k, a, r, u + 1) = Size(c, k, a, r, u) + Worst(c)
  <2>1. Size(c, k, a, r, u) \in Nat
    BY SizeSteps
  <2>2. Size(c, k, a + 1, r, u) = Size(c, k, a, r, u) + Insertion(c)
    BY SizeSteps
  <2>3. Size(c, k, a, r, u + 1) = Size(c, k, a, r, u) + Worst(c)
    BY SizeSteps
  <2> QED
    BY <2>1, <2>2, <2>3
<1>8. Promise(c, log, p + Width, d + 1) = Promise(c, log, p, d) + Worst(c)
  <2>1. CASE c.substCallout
    <3>1. Known(c, log, d + 1) = j /\ (d + 1) - j = u + 1
      BY <1>3, <2>1 DEF Known
    <3>2. Promise(c, log, p + Width, d + 1) = Size(c, k, a, r, u + 1)
      BY <1>3, <1>4, <1>5, <3>1 DEF Promise
    <3> QED
      BY <1>6, <1>7, <3>2
  <2>2. CASE ~c.substCallout
    <3>1. /\ j = d /\ a = d /\ Known(c, log, d + 1) = d + 1
          /\ Accepted(c, log, d + 1) = d + 1
      BY <1>3, <1>4, <2>2 DEF Known, Accepted
    <3>2. r = 0 /\ u = 0 /\ (d + 1) - (d + 1) = 0
      BY <1>3, <1>4, <3>1
    <3>3. Promise(c, log, p + Width, d + 1) = Size(c, k, a + 1, r, u)
      BY <1>5, <3>1, <3>2 DEF Promise
    <3> QED
      BY <1>6, <1>7, <2>2, <3>3, SizeTypes
  <2> QED
    BY <2>1, <2>2
<1>9. Beyond(p + Width, d + 1)
  BY <1>1 DEF Beyond
<1> QED
  BY <1>6, <1>7, <1>8, <1>9

LEMMA PromiseGrows ==
  ASSUME NEW c \in InputType, NEW log, NEW p \in Nat, NEW d \in Nat, Beyond(p, d),
         Counted(c, log, d), NEW n \in Nat
  PROVE  Promise(c, log, p + n, d) = Promise(c, log, p, d) + Room(c, n)
<1>1. d * Width \in Nat
  BY SizeTypes, Times
<1>2. PICK k \in Nat : p - d * Width = k /\ (p + n) - d * Width = k + n
  <2>1. p - d * Width \in Nat /\ (p + n) - d * Width = (p - d * Width) + n
    BY <1>1 DEF Beyond
  <2> QED
    BY <2>1
<1>3. PICK j \in Nat, u \in Nat : j = Known(c, log, d) /\ u = d - j
  BY DEF Known, Counted
<1>4. PICK a \in Nat, r \in Nat : a = Accepted(c, log, j) /\ r = j - a
  BY AcceptedSteps
<1>5. /\ Promise(c, log, p, d) = Size(c, k, a, r, u)
      /\ Promise(c, log, p + n, d) = Size(c, k + n, a, r, u)
  BY <1>2, <1>3, <1>4 DEF Promise
<1> QED
  BY <1>5, SizeGrows

(* One log is a longer version of another. *)
Extends(longer, log) ==
  /\ Len(log) \in Nat /\ Len(longer) = Len(log) + 1
  /\ \A i \in 1..Len(log) : longer[i] = log[i]

LEMMA AcceptedAlike ==
  ASSUME NEW c, NEW log, NEW longer, Extends(longer, log), NEW j \in 0..Len(log)
  PROVE  Accepted(c, longer, j) = Accepted(c, log, j)
<1>1. j \in Nat /\ \A i \in 1..j : longer[i] = log[i]
  BY DEF Extends
<1> QED
  BY <1>1, PassedAlike DEF Accepted

LEMMA WrittenAlike ==
  ASSUME NEW c, NEW log, NEW longer, Extends(longer, log), NEW p, NEW j \in 0..Len(log)
  PROVE  Written(c, longer, p, j) = Written(c, log, p, j)
BY AcceptedAlike DEF Written

LEMMA PromiseIsWritten ==
  ASSUME NEW c, NEW log, NEW p, NEW d \in Nat, c.substCallout => Len(log) = d
  PROVE  Promise(c, log, p, d) = Written(c, log, p, d)
<1>1. Known(c, log, d) = d /\ d - d = 0
  BY DEF Known
<1> QED
  BY <1>1 DEF Promise, Written

(* What is promised once one more callout has answered. *)
LEMMA PromiseAnswered ==
  ASSUME NEW c \in InputType, NEW log, NEW longer, Extends(longer, log), c.substCallout,
         NEW p \in Nat, NEW d \in Nat, Len(log) <= d, Beyond(p, d)
  PROVE  /\ Promise(c, longer, p + Width, d + 1) =
              Promise(c, log, p, d) +
                IF Replaced(c, longer, Len(longer)) THEN Insertion(c) ELSE Room(c, Width)
         /\ Len(log) < d => Promise(c, longer, p, d) <= Promise(c, log, p, d)
<1>1. Width \in Nat /\ d * Width \in Nat /\ (d + 1) * Width = d * Width + Width
  BY SizeTypes, Times
<1>2. PICK k \in Nat : p - d * Width = k /\ (p + Width) - (d + 1) * Width = k
  <2>1. p - d * Width \in Nat /\ (p + Width) - (d + 1) * Width = p - d * Width
    BY <1>1 DEF Beyond
  <2> QED
    BY <2>1
<1>3. PICK j \in Nat, u \in Nat : j = Len(log) /\ u = d - j
  BY DEF Extends
<1>4. PICK a \in Nat, r \in Nat : a = Accepted(c, log, j) /\ r = j - a
  BY AcceptedSteps
<1>5. /\ Known(c, log, d) = j
      /\ Known(c, longer, d) = j + 1 /\ Known(c, longer, d + 1) = j + 1
      /\ (d + 1) - (j + 1) = u /\ Len(longer) = j + 1
  BY <1>3 DEF Known, Extends
<1>6. Promise(c, log, p, d) = Size(c, k, a, r, u)
  BY <1>2, <1>3, <1>4, <1>5 DEF Promise
<1> DEFINE a1 == Accepted(c, longer, j + 1)
<1>7. IF Replaced(c, longer, j + 1) THEN a1 = a + 1 /\ (j + 1) - a1 = r
      ELSE a1 = a /\ (j + 1) - a1 = r + 1
  <2>1. Accepted(c, longer, j) = a
    <3>1. j \in 0..Len(log)
      BY <1>3
    <3> QED
      BY <1>4, <3>1, AcceptedAlike
  <2>2. a1 = IF Replaced(c, longer, j + 1) THEN a + 1 ELSE a
    BY <2>1, AcceptedSteps
  <2> HIDE DEF a1
  <2> QED
    BY <1>4, <2>2
<1>8. Promise(c, longer, p + Width, d + 1) = Size(c, k, a1, (j + 1) - a1, u)
  BY <1>2, <1>5 DEF Promise
<1>9. Promise(c, longer, p, d) = Size(c, k, a1, (j + 1) - a1, d - (j + 1))
  BY <1>2, <1>5 DEF Promise
<1> HIDE DEF a1
<1>10. Size(c, k, a + 1, r, u) = Size(c, k, a, r, u) + Insertion(c)
  BY SizeSteps
<1>11. Size(c, k, a, r + 1, u) = Size(c, k, a, r, u) + Room(c, Width)
  BY SizeSteps
<1>12. ASSUME j < d
       PROVE  Promise(c, longer, p, d) <= Promise(c, log, p, d)
  <2>1. PICK v \in Nat : u = v + 1 /\ d - (j + 1) = v
    <3>1. d - (j + 1) \in Nat /\ u = (d - (j + 1)) + 1
      BY <1>3, <1>12
    <3> QED
      BY <3>1
  <2>2. Size(c, k, a, r, v + 1) = Size(c, k, a, r, v) + Worst(c)
    BY SizeSteps
  <2>3. Size(c, k, a + 1, r, v) = Size(c, k, a, r, v) + Insertion(c)
    BY SizeSteps
  <2>4. Size(c, k, a, r + 1, v) = Size(c, k, a, r, v) + Room(c, Width)
    BY SizeSteps
  <2>5. Size(c, k, a, r, v) \in Nat
    BY SizeSteps
  <2>6. Insertion(c) \in Nat /\ Worst(c) \in Nat /\ Room(c, Width) \in Nat
        /\ Insertion(c) <= Worst(c) /\ Room(c, Width) <= Worst(c)
    <3>1. Room(c, Width) \in Nat /\ Room(c, Width) <= Width
      BY SizeTypes
    <3>2. Width <= Worst(c)
      BY SizeTypes
    <3>3. Insertion(c) \in Nat /\ Worst(c) \in Nat /\ Insertion(c) <= Worst(c)
      BY SizeTypes
    <3> QED
      BY <1>1, <3>1, <3>2, <3>3
  <2> QED
    BY <1>6, <1>7, <1>9, <2>1, <2>2, <2>3, <2>4, <2>5, <2>6
<1> QED
  BY <1>3, <1>5, <1>6, <1>7, <1>8, <1>10, <1>11, <1>12

(* What is promised after m matches of which j are decided. *)
LEMMA PromiseAfter ==
  ASSUME NEW c \in InputType, NEW log, NEW j \in Nat, NEW m \in Nat,
         c.substCallout => Len(log) = j,
         NEW e, NEW k \in Nat, k = e - m * Width,
         NEW a \in Nat, NEW r \in Nat, NEW u \in Nat,
         a = Accepted(c, log, j), r = j - a, u = m - j
  PROVE  Promise(c, log, e, m) = Size(c, k, a, r, u)
<1>1. CASE c.substCallout
  BY <1>1 DEF Promise, Known
<1>2. CASE ~c.substCallout
  <2>1. Known(c, log, m) = m /\ Accepted(c, log, m) = m /\ a = j /\ r = 0 /\ m - m = 0
    BY <1>2 DEF Known, Accepted
  <2>2. Promise(c, log, e, m) = Size(c, k, m, 0, 0)
    BY <2>1 DEF Promise
  <2>3. m * Insertion(c) = j * Insertion(c) + u * Insertion(c)
    <3>1. Insertion(c) \in Nat /\ m = j + u
      BY SizeTypes
    <3> HIDE DEF Insertion
    <3> QED
      BY <3>1
  <2>4. Worst(c) = Insertion(c) /\ 0 * Insertion(c) = 0
    BY <1>2, SizeTypes, Times
  <2>5. /\ j * Insertion(c) \in Nat /\ u * Insertion(c) \in Nat
        /\ Room(c, k) \in Nat /\ Room(c, 0 * Width) \in Nat
    <3>1. 0 * Width = 0
      BY SizeTypes
    <3>2. Room(c, k) \in Nat /\ Room(c, 0 * Width) \in Nat
      BY <3>1, SizeTypes
    <3>3. j * Insertion(c) \in Nat /\ u * Insertion(c) \in Nat
      BY SizeTypes, Times
    <3> QED
      BY <3>2, <3>3
  <2>6. Size(c, k, m, 0, 0) = Size(c, k, j, 0, u)
    BY <2>3, <2>4, <2>5 DEF Size
  <2> QED
    BY <2>1, <2>2, <2>6
<1> QED
  BY <1>1, <1>2

LEMMA MatchesApart ==
  ASSUME NEW j \in Nat, NEW m \in Nat, j <= m
  PROVE  /\ Width \in Nat /\ j * Width \in Nat /\ m * Width \in Nat
         /\ (m - j) * Width = m * Width - j * Width
<1>1. Width \in Nat
  BY SubstituteAssumption
<1>2. j * Width \in Nat /\ m * Width \in Nat
  BY <1>1, Times
<1>3. (m - j) * Width = m * Width - j * Width
  BY <1>1, TimesMonotone
<1> QED
  BY <1>1, <1>2, <1>3

(* There is room for n matches from p to e. *)
Reaches(p, n, e) == p + n * Width <= e

(* What is promised after m matches covers what is written after j of      *)
(* them, and the next replacement too, when the search can go on from p to *)
(* m matches before e.                                                     *)
LEMMA PromiseCovers ==
  ASSUME NEW c \in InputType, NEW log, NEW j \in Nat, NEW m \in Nat, j <= m,
         c.substCallout => Len(log) = j,
         NEW p \in Nat, NEW e \in Nat, Beyond(p, j), Reaches(p, m - j, e)
  PROVE  /\ Written(c, log, p, j) <= Promise(c, log, e, m)
         /\ j < m => Written(c, log, p, j) + Insertion(c) <= Promise(c, log, e, m)
<1>1. /\ Width \in Nat /\ j * Width \in Nat /\ m * Width \in Nat
      /\ (m - j) * Width = m * Width - j * Width
  BY MatchesApart
<1>2. PICK k \in Nat, k2 \in Nat : k = p - j * Width /\ k2 = e - m * Width /\ k <= k2
  <2>1. p - j * Width \in Nat /\ e - m * Width \in Nat /\ p - j * Width <= e - m * Width
    BY <1>1 DEF Beyond, Reaches
  <2> QED
    BY <2>1
<1>3. PICK a \in Nat, r \in Nat : a = Accepted(c, log, j) /\ r = j - a
  BY AcceptedSteps
<1>4. PICK u \in Nat : u = m - j
  OBVIOUS
<1>5. Written(c, log, p, j) = Size(c, k, a, r, 0)
  BY <1>2, <1>3 DEF Written
<1>6. Promise(c, log, e, m) = Size(c, k2, a, r, u)
  BY <1>2, <1>3, <1>4, PromiseAfter
<1>7. 0 \in Nat /\ 0 <= u /\ (j < m => 0 < u)
  BY <1>4
<1>8. Size(c, k, a, r, 0) <= Size(c, k2, a, r, u)
  BY <1>2, <1>7, SizeMonotone
<1>9. 0 < u => Size(c, k, a, r, 0) + Worst(c) <= Size(c, k2, a, r, u)
  BY <1>2, <1>7, SizeMonotone
<1>10. Size(c, k, a, r, 0) \in Nat
  BY <1>7, SizeSteps
<1>11. Size(c, k2, a, r, u) \in Nat
  BY SizeSteps
<1>12. Insertion(c) \in Nat /\ Worst(c) \in Nat /\ Insertion(c) <= Worst(c)
  BY SizeTypes
<1> QED
  BY <1>5, <1>6, <1>7, <1>8, <1>9, <1>10, <1>11, <1>12

(* It also covers the end of a subject in which the search has stopped     *)
(* after j of the m matches, when undecided matches take a match's room.   *)
LEMMA PromiseCoversLeft ==
  ASSUME NEW c \in InputType, NEW log, NEW j \in Nat, NEW m \in Nat, j <= m,
         c.substCallout => Len(log) = j, c.replacementOnly \/ Width <= Worst(c),
         NEW e \in Nat, Beyond(e, m)
  PROVE  Written(c, log, e, j) <= Promise(c, log, e, m)
<1>1. /\ Width \in Nat /\ j * Width \in Nat /\ m * Width \in Nat
      /\ (m - j) * Width = m * Width - j * Width
  BY MatchesApart
<1>2. PICK k \in Nat, u \in Nat : k = e - m * Width /\ u = m - j
  <2>1. e - m * Width \in Nat /\ m - j \in Nat
    BY <1>1 DEF Beyond
  <2> QED
    BY <2>1
<1>3. e - j * Width = k + u * Width
  BY <1>1, <1>2
<1>4. PICK a \in Nat, r \in Nat : a = Accepted(c, log, j) /\ r = j - a
  BY AcceptedSteps
<1>5. Written(c, log, e, j) = Size(c, k + u * Width, a, r, 0)
  BY <1>3, <1>4 DEF Written
<1>6. Size(c, k + u * Width, a, r, 0) <= Size(c, k, a, r, u)
  BY SizeOfLeft
<1>7. Promise(c, log, e, m) = Size(c, k, a, r, u)
  BY <1>2, <1>4, PromiseAfter
<1> QED
  BY <1>5, <1>6, <1>7

-----------------------------------------------------------------------------
(* The answers of the callouts and the matches they leave.                 *)

(* Where a search goes on that has had k answers of the match callout.     *)
After(c, log, k) ==
  IF k = 0 THEN c.start
  ELSE log[k][1] + (IF log[k][2] = "Pass" THEN Width ELSE 1)

(* A match that has been looked at is one of the subject, the matches that *)
(* pass come one after the other, the replay of the substitution callout   *)
(* gives back its answers, and a pass searches once or for all matches.    *)
AnswersReplayed ==
  input.substCallout =>
    \A i \in 1..Len(substLog) :
      substQueue.results[i] = IntToByte(HandlerResult(substLog[i][2]))

MatchesFit == \A i \in 1..Len(matchLog) : matchLog[i][1] + Width <= input.length

MatchesFollow(c, log) ==
  \A k \in 0..Len(log) :
    Reaches(After(c, log, k), Passed(log, Len(log)) - Passed(log, k), After(c, log, Len(log)))

GlobalKept == pc \in Searching => global = input.global

AnswersInv == AnswersReplayed /\ MatchesFit /\ MatchesFollow(input, matchLog) /\ GlobalKept

LEMMA MatchesFollowOn ==
  ASSUME NEW c, NEW log \in AnswerLogs, NEW longer, Extends(longer, log), c.start \in Nat,
         MatchesFollow(c, log),
         longer[Len(longer)][1] = After(c, log, Len(log))
  PROVE  MatchesFollow(c, longer)
<1> DEFINE n == Len(log)
           passes == IF longer[n + 1][2] = "Pass" THEN 1 ELSE 0
<1>1. /\ n \in Nat /\ Len(longer) = n + 1 /\ Width \in Nat /\ Width >= 1
      /\ \A i \in 1..n : longer[i] = log[i] /\ log[i][1] \in Nat
  BY LogEntries, SubstituteAssumption DEF Extends
<1>2. \A k \in 0..n : After(c, longer, k) = After(c, log, k) /\ After(c, log, k) \in Nat
  <2> SUFFICES ASSUME NEW k \in 0..n
               PROVE  After(c, longer, k) = After(c, log, k) /\ After(c, log, k) \in Nat
    OBVIOUS
  <2>1. k = 0 \/ k \in 1..n
    BY <1>1
  <2> QED
    BY <1>1, <2>1 DEF After
<1>3. \A k \in 0..n : Passed(longer, k) = Passed(log, k) /\ Passed(log, k) \in Nat
                      /\ Passed(log, n) - Passed(log, k) \in Nat
  <2> SUFFICES ASSUME NEW k \in 0..n
               PROVE  Passed(longer, k) = Passed(log, k) /\ Passed(log, k) \in Nat
                      /\ Passed(log, n) - Passed(log, k) \in Nat
    OBVIOUS
  <2>1. k \in Nat /\ \A i \in 1..k : longer[i] = log[i]
    BY <1>1
  <2>2. Passed(longer, k) = Passed(log, k)
    BY <2>1, PassedAlike
  <2>3. /\ Passed(log, k) \in Nat /\ Passed(log, n) \in Nat
        /\ Passed(log, k) <= Passed(log, n)
    <3>1. n \in Nat /\ k <= n
      BY <1>1
    <3> HIDE DEF n
    <3> QED
      BY <2>1, <3>1, PassedMonotone
  <2> HIDE DEF n
  <2> QED
    BY <2>2, <2>3
<1>4. n \in 0..n /\ 0 \in 0..n
  BY <1>1
<1>5. Passed(longer, n + 1) = Passed(log, n) + passes
  <2>1. Passed(longer, n + 1) =
          IF longer[n + 1][2] = "Pass" THEN Passed(longer, n) + 1 ELSE Passed(longer, n)
    BY <1>1, PassedStep
  <2>2. Passed(longer, n) = Passed(log, n) /\ Passed(log, n) \in Nat
    BY <1>3, <1>4
  <2> QED
    BY <2>1, <2>2
<1>6. /\ After(c, longer, n + 1) \in Nat
      /\ After(c, log, n) + passes * Width <= After(c, longer, n + 1)
  <2>1. After(c, longer, n + 1) = After(c, log, n) +
                                    (IF longer[n + 1][2] = "Pass" THEN Width ELSE 1)
    BY <1>1 DEF After
  <2> QED
    BY <1>1, <1>2, <1>4, <2>1
<1> SUFFICES ASSUME NEW k \in 0..(n + 1)
             PROVE  Reaches(After(c, longer, k),
                            Passed(longer, n + 1) - Passed(longer, k),
                            After(c, longer, n + 1))
  BY <1>1 DEF MatchesFollow
<1>7. CASE k = n + 1
  <2>1. Passed(longer, n + 1) - Passed(longer, n + 1) = 0
    BY <1>3, <1>4, <1>5
  <2> QED
    BY <1>1, <1>6, <1>7, <2>1 DEF Reaches
<1>8. CASE k # n + 1
  <2>1. k \in 0..n
    BY <1>1, <1>8
  <2>2. PICK d \in Nat : d = Passed(log, n) - Passed(log, k)
    BY <1>3, <2>1
  <2>3. After(c, log, k) + d * Width <= After(c, log, n)
    BY <2>1, <2>2 DEF MatchesFollow, Reaches
  <2>4. (d + passes) * Width = d * Width + passes * Width /\ d * Width \in Nat
    BY <1>1
  <2>5. Passed(longer, n + 1) - Passed(longer, k) = d + passes
    BY <1>3, <1>4, <1>5, <2>1, <2>2
  <2>6. After(c, log, k) + (d * Width + passes * Width) <= After(c, longer, n + 1)
    <3>1. After(c, log, k) \in Nat /\ After(c, log, n) \in Nat
      BY <1>2, <1>4, <2>1
    <3> QED
      BY <1>1, <1>6, <2>3, <2>4, <3>1
  <2>7. After(c, longer, k) = After(c, log, k)
    BY <1>2, <2>1
  <2> QED
    BY <2>4, <2>5, <2>6, <2>7 DEF Reaches
<1> QED
  BY <1>7, <1>8

(* What a step does that runs a match callout. *)
LEMMA RunMatchFacts ==
  ASSUME Inv, ~input.faulty, RunMatchCallout
  PROVE  \E answer \in Answers :
           /\ Extends(matchLog', matchLog)
           /\ matchLog'[Len(matchLog')][1] = at /\ matchLog'[Len(matchLog')][2] = answer
           /\ matchQueue.replayed = Len(matchLog) /\ matchQueue'.replayed = Len(matchLog')
           /\ at = After(input, matchLog, Len(matchLog))
           /\ AfterMatchCallout(IntToByte(HandlerResult(answer)))
<1> DEFINE n == Len(matchLog)
<1>1. PICK answer \in Answers :
        /\ matchLog' = Append(matchLog, <<at, answer>>)
        /\ matchQueue' = TryEnqueue(matchQueue, IntToByte(HandlerResult(answer)), TRUE)
        /\ AfterMatchCallout(IntToByte(HandlerResult(answer)))
  BY SubstituteAssumption DEF RunMatchCallout, QueueGrowth
<1>2. /\ pc = "match" /\ input.matchCallout /\ ~CanDequeue(matchQueue)
      /\ UNCHANGED <<input, substLog, substQueue>>
  BY DEF RunMatchCallout, CanMatch, driver
<1>3. TypeOK /\ ReplayInv
  BY DEF Inv
<1>4. n \in Nat /\ matchQueue.replayed \in Nat
  BY <1>3, LogEntries DEF TypeOK, ReplayQueues
<1>5. /\ Len(matchLog') = n + 1 /\ matchQueue'.replayed = n + 1
      /\ \A i \in 1..n : matchLog'[i] = matchLog[i]
      /\ matchLog'[n + 1][1] = at /\ matchLog'[n + 1][2] = answer
  BY <1>1, <1>2, <1>3, MatchLogGrows
<1>6. matchQueue.replayed = n /\ at = TriedAt(n)
  <2>1. Len(matchQueue.results) = n /\ ~(matchQueue.replayed < Len(matchQueue.results))
    BY <1>2, <1>3 DEF ReplayInv, MatchLogInv, CanDequeue
  <2>2. matchQueue.replayed <= n /\ at = TriedAt(matchQueue.replayed)
    BY <1>2, <1>3 DEF ReplayInv, MatchCursor, Searching
  <2>3. matchQueue.replayed = n
    BY <1>4, <2>1, <2>2
  <2> QED
    BY <2>2, <2>3
<1>7. at = After(input, matchLog, n)
  BY <1>6 DEF TriedAt, After
<1>8. Extends(matchLog', matchLog)
  BY <1>4, <1>5 DEF Extends
<1> QED
  BY <1>1, <1>5, <1>6, <1>7, <1>8

(* What a step does that runs a substitution callout. *)
LEMMA RunSubstFacts ==
  ASSUME Inv, ~input.faulty, RunSubstCallout
  PROVE  \E answer \in Answers :
           /\ Extends(substLog', substLog)
           /\ substLog'[Len(substLog')][1] = at /\ substLog'[Len(substLog')][2] = answer
           /\ substQueue.replayed = Len(substLog) /\ substQueue'.replayed = Len(substLog')
           /\ \A i \in 1..Len(substLog) : substQueue'.results[i] = substQueue.results[i]
           /\ substQueue'.results[Len(substLog')] = IntToByte(HandlerResult(answer))
           /\ AfterSubstCallout(IntToByte(HandlerResult(answer)))
<1> DEFINE m == Len(substLog)
<1>1. PICK answer \in Answers :
        /\ substLog' = Append(substLog, <<at, answer>>)
        /\ substQueue' = TryEnqueue(substQueue, IntToByte(HandlerResult(answer)), TRUE)
        /\ AfterSubstCallout(IntToByte(HandlerResult(answer)))
  BY SubstituteAssumption DEF RunSubstCallout, QueueGrowth
<1>2. /\ pc = "callout" /\ input.substCallout /\ ~buf.overflowed /\ ~CanDequeue(substQueue)
  BY DEF RunSubstCallout
<1>3. TypeOK /\ ReplayInv
  BY DEF Inv
<1>4. /\ m \in Nat /\ substQueue.replayed \in Nat /\ substQueue \in ReplayQueues
      /\ substLog \in AnswerLogs /\ at \in Nat /\ substQueue.results \in Seq(Byte)
  BY <1>3, LogEntries DEF TypeOK, ReplayQueues
<1>5. Len(substQueue.results) = m /\ substQueue.replayed = m
  <2>1. Len(substQueue.results) = m /\ ~(substQueue.replayed < Len(substQueue.results))
    BY <1>2, <1>3 DEF ReplayInv, SubstLogInv, CanDequeue
  <2>2. substQueue.replayed <= m
    BY <1>2, <1>3 DEF ReplayInv, SubstCursor, Searching
  <2> QED
    BY <1>4, <2>1, <2>2
<1> DEFINE longer == Append(substLog, <<at, answer>>)
<1>6. /\ Len(longer) = m + 1 /\ longer[m + 1] = <<at, answer>>
      /\ \A i \in 1..m : longer[i] = substLog[i]
  BY <1>4, AppendedLog
<1>7. substLog' = longer
  BY <1>1
<1> HIDE DEF longer
<1>8. /\ Extends(substLog', substLog) /\ Len(substLog') = m + 1
      /\ substLog'[m + 1][1] = at /\ substLog'[m + 1][2] = answer
  BY <1>4, <1>6, <1>7 DEF Extends
<1> DEFINE byte == IntToByte(HandlerResult(answer))
           results == substQueue.results
<1>9. substQueue'.results = Append(results, byte) /\ substQueue'.replayed = m + 1
  BY <1>1, <1>4, <1>5, AnswerBytes, EnqueueType
<1>10. byte \in Byte /\ results \in Seq(Byte) /\ Len(results) = m
  BY <1>4, <1>5, AnswerBytes
<1> HIDE DEF byte, results
<1>11. /\ \A i \in 1..m : Append(results, byte)[i] = results[i]
       /\ Append(results, byte)[m + 1] = byte
  BY <1>10, AppendProperties
<1> QED
  BY <1>1, <1>5, <1>8, <1>9, <1>11 DEF byte, results

(* The logs grow only when a callout is run. *)
LEMMA LogsFrame ==
  ASSUME Inv, [Next]_vars
  PROVE  /\ input' = input
         /\ matchLog' = matchLog \/ RunMatchCallout
         /\ \/ substLog' = substLog /\ substQueue'.results = substQueue.results
            \/ RunSubstCallout
<1>1. TypeOK /\ matchQueue \in ReplayQueues /\ substQueue \in ReplayQueues
  BY DEF Inv, TypeOK
<1>2. CASE CallSubstitute
  <2>1. StartReplay(substQueue).results = substQueue.results
    BY <1>1 DEF StartReplay, ReplayQueues
  <2> QED
    BY <1>2, <2>1 DEF CallSubstitute, history
<1>3. CASE DriverStep
  BY <1>1, <1>3, DriverStepFrame
<1>4. CASE Tried
  BY <1>4 DEF Tried, MatchWithoutCallout, ReplayMatchCallout, RunMatchCallout, driver,
              queues, history
<1>5. CASE NoMatch \/ SearchFails \/ Cased \/ FinishPass
  BY <1>5 DEF NoMatch, SearchFails, Cased, SkipForceCase, GuessCase, RunCaseCallout,
              FinishPass, driver, queues, history
<1>6. CASE Answered
  <2>1. Dequeue(substQueue).results = substQueue.results
    BY <1>1 DEF Dequeue, ReplayQueues
  <2> QED
    BY <1>6, <2>1 DEF Answered, SkipSubstCallout, AssumeWorstCase, ReplaySubstCallout,
                      RunSubstCallout, AfterSubstCallout, NextMatch, driver, queues
<1>7. CASE UNCHANGED vars
  BY <1>7 DEF vars
<1> QED
  BY <1>2, <1>3, <1>4, <1>5, <1>6, <1>7
    DEF Next, DriverStep, Tried, Cased, Answered, Done

LEMMA GlobalStep ==
  ASSUME Inv, GlobalKept, [Next]_vars
  PROVE  GlobalKept'
<1>1. input' = input
  BY LogsFrame
<1>2. CASE CallSubstitute
  BY <1>1, <1>2 DEF CallSubstitute, GlobalKept
<1>3. CASE DriverStep
  BY <1>3, DriverStepFrame DEF Inv, GlobalKept, Searching
<1>4. CASE Tried
  BY <1>1, <1>4 DEF Tried, MatchWithoutCallout, ReplayMatchCallout, RunMatchCallout, CanMatch,
                    GlobalKept, Searching
<1>5. CASE NoMatch \/ SearchFails \/ Cased \/ FinishPass
  BY <1>1, <1>5 DEF NoMatch, SearchFails, Cased, SkipForceCase, GuessCase, RunCaseCallout,
                    FinishPass, engine, GlobalKept, Searching
<1>6. CASE Answered
  <2>1. pc = "callout" /\ (pc' = "tail" \/ (pc' = "match" /\ global' = global))
    <3>1. global \in BOOLEAN
      BY DEF Inv, TypeOK
    <3>2. CASE SkipSubstCallout \/ AssumeWorstCase
      BY <3>1, <3>2 DEF SkipSubstCallout, AssumeWorstCase, NextMatch
    <3>3. CASE ReplaySubstCallout \/ RunSubstCallout
      <4>1. PICK result : AfterSubstCallout(result)
        BY <3>3 DEF ReplaySubstCallout, RunSubstCallout
      <4>2. global' = (global /\ result >= 0) /\ pc' = IF global' THEN "match" ELSE "tail"
        BY <4>1 DEF AfterSubstCallout, NextMatch
      <4>3. pc = "callout"
        BY <3>3 DEF ReplaySubstCallout, RunSubstCallout
      <4> HIDE DEF AfterSubstCallout
      <4> QED
        BY <3>1, <4>2, <4>3, Zenon
    <3> QED
      BY <1>6, <3>2, <3>3 DEF Answered
  <2> QED
    BY <1>1, <2>1 DEF GlobalKept, Searching
<1>7. CASE UNCHANGED vars
  BY <1>7 DEF vars, GlobalKept
<1> QED
  BY <1>2, <1>3, <1>4, <1>5, <1>6, <1>7
    DEF Next, DriverStep, Tried, Cased, Answered, Done

LEMMA AnswersStep ==
  ASSUME Inv, ~input.faulty, AnswersInv, [Next]_vars
  PROVE  AnswersInv'
<1>1. input' = input
  BY LogsFrame
<1>2. input.start \in Nat /\ input.length \in Nat
  BY InputIsTyped DEF Inv
<1>3. AnswersReplayed'
  <2>1. CASE substLog' = substLog /\ substQueue'.results = substQueue.results
    BY <1>1, <2>1 DEF AnswersInv, AnswersReplayed
  <2>2. CASE RunSubstCallout
    <3> DEFINE m == Len(substLog)
    <3>1. PICK answer \in Answers :
            /\ Extends(substLog', substLog) /\ substLog'[Len(substLog')][2] = answer
            /\ \A i \in 1..m : substQueue'.results[i] = substQueue.results[i]
            /\ substQueue'.results[Len(substLog')] = IntToByte(HandlerResult(answer))
      BY <2>2, RunSubstFacts
    <3>2. /\ m \in Nat /\ Len(substLog') = m + 1
          /\ \A i \in 1..m : substLog'[i] = substLog[i]
      BY <3>1 DEF Extends
    <3> SUFFICES ASSUME NEW i \in 1..(m + 1), input.substCallout
                 PROVE  substQueue'.results[i] = IntToByte(HandlerResult(substLog'[i][2]))
      BY <1>1, <3>2 DEF AnswersReplayed
    <3>3. CASE i = m + 1
      BY <3>1, <3>2, <3>3
    <3>4. CASE i # m + 1
      <4>1. i \in 1..m
        BY <3>2, <3>4
      <4> QED
        BY <3>1, <3>2, <4>1 DEF AnswersInv, AnswersReplayed
    <3> QED
      BY <3>3, <3>4
  <2> QED
    BY <2>1, <2>2, LogsFrame
<1>4. MatchesFit' /\ MatchesFollow(input, matchLog)'
  <2>1. CASE matchLog' = matchLog
    BY <1>1, <2>1 DEF AnswersInv, MatchesFit
  <2>2. CASE RunMatchCallout
    <3> DEFINE n == Len(matchLog)
    <3>1. /\ Extends(matchLog', matchLog) /\ matchLog'[Len(matchLog')][1] = at
          /\ at = After(input, matchLog, n)
      BY <2>2, RunMatchFacts
    <3>2. at + Width <= input.length
      BY <2>2 DEF RunMatchCallout, CanMatch
    <3>3. /\ n \in Nat /\ Len(matchLog') = n + 1
          /\ \A i \in 1..n : matchLog'[i] = matchLog[i]
      BY <3>1 DEF Extends
    <3>4. MatchesFit'
      <4> SUFFICES ASSUME NEW i \in 1..(n + 1)
                   PROVE  matchLog'[i][1] + Width <= input.length
        BY <1>1, <3>3 DEF MatchesFit
      <4>1. CASE i = n + 1
        BY <3>1, <3>2, <3>3, <4>1
      <4>2. CASE i # n + 1
        <5>1. i \in 1..n
          BY <3>3, <4>2
        <5> QED
          BY <3>3, <5>1 DEF AnswersInv, MatchesFit
      <4> QED
        BY <4>1, <4>2
    <3>5. MatchesFollow(input, matchLog')
      <4>1. matchLog \in AnswerLogs
        BY DEF Inv, TypeOK
      <4>2. matchLog'[Len(matchLog')][1] = After(input, matchLog, Len(matchLog))
        BY <3>1
      <4> QED
        BY <1>2, <3>1, <4>1, <4>2, MatchesFollowOn DEF AnswersInv
    <3> QED
      BY <1>1, <3>4, <3>5
  <2> QED
    BY <2>1, <2>2, LogsFrame
<1>5. GlobalKept'
  BY GlobalStep DEF AnswersInv
<1> QED
  BY <1>3, <1>4, <1>5 DEF AnswersInv

-----------------------------------------------------------------------------
(* What the steps of a pass do that try a position or answer a callout.    *)

LEMMA TriedFacts ==
  ASSUME Inv, ~input.faulty, Tried
  PROVE  /\ pc = "match" /\ at + Width <= input.length
         /\ UNCHANGED <<driver, pos, global, substQueue, substLog>>
         /\ ~input.matchCallout => Matched /\ UNCHANGED <<matchQueue, matchLog>>
         /\ input.matchCallout =>
              LET k == matchQueue.replayed IN
              /\ k \in 0..Len(matchLog) /\ matchQueue'.replayed = k + 1 /\ k + 1 <= Len(matchLog')
              /\ IF k < Len(matchLog) THEN matchLog' = matchLog
                 ELSE Extends(matchLog', matchLog)
              /\ at = After(input, matchLog, k)
              /\ at = matchLog'[k + 1][1]
              /\ IF matchLog'[k + 1][2] = "Pass" THEN Matched
                 ELSE /\ UNCHANGED <<rc, buf, mark, subs, outputLength>>
                      /\ \/ pc' = "match" /\ at' = at + 1
                         \/ /\ pc' = "tail" /\ at' = at /\ k < Len(matchLog)
                            /\ matchLog[k + 1][2] # "Fail"
<1>1. CASE MatchWithoutCallout
  BY <1>1 DEF MatchWithoutCallout, CanMatch, queues, history
<1>2. CASE ReplayMatchCallout
  <2> DEFINE k == matchQueue.replayed
  <2>1. /\ pc = "match" /\ at + Width <= input.length /\ input.matchCallout
        /\ UNCHANGED <<driver, pos, global, substQueue, substLog, matchLog>>
        /\ matchQueue' = Dequeue(matchQueue) /\ CanDequeue(matchQueue)
        /\ AfterMatchCallout(ByteToInt(Dequeued(matchQueue)))
    BY <1>2 DEF ReplayMatchCallout, CanMatch, history
  <2>2. TypeOK /\ MatchLogInv /\ MatchCursor
    BY DEF Inv, ReplayInv
  <2>3. /\ k \in Nat /\ Len(matchLog) \in Nat /\ matchQueue \in ReplayQueues
        /\ \A i \in 1..Len(matchLog) : matchLog[i][1] \in Nat /\ matchLog[i][2] \in Answers
    BY <2>2, LogEntries DEF TypeOK, ReplayQueues
  <2>4. k < Len(matchLog) /\ k + 1 \in 1..Len(matchLog)
    BY <2>1, <2>2, <2>3 DEF MatchLogInv, CanDequeue
  <2>5. at = TriedAt(k) /\ at = matchLog[k + 1][1]
    <3>1. at = TriedAt(k)
      BY <2>1, <2>2 DEF MatchCursor, Searching
    <3>2. (k + 1) - 1 = k
      BY <2>3
    <3> QED
      BY <2>1, <2>2, <2>4, <3>1, <3>2 DEF MatchLogInv
  <2>6. matchQueue'.replayed = k + 1
    BY <2>1, <2>3 DEF Dequeue, ReplayQueues
  <2> DEFINE answer == matchLog[k + 1][2]
             result == ByteToInt(Dequeued(matchQueue))
  <2>7. /\ answer \in Answers /\ (result = 0 <=> answer = "Pass")
        /\ answer = "Fail" => result = 1
    <3>1. Dequeued(matchQueue) = IntToByte(HandlerResult(answer))
      BY <2>1, <2>2, <2>4 DEF MatchLogInv, Dequeued
    <3>2. answer \in Answers
      BY <2>3, <2>4
    <3> HIDE DEF answer
    <3>3. answer = "Fail" => result = 1
      BY <3>1 DEF IntToByte, ByteToInt, HandlerResult
    <3> QED
      BY <3>1, <3>2, <3>3, AnswerBytes
  <2>8. AfterMatchCallout(result)
    BY <2>1
  <2> HIDE DEF answer, result
  <2>9. IF answer = "Pass" THEN Matched
        ELSE /\ UNCHANGED <<rc, buf, mark, subs, outputLength>>
             /\ \/ pc' = pc /\ at' = at + 1
                \/ pc' = "tail" /\ at' = at /\ answer # "Fail"
    <3> HIDE DEF Matched
    <3> QED
      BY <2>7, <2>8 DEF AfterMatchCallout
  <2> QED
    BY <2>1, <2>3, <2>4, <2>5, <2>6, <2>9 DEF answer, TriedAt, After
<1>3. CASE RunMatchCallout
  <2> DEFINE k == matchQueue.replayed
  <2>1. PICK answer \in Answers :
           /\ Extends(matchLog', matchLog)
           /\ matchLog'[Len(matchLog')][1] = at /\ matchLog'[Len(matchLog')][2] = answer
           /\ k = Len(matchLog) /\ matchQueue'.replayed = Len(matchLog')
           /\ at = After(input, matchLog, Len(matchLog))
           /\ AfterMatchCallout(IntToByte(HandlerResult(answer)))
    BY <1>3, RunMatchFacts
  <2>2. /\ pc = "match" /\ at + Width <= input.length /\ input.matchCallout
        /\ UNCHANGED <<driver, pos, global, substQueue, substLog>>
    BY <1>3 DEF RunMatchCallout, CanMatch
  <2>3. Len(matchLog) \in Nat /\ Len(matchLog') = Len(matchLog) + 1
    BY <2>1 DEF Extends
  <2> DEFINE result == IntToByte(HandlerResult(answer))
  <2>4. result \in Byte /\ (result = 0 <=> answer = "Pass")
    BY AnswerBytes
  <2>5. AfterMatchCallout(result)
    BY <2>1
  <2> HIDE DEF result
  <2>6. IF answer = "Pass" THEN Matched
        ELSE /\ UNCHANGED <<rc, buf, mark, subs, outputLength>>
             /\ pc' = pc /\ at' = at + 1
    BY <2>4, <2>5 DEF AfterMatchCallout, Byte
  <2> QED
    BY <2>1, <2>2, <2>3, <2>6
<1> QED
  BY <1>1, <1>2, <1>3 DEF Tried

(* A substitution callout has answered, in this pass or in an earlier one. *)
SubstAnswered ==
  LET r == substQueue.replayed IN
  /\ r \in 0..Len(substLog) /\ substQueue'.replayed = r + 1 /\ r + 1 <= Len(substLog')
  /\ IF r < Len(substLog) THEN substLog' = substLog
     ELSE Extends(substLog', substLog) /\ (global => pc' = "match")
  /\ substLog'[r + 1][2] \in {"Pass", "Fail"} /\ global => pc' = "match"
  /\ substLog'[r + 1][1] = at
  /\ buf' = IF substLog'[r + 1][2] = "Pass" THEN buf
            ELSE CheckMemCpy(Rewind(buf), Kept(at, at + Width))

LEMMA AnsweredFacts ==
  ASSUME Inv, ~input.faulty, AnswersReplayed, Answered
  PROVE  /\ pc = "callout" /\ pos' = at + Width /\ at' = at + Width
         /\ pc' \in {"match", "tail"} /\ (pc' = "match" => global)
         /\ UNCHANGED <<driver, outputLength, rc, mark, subs, matchQueue, matchLog>>
         /\ ~input.substCallout =>
              buf' = buf /\ (global => pc' = "match") /\ UNCHANGED <<substQueue, substLog>>
         /\ input.substCallout /\ buf.overflowed => AssumeWorstCase
         /\ input.substCallout /\ ~buf.overflowed => SubstAnswered
<1>1. global \in BOOLEAN
  BY DEF Inv, TypeOK
<1>2. CASE SkipSubstCallout
  BY <1>1, <1>2 DEF SkipSubstCallout, NextMatch, queues
<1>3. CASE AssumeWorstCase
  BY <1>1, <1>3 DEF AssumeWorstCase, NextMatch, queues
<1>4. CASE ReplaySubstCallout
  <2> DEFINE r == substQueue.replayed
  <2>1. /\ pc = "callout" /\ input.substCallout /\ ~buf.overflowed /\ CanDequeue(substQueue)
        /\ substQueue' = Dequeue(substQueue)
        /\ AfterSubstCallout(ByteToInt(Dequeued(substQueue)))
        /\ UNCHANGED <<matchQueue, matchLog, substLog>>
    BY <1>4 DEF ReplaySubstCallout
  <2>2. TypeOK /\ ReplayInv
    BY DEF Inv
  <2>3. /\ r \in Nat /\ Len(substLog) \in Nat /\ substQueue \in ReplayQueues
        /\ \A i \in 1..Len(substLog) : substLog[i][1] \in Nat /\ substLog[i][2] \in Answers
    BY <2>2, LogEntries DEF TypeOK, ReplayQueues
  <2>4. r + 1 \in 1..Len(substLog) /\ substLog[r + 1][1] = at
    BY <2>1, <2>2, ReplayedHere
  <2>5. substQueue'.replayed = r + 1
    BY <2>1, <2>3 DEF Dequeue, ReplayQueues
  <2> DEFINE answer == substLog[r + 1][2]
             result == ByteToInt(Dequeued(substQueue))
  <2>6. /\ result \in Int /\ (result = 0 <=> answer = "Pass")
        /\ answer \in {"Pass", "Fail"} => result >= 0
    <3>1. Dequeued(substQueue) = IntToByte(HandlerResult(answer))
      BY <2>1, <2>4 DEF AnswersReplayed, Dequeued
    <3>2. answer \in Answers
      BY <2>3, <2>4
    <3>3. result \in Int
      BY <3>1 DEF ByteToInt, IntToByte
    <3> HIDE DEF answer
    <3>4. answer \in {"Pass", "Fail"} => result >= 0
      BY <3>1 DEF ByteToInt, IntToByte, HandlerResult
    <3> QED
      BY <3>1, <3>2, <3>3, <3>4, AnswerBytes
  <2>7. AfterSubstCallout(result)
    BY <2>1
  <2> HIDE DEF answer, result
  <2>8. /\ pos' = at + Width /\ at' = at + Width
        /\ pc' \in {"match", "tail"} /\ (pc' = "match" => global)
        /\ answer \in {"Pass", "Fail"} /\ global => pc' = "match"
        /\ UNCHANGED <<driver, outputLength, rc, mark, subs>>
        /\ buf' = IF answer = "Pass" THEN buf
                  ELSE CheckMemCpy(Rewind(buf), Kept(at, at + Width))
    BY <1>1, <2>6, <2>7 DEF AfterSubstCallout, NextMatch
  <2> QED
    BY <2>1, <2>3, <2>4, <2>5, <2>8 DEF answer, SubstAnswered
<1>5. CASE RunSubstCallout
  <2> DEFINE r == substQueue.replayed
  <2>1. PICK answer \in Answers :
           /\ Extends(substLog', substLog)
           /\ substLog'[Len(substLog')][1] = at /\ substLog'[Len(substLog')][2] = answer
           /\ r = Len(substLog) /\ substQueue'.replayed = Len(substLog')
           /\ AfterSubstCallout(IntToByte(HandlerResult(answer)))
    BY <1>5, RunSubstFacts
  <2>2. /\ pc = "callout" /\ input.substCallout /\ ~buf.overflowed
        /\ UNCHANGED <<matchQueue, matchLog>>
    BY <1>5 DEF RunSubstCallout
  <2>3. Len(substLog) \in Nat /\ Len(substLog') = Len(substLog) + 1
    BY <2>1 DEF Extends
  <2> DEFINE result == IntToByte(HandlerResult(answer))
  <2>4. result \in Byte /\ (result = 0 <=> answer = "Pass")
    BY AnswerBytes
  <2>5. AfterSubstCallout(result)
    BY <2>1
  <2> HIDE DEF result
  <2>6. /\ pos' = at + Width /\ at' = at + Width
        /\ pc' \in {"match", "tail"} /\ (pc' = "match" <=> global)
        /\ UNCHANGED <<driver, outputLength, rc, mark, subs>>
        /\ buf' = IF answer = "Pass" THEN buf
                  ELSE CheckMemCpy(Rewind(buf), Kept(at, at + Width))
    BY <1>1, <2>4, <2>5 DEF AfterSubstCallout, NextMatch, Byte
  <2> QED
    BY <2>1, <2>2, <2>3, <2>6 DEF SubstAnswered
<1> QED
  BY <1>2, <1>3, <1>4, <1>5 DEF Answered

-----------------------------------------------------------------------------
(* Where a pass is, and how many matches it has found.                     *)

End(c) == IF c.start > c.length THEN c.start ELSE c.length

Place(c, k) == c.start + k * Width

LEMMA Places ==
  ASSUME NEW c \in InputType, NEW k \in Nat
  PROVE  /\ Place(c, k) \in Nat /\ Place(c, k + 1) = Place(c, k) + Width /\ Place(c, 0) = c.start
         /\ c.start \in Nat /\ c.length \in Nat /\ Width \in Nat /\ Width >= 1
         /\ End(c) \in Nat /\ c.start <= End(c) /\ c.length <= End(c)
<1>1. Width \in Nat /\ Width >= 1 /\ c.start \in Nat /\ c.length \in Nat
  BY SubstituteAssumption DEF InputType
<1>2. k * Width \in Nat /\ (k + 1) * Width = k * Width + Width /\ 0 * Width = 0
  BY <1>1, Times
<1> QED
  BY <1>1, <1>2 DEF Place, End

(* Where the search goes on after k matches that are all answered. *)
MatchEnd(c, log, k) == IF k = 0 THEN c.start ELSE log[k][1] + Width

(* The matches whose replacement is settled. *)
Decided == IF pc \in {"case", "callout"} THEN subs - 1 ELSE subs

MatchCount ==
  input.matchCallout =>
    /\ matchQueue.replayed \in 0..Len(matchLog)
    /\ subs = Passed(matchLog, matchQueue.replayed)

SubstCount ==
  input.substCallout /\ ~buf.overflowed =>
    /\ substQueue.replayed = Decided /\ substQueue.replayed \in 0..Len(substLog)
    /\ pos = MatchEnd(input, substLog, substQueue.replayed)

Placed ==
  /\ Decided \in Nat
  /\ pc \in {"case", "callout"} => at + Width <= input.length
  /\ ~input.matchCallout => at = Place(input, Decided)
  /\ Place(input, Decided) <= pos /\ pos <= at /\ at <= End(input)

Once == ~input.global => IF pc = "tail" THEN subs <= 1 ELSE Decided = 0

CountInv == pc \in Working => MatchCount /\ SubstCount /\ Placed /\ Once

LEMMA TriedCount ==
  ASSUME Inv, ~input.faulty, CountInv, Tried, pc' \in Working
  PROVE  CountInv'
<1>1. TypeOK /\ HeapInv /\ input \in InputType
  BY SubstituteAssumption DEF Inv, TypeOK
<1>2. /\ pc = "match" /\ pc \in Working /\ at + Width <= input.length
      /\ UNCHANGED <<driver, pos, global, substQueue, substLog>> /\ input' = input
  BY TriedFacts DEF Working, Searching, driver
<1>3. MatchCount /\ SubstCount /\ Placed /\ Once /\ Decided = subs /\ subs \in Nat
  BY <1>1, <1>2 DEF CountInv, Decided, TypeOK
<1>4. pos \in Nat /\ at \in Nat /\ Width \in Nat /\ Width >= 1
      /\ input.length \in Nat /\ End(input) \in Nat /\ input.length <= End(input)
  BY <1>1, Places DEF TypeOK
<1>5. /\ buf.overflowed => buf'.overflowed
      /\ buf'.overflowed \in BOOLEAN
  BY <1>1, TriedStep DEF PassStep, BufferStep, PassBuffers
<1>6. \/ Matched
      \/ /\ input.matchCallout /\ matchLog'[matchQueue.replayed + 1][2] # "Pass"
         /\ UNCHANGED <<buf, subs>>
         /\ (pc' = "match" /\ at' = at + 1) \/ (pc' = "tail" /\ at' = at)
  BY TriedFacts
<1>7. \/ subs' = subs + 1 /\ at' = at /\ pc' = "case"
      \/ subs' = subs /\ pc' = "match" /\ at' = at + 1 /\ input.matchCallout
      \/ subs' = subs /\ pc' = "tail" /\ at' = at /\ input.matchCallout
  BY <1>6 DEF Matched, Write, Working, Searching
<1>8. Decided' = Decided
  BY <1>3, <1>7 DEF Decided
<1>9. MatchCount'
  <2> SUFFICES ASSUME input.matchCallout
               PROVE  /\ matchQueue'.replayed \in 0..Len(matchLog')
                      /\ subs' = Passed(matchLog', matchQueue'.replayed)
    BY <1>2 DEF MatchCount
  <2> DEFINE k == matchQueue.replayed
  <2>1. /\ k \in 0..Len(matchLog) /\ matchQueue'.replayed = k + 1 /\ k + 1 <= Len(matchLog')
        /\ IF k < Len(matchLog) THEN matchLog' = matchLog
           ELSE Extends(matchLog', matchLog)
        /\ IF matchLog'[k + 1][2] = "Pass" THEN Matched ELSE UNCHANGED subs
    BY TriedFacts
  <2>2. Len(matchLog) \in Nat /\ k \in Nat /\ matchQueue'.replayed \in 0..Len(matchLog')
    <3>1. Len(matchLog) \in Nat
      BY <1>1, LogEntries DEF TypeOK
    <3>2. Len(matchLog') \in Nat
      BY <2>1, <3>1 DEF Extends
    <3> QED
      BY <2>1, <3>1, <3>2
  <2>3. \A i \in 1..k : matchLog'[i] = matchLog[i]
    BY <2>1, <2>2 DEF Extends
  <2>4. Passed(matchLog', k) = Passed(matchLog, k)
    BY <2>2, <2>3, PassedAlike
  <2>5. Passed(matchLog', k + 1) =
          IF matchLog'[k + 1][2] = "Pass" THEN Passed(matchLog', k) + 1 ELSE Passed(matchLog', k)
    BY <2>2, PassedStep
  <2>6. Matched => subs' = subs + 1
    BY DEF Matched
  <2> QED
    BY <1>3, <2>1, <2>2, <2>4, <2>5, <2>6 DEF MatchCount
<1>10. SubstCount'
  BY <1>2, <1>3, <1>5, <1>8 DEF SubstCount
<1>11. Placed'
  BY <1>2, <1>3, <1>4, <1>7, <1>8 DEF Placed
<1>12. Once'
  BY <1>2, <1>3, <1>7, <1>8 DEF Once
<1> QED
  BY <1>9, <1>10, <1>11, <1>12 DEF CountInv

LEMMA AnsweredCount ==
  ASSUME Inv, ~input.faulty, AnswersInv, CountInv, Answered
  PROVE  CountInv'
<1>1. TypeOK /\ HeapInv /\ input \in InputType
  BY SubstituteAssumption DEF Inv, TypeOK
<1>2. /\ pc = "callout" /\ pc \in Working /\ pos' = at + Width /\ at' = at + Width
      /\ pc' \in {"match", "tail"} /\ (pc' = "match" => global)
      /\ UNCHANGED <<subs, matchQueue, matchLog>> /\ input' = input
  BY AnsweredFacts DEF Working, Searching, driver, AnswersInv
<1>3. MatchCount /\ SubstCount /\ Placed /\ Once /\ Decided = subs - 1
  BY <1>1, <1>2 DEF CountInv, Decided
<1>4. pos \in Nat /\ at \in Nat /\ subs \in Nat /\ Width \in Nat /\ Width >= 1
      /\ input.length \in Nat /\ End(input) \in Nat /\ input.length <= End(input)
  BY <1>1, Places DEF TypeOK
<1>5. Decided' = Decided + 1 /\ Decided \in Nat /\ subs = Decided + 1
  BY <1>2, <1>3, <1>4 DEF Decided, Placed
<1>6. MatchCount'
  BY <1>2, <1>3 DEF MatchCount
<1>7. SubstCount'
  <2> SUFFICES ASSUME input.substCallout, ~buf'.overflowed
               PROVE  /\ substQueue'.replayed = Decided'
                      /\ substQueue'.replayed \in 0..Len(substLog')
                      /\ pos' = MatchEnd(input, substLog', substQueue'.replayed)
    BY <1>2 DEF SubstCount
  <2>1. ~buf.overflowed
    BY <1>1, AnsweredStep DEF PassStep, BufferStep
  <2> DEFINE r == substQueue.replayed
  <2>2. /\ r \in 0..Len(substLog) /\ substQueue'.replayed = r + 1 /\ r + 1 <= Len(substLog')
        /\ IF r < Len(substLog) THEN substLog' = substLog ELSE Extends(substLog', substLog)
        /\ substLog'[r + 1][1] = at
    BY <2>1, AnsweredFacts DEF SubstAnswered, AnswersInv
  <2>3. Len(substLog) \in Nat /\ r \in Nat
    <3>1. Len(substLog) \in Nat
      BY <1>1, LogEntries DEF TypeOK
    <3> QED
      BY <2>2, <3>1
  <2>4. Len(substLog') \in Nat
    BY <2>2, <2>3 DEF Extends
  <2> QED
    BY <1>2, <1>3, <1>5, <2>1, <2>2, <2>3, <2>4 DEF SubstCount, MatchEnd
<1>8. Placed'
  <2>1. Place(input, Decided + 1) = Place(input, Decided) + Width /\ Place(input, Decided) \in Nat
    BY <1>1, <1>5, Places
  <2> QED
    BY <1>2, <1>3, <1>4, <1>5, <2>1 DEF Placed
<1>9. Once'
  <2>1. global = input.global
    BY <1>2 DEF AnswersInv, GlobalKept, Searching
  <2> QED
    BY <1>2, <1>3, <1>5, <2>1 DEF Once
<1> QED
  BY <1>6, <1>7, <1>8, <1>9 DEF CountInv

LEMMA CountStep ==
  ASSUME Inv, Plain, AnswersInv, CountInv, [Next]_vars
  PROVE  CountInv'
<1>1. TypeOK /\ HeapInv /\ ExnInv /\ input \in InputType
  BY SubstituteAssumption DEF Inv, TypeOK
<1>2. CASE CallSubstitute
  <2>1. /\ pc' \in {"match", "returned"} /\ subs' = 0 /\ pos' = input.start /\ at' = input.start
        /\ matchQueue' = StartReplay(matchQueue) /\ substQueue' = StartReplay(substQueue)
        /\ UNCHANGED <<input, matchLog, substLog>>
    BY <1>1, <1>2, CallSubstituteInv DEF CallSubstitute, history
  <2>2. matchQueue'.replayed = 0 /\ substQueue'.replayed = 0
    BY <1>1, <2>1 DEF TypeOK, StartReplay, ReplayQueues
  <2> SUFFICES ASSUME pc' = "match"
               PROVE  MatchCount' /\ SubstCount' /\ Placed' /\ Once'
    BY <2>1 DEF CountInv, Working, Searching
  <2>3. Decided' = 0
    BY <2>1 DEF Decided
  <2>4. Len(matchLog) \in Nat /\ Len(substLog) \in Nat
    BY <1>1, LogEntries DEF TypeOK
  <2>5. MatchCount'
    <3>1. Passed(matchLog, 0) = 0
      BY PassedStep
    <3> QED
      BY <2>1, <2>2, <2>4, <3>1 DEF MatchCount
  <2>6. SubstCount'
    BY <2>1, <2>2, <2>3, <2>4 DEF SubstCount, MatchEnd
  <2>7. Placed'
    BY <1>1, <2>1, <2>3, Places DEF Placed
  <2>8. Once'
    BY <2>3 DEF Once
  <2> QED
    BY <2>5, <2>6, <2>7, <2>8
<1>3. CASE DriverStep \/ FinishPass
  <2>1. pc' \notin Working
    BY <1>1, <1>3, DriverStepFrame DEF FinishPass, Working, Searching
  <2> QED
    BY <2>1 DEF CountInv
<1>4. CASE Tried
  BY <1>4, TriedCount DEF Plain, CountInv
<1>5. CASE NoMatch
  <2>1. /\ pc = "match" /\ pc' = "tail" /\ UNCHANGED <<input, queues, matchLog, substLog>>
        /\ UNCHANGED <<buf, pos, at, subs>>
    BY <1>5 DEF NoMatch, driver, engine, history
  <2>2. Decided' = Decided /\ Decided = subs
    BY <2>1 DEF Decided
  <2>3. MatchCount /\ SubstCount /\ Placed /\ Once
    BY <2>1 DEF CountInv, Working, Searching
  <2>4. MatchCount' /\ SubstCount' /\ Placed'
    BY <2>1, <2>2, <2>3 DEF MatchCount, SubstCount, Placed, queues
  <2>5. Once'
    BY <2>1, <2>2, <2>3 DEF Once
  <2> QED
    BY <2>4, <2>5 DEF CountInv
<1>6. CASE Cased
  <2>1. /\ pc = "case" /\ pc' = "callout" /\ UNCHANGED <<input, queues, matchLog, substLog>>
        /\ UNCHANGED <<buf, pos, at, subs>>
    BY <1>6 DEF Cased, SkipForceCase, GuessCase, RunCaseCallout, Plain, driver, engine, history
  <2>2. Decided' = Decided
    BY <2>1 DEF Decided
  <2>3. MatchCount /\ SubstCount /\ Placed /\ Once
    BY <2>1 DEF CountInv, Working, Searching
  <2>4. MatchCount' /\ SubstCount' /\ Placed' /\ Once'
    BY <2>1, <2>2, <2>3 DEF MatchCount, SubstCount, Placed, Once, queues
  <2> QED
    BY <2>4 DEF CountInv
<1>7. CASE Answered
  BY <1>7, AnsweredCount DEF Plain
<1>8. CASE SearchFails
  BY <1>8 DEF SearchFails, Plain
<1>9. CASE UNCHANGED vars
  <2>1. Decided' = Decided /\ pc' = pc
    BY <1>9 DEF vars, Decided
  <2> QED
    BY <1>9, <2>1 DEF vars, CountInv, MatchCount, SubstCount, Placed, Once
<1> QED
  BY <1>2, <1>3, <1>4, <1>5, <1>6, <1>7, <1>8, <1>9
    DEF Next, DriverStep, Tried, Cased, Answered, Done

-----------------------------------------------------------------------------
(* What a pass writes, and what it asks for when its buffer is too small.  *)

Need(b) == IF b.overflowed THEN b.length + b.extra ELSE Len(b.out)

LEMMA CheckMemCpyNeeds ==
  ASSUME NEW b \in PassBuffers, NEW text \in Seq(Tokens), Len(b.out) <= b.length
  PROVE  LET c == CheckMemCpy(b, text) IN
         /\ Need(b) \in Nat /\ Need(c) = Need(b) + Len(text)
         /\ ~b.overflowed => (c.overflowed <=> Len(b.out) + Len(text) > b.length)
         /\ c.overflowed => c.out = b.out
<1> DEFINE left == b.length - Len(b.out)
<1>1. /\ Len(text) \in Nat /\ Len(b.out) \in Nat /\ b.length \in Nat /\ b.extra \in Nat
      /\ b.overflowed \in BOOLEAN /\ b.out \in Seq(Tokens)
  BY LenProperties DEF PassBuffers
<1>2. CASE b.overflowed
  <2> DEFINE c == [b EXCEPT !.extra = b.extra + Len(text)]
  <2>1. CheckMemCpy(b, text) = c
    BY <1>2 DEF CheckMemCpy
  <2>2. c.out = b.out /\ c.length = b.length /\ c.overflowed = b.overflowed
        /\ c.extra = b.extra + Len(text)
    BY DEF PassBuffers
  <2> HIDE DEF c
  <2> QED
    BY <1>1, <1>2, <2>1, <2>2 DEF Need
<1>3. CASE ~b.overflowed /\ left < Len(text)
  <2> DEFINE c == [b EXCEPT !.overflowed = TRUE, !.extra = Len(text) - left]
  <2>1. CheckMemCpy(b, text) = c
    BY <1>3 DEF CheckMemCpy
  <2>2. c.out = b.out /\ c.length = b.length /\ c.overflowed = TRUE
        /\ c.extra = Len(text) - left
    BY DEF PassBuffers
  <2> HIDE DEF c
  <2> QED
    BY <1>1, <1>3, <2>1, <2>2 DEF Need
<1>4. CASE ~b.overflowed /\ ~(left < Len(text))
  <2> DEFINE c == [b EXCEPT !.out = b.out \o text]
  <2>1. CheckMemCpy(b, text) = c
    BY <1>4 DEF CheckMemCpy
  <2>2. Len(b.out \o text) = Len(b.out) + Len(text)
    BY <1>1, ConcatProperties
  <2>3. c.out = b.out \o text /\ c.overflowed = b.overflowed
    BY DEF PassBuffers
  <2> HIDE DEF c
  <2> QED
    BY <1>1, <1>4, <2>1, <2>2, <2>3 DEF Need
<1> QED
  BY <1>2, <1>3, <1>4, <1>1

LEMMA TextLength ==
  ASSUME NEW n \in Int, NEW f, f \in [1..n -> Tokens]
  PROVE  Len(f) = IF n < 0 THEN 0 ELSE n
<1>1. CASE n \in Nat
  <2>1. f \in Seq(Tokens) /\ DOMAIN f = 1..n
    BY <1>1, SeqDef
  <2> QED
    BY <1>1, <2>1, LenProperties
<1>2. CASE n \notin Nat
  <2>1. 1..n = 1..0
    BY <1>2
  <2>2. f \in Seq(Tokens) /\ DOMAIN f = 1..0
    BY <2>1, SeqDef
  <2> QED
    BY <1>2, <2>2, LenProperties
<1> QED
  BY <1>1, <1>2

LEMMA KeptLength ==
  ASSUME NEW p \in Nat, NEW q \in Nat
  PROVE  /\ Kept(p, q) \in Seq(Tokens)
         /\ p <= q => Len(Kept(p, q)) = Room(input, q - p)
         /\ q <= p => Len(Kept(p, q)) = 0
<1>1. \A i \in 1..(q - p) : <<"subject", p + i - 1>> \in Tokens
  BY DEF Tokens
<1>2. SubjectText(p, q) \in [1..(q - p) -> Tokens]
  BY <1>1 DEF SubjectText
<1>3. Len(SubjectText(p, q)) = IF q - p < 0 THEN 0 ELSE q - p
  BY <1>2, TextLength
<1>4. Len(<< >>) = 0
  OBVIOUS
<1>5. p <= q => Len(Kept(p, q)) = Room(input, q - p)
  BY <1>3, <1>4 DEF Kept, Room
<1>6. q <= p => Len(Kept(p, q)) = 0
  BY <1>3, <1>4 DEF Kept
<1> QED
  BY <1>5, <1>6, KeptText

LEMMA InsertedLengths ==
  ASSUME NEW p \in Nat, input \in InputType
  PROVE  /\ Inserted(p, input.replacement) \in Seq(Tokens)
         /\ Len(Inserted(p, input.replacement)) = Insertion(input)
<1>1. input.replacement \in Nat
  BY DEF InputType
<1>2. Inserted(p, input.replacement) \in [1..input.replacement -> Tokens]
  BY <1>1 DEF Inserted, Tokens
<1>3. Len(Inserted(p, input.replacement)) =
        IF input.replacement < 0 THEN 0 ELSE input.replacement
  BY <1>1, <1>2, TextLength
<1>4. Inserted(p, input.replacement) \in Seq(Tokens)
  BY <1>1, InsertedText
<1>5. Len(Inserted(p, input.replacement)) = input.replacement
  BY <1>1, <1>3
<1> QED
  BY <1>4, <1>5 DEF Insertion

-----------------------------------------------------------------------------
(* What the first pass leaves for the second.                              *)

(* The matches that a callout has answered fit with their replacements,    *)
(* and what comes before the last of them fits twice.                      *)
HighMark(c, log, limit) ==
  \A j \in 1..Len(log) : Written(c, log, log[j][1], j - 1) + Insertion(c) <= limit

ReplayMark(c, log, limit) ==
  \A j \in 1..(Len(log) - 1) : 2 * Written(c, log, log[j][1] + Width, j) <= limit

LEMMA HighMarkGrows ==
  ASSUME NEW c, NEW log, NEW longer, Extends(longer, log), NEW limit,
         HighMark(c, log, limit),
         Written(c, log, longer[Len(longer)][1], Len(log)) + Insertion(c) <= limit
  PROVE  HighMark(c, longer, limit)
<1> DEFINE n == Len(log)
<1>1. n \in Nat /\ Len(longer) = n + 1 /\ \A i \in 1..n : longer[i] = log[i]
  BY DEF Extends
<1> SUFFICES ASSUME NEW j \in 1..(n + 1)
             PROVE  Written(c, longer, longer[j][1], j - 1) + Insertion(c) <= limit
  BY <1>1 DEF HighMark
<1>2. j - 1 \in 0..n
  BY <1>1
<1>3. Written(c, longer, longer[j][1], j - 1) = Written(c, log, longer[j][1], j - 1)
  BY <1>2, WrittenAlike
<1>4. CASE j = n + 1
  <2>1. j - 1 = n
    BY <1>1, <1>4
  <2> QED
    BY <1>1, <1>3, <1>4, <2>1
<1>5. CASE j # n + 1
  <2>1. j \in 1..n /\ longer[j] = log[j]
    BY <1>1, <1>5
  <2> QED
    BY <1>3, <2>1 DEF HighMark
<1> QED
  BY <1>4, <1>5

LEMMA ReplayMarkGrows ==
  ASSUME NEW c, NEW log, NEW longer, Extends(longer, log), NEW limit,
         ReplayMark(c, log, limit),
         Len(log) > 0 => 2 * Written(c, log, log[Len(log)][1] + Width, Len(log)) <= limit
  PROVE  ReplayMark(c, longer, limit)
<1> DEFINE n == Len(log)
<1>1. n \in Nat /\ Len(longer) - 1 = n /\ \A i \in 1..n : longer[i] = log[i]
  BY DEF Extends
<1> SUFFICES ASSUME NEW j \in 1..n
             PROVE  2 * Written(c, longer, longer[j][1] + Width, j) <= limit
  BY <1>1 DEF ReplayMark
<1>2. longer[j] = log[j] /\ j \in 0..n
  BY <1>1
<1>3. Written(c, longer, log[j][1] + Width, j) = Written(c, log, log[j][1] + Width, j)
  BY <1>2, WrittenAlike
<1>4. CASE j = n
  BY <1>1, <1>2, <1>3, <1>4
<1>5. CASE j # n
  <2>1. j \in 1..(n - 1)
    BY <1>1, <1>5
  <2> QED
    BY <1>2, <1>3, <2>1 DEF ReplayMark
<1> QED
  BY <1>4, <1>5

(* The search of a pass that finds m matches is over.                      *)
Stops(c, log, m) ==
  \/ (IF c.matchCallout THEN After(c, log, Len(log)) ELSE Place(c, m)) + Width > c.length
  \/ ~c.global /\ m = 1

Outlook(c, mlog, slog, m) ==
  /\ m \in Nat /\ (c.matchCallout => m = Passed(mlog, Len(mlog)))
  /\ Len(slog) <= m /\ Place(c, m) <= End(c) /\ (~c.global => m <= 1)
  /\ Stops(c, mlog, m)

(* A buffer that is large enough when a whole search finds m matches.      *)
Enough(c, mlog, slog, limit, m) ==
  /\ Outlook(c, mlog, slog, m)
  /\ Promise(c, slog, End(c), m) + 1 <= limit /\ HighMark(c, slog, limit)
  /\ c.matchCallout \/ c.substCallout => 2 * c.length <= limit

-----------------------------------------------------------------------------
(* What the steps of a pass write.                                         *)

LEMMA MatchedBuffer ==
  ASSUME Inv, pc = "match", pos <= at, Matched
  PROVE  LET room == Need(buf) + Room(input, at - pos) IN
         /\ Need(buf) \in Nat /\ Room(input, at - pos) \in Nat /\ Insertion(input) \in Nat
         /\ buf'.length = buf.length /\ Need(buf') = room + Insertion(input)
         /\ IF buf'.overflowed
            THEN Len(buf'.out) = mark'.offset /\ room <= buf.length + mark'.extra
            ELSE mark'.offset = room
         /\ ~buf.overflowed /\ room + Insertion(input) <= buf.length => ~buf'.overflowed
         /\ ~buf'.overflowed \/ OverflowLength(calls) => pc' = "case" /\ rc' = rc
         /\ subs' = subs + 1 /\ at' = at
<1> DEFINE before == CheckMemCpy(buf, Kept(pos, at))
           after == CheckMemCpy(before, Inserted(at, input.replacement))
           n == Room(input, at - pos)
<1>1. TypeOK /\ HeapInv /\ pc \in InPass /\ input \in InputType
  BY SubstituteAssumption DEF Inv, TypeOK, InPass, Passes
<1>2. /\ buf \in PassBuffers /\ Len(buf.out) <= buf.length /\ pos \in Nat /\ at \in Nat
      /\ buf.length \in Nat
  BY <1>1, PassTypes
<1>3. /\ Kept(pos, at) \in Seq(Tokens) /\ Len(Kept(pos, at)) = n /\ n \in Nat
  <2>1. at - pos \in Nat
    BY <1>2
  <2> QED
    BY <1>1, <1>2, <2>1, KeptLength, SizeTypes
<1>4. /\ Inserted(at, input.replacement) \in Seq(Tokens)
      /\ Len(Inserted(at, input.replacement)) = Insertion(input) /\ Insertion(input) \in Nat
  BY <1>1, <1>2, InsertedLengths, SizeTypes
<1> HIDE DEF n
<1>5. /\ before \in PassBuffers /\ before.length = buf.length
      /\ Len(before.out) <= before.length
      /\ buf.overflowed => before.overflowed
  BY <1>2, <1>3, CheckMemCpyFits
<1>6. /\ Need(buf) \in Nat /\ Need(before) = Need(buf) + n
      /\ ~buf.overflowed => (before.overflowed <=> Len(buf.out) + n > buf.length)
  BY <1>2, <1>3, CheckMemCpyNeeds
<1> HIDE DEF before
<1>7. after.length = before.length /\ (before.overflowed => after.overflowed)
  BY <1>4, <1>5, CheckMemCpyFits
<1>8. /\ Need(after) = Need(before) + Insertion(input)
      /\ ~before.overflowed =>
           (after.overflowed <=> Len(before.out) + Insertion(input) > before.length)
      /\ after.overflowed => after.out = before.out
  BY <1>4, <1>5, CheckMemCpyNeeds
<1>9. /\ buf' = after /\ mark' = [offset |-> Len(before.out), extra |-> before.extra]
      /\ ~after.overflowed \/ OverflowLength(calls) => pc' = "case" /\ rc' = rc
      /\ subs' = subs + 1 /\ at' = at
  BY DEF Matched, Write, before
<1> HIDE DEF after
<1>10. mark'.offset = Len(before.out) /\ mark'.extra = before.extra
  BY <1>9
<1>11. before.extra \in Nat /\ Len(before.out) \in Nat
  BY <1>5, LenProperties DEF PassBuffers
<1>12. IF after.overflowed
       THEN Len(after.out) = mark'.offset /\ Need(before) <= buf.length + mark'.extra
       ELSE mark'.offset = Need(before)
  BY <1>2, <1>5, <1>7, <1>8, <1>10, <1>11 DEF Need
<1>13. ~buf.overflowed /\ Need(buf) + n + Insertion(input) <= buf.length => ~after.overflowed
  BY <1>2, <1>3, <1>4, <1>5, <1>6, <1>7, <1>8, <1>11 DEF Need
<1> QED
  BY <1>3, <1>4, <1>5, <1>6, <1>7, <1>8, <1>9, <1>12, <1>13 DEF n

LEMMA RejectedBuffer ==
  ASSUME Inv, pc = "callout", ~buf.overflowed
  PROVE  LET b == CheckMemCpy(Rewind(buf), Kept(at, at + Width)) IN
         /\ mark.offset \in Nat /\ Need(buf) \in Nat /\ b.length = buf.length
         /\ Need(b) = mark.offset + Room(input, Width)
         /\ b.overflowed <=> mark.offset + Room(input, Width) > buf.length
<1>1. TypeOK /\ HeapInv /\ pc \in InPass /\ input \in InputType
  BY SubstituteAssumption DEF Inv, TypeOK, InPass, Passes
<1>2. /\ buf \in PassBuffers /\ Len(buf.out) <= buf.length /\ at \in Nat /\ Width \in Nat
      /\ buf.length \in Nat /\ mark.offset \in Nat /\ mark.offset <= Len(buf.out)
      /\ Len(buf.out) \in Nat
  BY <1>1, PassTypes, InputIsTyped
<1>3. /\ Kept(at, at + Width) \in Seq(Tokens)
      /\ Len(Kept(at, at + Width)) = Room(input, Width)
  <2>1. at + Width \in Nat /\ at <= at + Width /\ (at + Width) - at = Width
    BY <1>2
  <2> QED
    BY <1>2, <2>1, KeptLength
<1> DEFINE back == Rewind(buf)
<1>4. /\ back \in PassBuffers /\ back.length = buf.length /\ ~back.overflowed
      /\ Len(back.out) = mark.offset
  BY <1>2, RewindFits
<1> HIDE DEF back
<1> DEFINE text == Kept(at, at + Width)
           b == CheckMemCpy(back, text)
<1>5. text \in Seq(Tokens) /\ Len(text) = Room(input, Width)
  BY <1>3
<1>6. Len(back.out) <= back.length
  BY <1>2, <1>4
<1> HIDE DEF text
<1>7. Need(b) = Need(back) + Len(text) /\ (b.overflowed <=> Len(back.out) + Len(text) > back.length)
  BY <1>4, <1>5, <1>6, CheckMemCpyNeeds
<1>8. b.length = back.length
  BY <1>4, <1>5, CheckMemCpyFits
<1> HIDE DEF b
<1>9. Need(b) = mark.offset + Room(input, Width) /\ b.length = buf.length
      /\ (b.overflowed <=> mark.offset + Room(input, Width) > buf.length)
  BY <1>4, <1>5, <1>7, <1>8 DEF Need
<1>10. Need(buf) \in Nat
  BY <1>2 DEF Need
<1> QED
  BY <1>2, <1>9, <1>10 DEF b, text, back

(* The position of a pass, and the matches that are before it.             *)
LEMMA Positions ==
  ASSUME Inv, CountInv, pc \in Working
  PROVE  /\ MatchCount /\ SubstCount /\ Placed /\ Once
         /\ input \in InputType /\ pos \in Nat /\ at \in Nat /\ subs \in Nat /\ Decided \in Nat
         /\ pos <= at /\ at - pos \in Nat /\ pos + (at - pos) = at
         /\ Beyond(pos, Decided) /\ Beyond(at, Decided)
         /\ input.start <= pos /\ pos <= End(input)
         /\ End(input) \in Nat /\ End(input) - pos \in Nat /\ pos + (End(input) - pos) = End(input)
         /\ Len(substLog) \in Nat /\ Len(matchLog) \in Nat
         /\ Width \in Nat /\ Width >= 1
         /\ pc \in InPass
<1>1. TypeOK /\ input \in InputType
  BY SubstituteAssumption DEF Inv, TypeOK
<1>2. MatchCount /\ SubstCount /\ Placed /\ Once
  BY DEF CountInv
<1>3. pos \in Nat /\ at \in Nat /\ subs \in Nat /\ Len(substLog) \in Nat /\ Len(matchLog) \in Nat
  BY <1>1, LogEntries DEF TypeOK
<1>4. Decided \in Nat /\ pos <= at /\ at <= End(input) /\ Place(input, Decided) <= pos
  BY <1>2 DEF Placed
<1>5. End(input) \in Nat /\ Width \in Nat /\ Width >= 1 /\ input.start \in Nat
  BY <1>1, Places
<1>6. Decided * Width \in Nat
  BY <1>4, <1>5, Times
<1>7. Beyond(pos, Decided) /\ Beyond(at, Decided) /\ input.start <= pos
  BY <1>3, <1>4, <1>5, <1>6 DEF Place, Beyond
<1> QED
  BY <1>1, <1>2, <1>3, <1>4, <1>5, <1>7 DEF Working, Searching, InPass, Passes

-----------------------------------------------------------------------------
(* The first pass.                                                         *)

(* It runs every callout, until its buffer overflows, and asks for what    *)
(* the rest of the output may take at worst.                               *)
FirstRoom ==
  /\ pc \in {"match", "tail"} => Promise(input, substLog, pos, subs) <= Need(buf)
  /\ pc \in {"case", "callout"} =>
       LET before == Promise(input, substLog, at, subs - 1) IN
       /\ before + Insertion(input) <= Need(buf)
       /\ IF buf.overflowed
          THEN Len(buf.out) = mark.offset /\ before <= buf.length + mark.extra
          ELSE before <= mark.offset

FirstAnswers ==
  /\ input.matchCallout => matchQueue.replayed = Len(matchLog)
  /\ input.substCallout => substQueue.replayed = Len(substLog)
  /\ Len(substLog) <= Decided
  /\ HighMark(input, substLog, bufferLength)
  /\ ReplayMark(input, substLog, 2 * bufferLength)

FirstPass ==
  /\ FirstAnswers /\ FirstRoom /\ buf.length = bufferLength
  /\ pc = "tail" => Stops(input, matchLog, subs)

LEMMA FirstTried ==
  ASSUME Inv, ~input.faulty, CountInv, calls = 1, FirstPass, Tried
  PROVE  pc' \in Working /\ FirstPass'
<1>1. /\ pc = "match" /\ pc \in Working
      /\ UNCHANGED <<input, calls, bufferLength, pos, substQueue, substLog>>
  BY TriedFacts DEF driver, Working, Searching
<1>2. /\ pos \in Nat /\ at \in Nat /\ subs \in Nat /\ pos <= at /\ at - pos \in Nat
      /\ pos + (at - pos) = at /\ input \in InputType /\ Len(substLog) \in Nat
      /\ Len(matchLog) \in Nat
  BY <1>1, Positions
<1>3. Decided = subs /\ Beyond(pos, subs)
  <2>1. Decided = subs
    BY <1>1 DEF Decided
  <2> QED
    BY <1>1, <2>1, Positions
<1>4. Len(substLog) <= subs /\ Counted(input, substLog, subs)
  BY <1>2, <1>3 DEF FirstPass, FirstAnswers, Counted
<1> DEFINE d == subs
           before == Promise(input, substLog, pos, d)
<1>5. before \in Nat /\ before <= Need(buf)
  BY <1>1, <1>2, <1>3, <1>4, PromiseSteps DEF FirstPass, FirstRoom
<1>6. input.matchCallout =>
        matchQueue.replayed = Len(matchLog) /\ matchQueue'.replayed = Len(matchLog')
  <2> SUFFICES ASSUME input.matchCallout
               PROVE  /\ matchQueue.replayed = Len(matchLog)
                      /\ matchQueue'.replayed = Len(matchLog')
    OBVIOUS
  <2>1. matchQueue.replayed = Len(matchLog)
    BY DEF FirstPass, FirstAnswers
  <2>2. matchQueue'.replayed = Len(matchLog) + 1 /\ Extends(matchLog', matchLog)
    BY <1>2, <2>1, TriedFacts
  <2> QED
    BY <2>1, <2>2 DEF Extends
<1>7. CASE Matched
  <2> DEFINE n == Room(input, at - pos)
             room == Need(buf) + n
  <2>1. /\ Need(buf) \in Nat /\ n \in Nat /\ Insertion(input) \in Nat
        /\ buf'.length = buf.length /\ Need(buf') = room + Insertion(input)
        /\ IF buf'.overflowed
           THEN Len(buf'.out) = mark'.offset /\ room <= buf.length + mark'.extra
           ELSE mark'.offset = room
        /\ pc' = "case" /\ subs' = d + 1 /\ at' = at
    BY <1>1, <1>2, <1>7, MatchedBuffer DEF OverflowLength
  <2>2. Promise(input, substLog, at, d) = before + n
    BY <1>2, <1>3, <1>4, PromiseGrows
  <2>3. subs' - 1 = d
    BY <1>2, <2>1
  <2>4. Promise(input, substLog, at', subs' - 1) = before + n
    BY <2>1, <2>2, <2>3
  <2> HIDE DEF n, before
  <2>5. mark'.extra \in Nat
    BY <1>1, TriedStep DEF Inv, PassStep
  <2>6. FirstRoom'
    <3>1. before + n <= room /\ before + n + Insertion(input) <= room + Insertion(input)
      BY <1>5, <2>1
    <3>2. before + n \in Nat /\ buf.length \in Nat
      <4>1. buf.length \in Nat
        BY <1>1, Positions, PassTypes DEF Inv
      <4> QED
        BY <1>5, <2>1, <4>1
    <3> HIDE DEF room
    <3> DEFINE promised == before + n
    <3>3. promised + Insertion(input) <= Need(buf')
      BY <2>1, <3>1
    <3>4. IF buf'.overflowed
          THEN Len(buf'.out) = mark'.offset /\ promised <= buf'.length + mark'.extra
          ELSE promised <= mark'.offset
      BY <2>1, <2>5, <3>1, <3>2 DEF room
    <3>5. Promise(input', substLog', at', subs' - 1) = promised
      BY <1>1, <2>4
    <3> HIDE DEF promised
    <3> QED
      BY <1>1, <2>1, <3>3, <3>4, <3>5 DEF FirstRoom
  <2>7. FirstAnswers'
    <3>1. Decided' = d
      BY <2>1, <2>3 DEF Decided
    <3> QED
      BY <1>1, <1>3, <1>6, <3>1 DEF FirstPass, FirstAnswers
  <2> QED
    BY <1>1, <2>1, <2>6, <2>7 DEF FirstPass, Working, Searching
<1>8. CASE ~Matched
  <2>1. /\ UNCHANGED <<buf, subs>> /\ pc' = "match"
    BY <1>2, <1>6, <1>8, TriedFacts
  <2>2. Decided' = d
    BY <2>1 DEF Decided
  <2>3. FirstAnswers'
    BY <1>1, <1>3, <1>6, <2>2 DEF FirstPass, FirstAnswers
  <2>4. FirstRoom'
    BY <1>1, <1>5, <2>1 DEF FirstRoom
  <2> QED
    BY <1>1, <2>1, <2>3, <2>4 DEF FirstPass, Working, Searching
<1> QED
  BY <1>7, <1>8

LEMMA FirstNoMatch ==
  ASSUME Inv, ~input.faulty, CountInv, calls = 1, FirstPass, NoMatch
  PROVE  pc' \in Working /\ FirstPass'
<1>1. /\ pc = "match" /\ pc \in Working /\ pc' = "tail" /\ ~(at + Width <= input.length)
      /\ UNCHANGED <<input, calls, bufferLength, buf, pos, at, subs, queues, matchLog, substLog>>
  BY DEF NoMatch, CanMatch, driver, engine, history, Working, Searching
<1>2. Decided' = Decided /\ Decided = subs
  BY <1>1 DEF Decided
<1>3. FirstAnswers'
  BY <1>1, <1>2 DEF FirstPass, FirstAnswers, queues
<1>4. FirstRoom'
  BY <1>1 DEF FirstPass, FirstRoom
<1>5. Stops(input, matchLog, subs)
  <2>1. /\ MatchCount /\ Placed /\ at \in Nat /\ Width \in Nat /\ input \in InputType
    BY <1>1, Positions
  <2>2. at = IF input.matchCallout THEN After(input, matchLog, Len(matchLog))
             ELSE Place(input, subs)
    <3>1. CASE input.matchCallout
      <4>1. at = TriedAt(matchQueue.replayed) /\ matchQueue.replayed = Len(matchLog)
        BY <1>1, <3>1 DEF Inv, ReplayInv, MatchCursor, Searching, FirstPass, FirstAnswers
      <4> QED
        BY <3>1, <4>1 DEF TriedAt, After
    <3>2. CASE ~input.matchCallout
      BY <1>2, <2>1, <3>2 DEF Placed
    <3> QED
      BY <3>1, <3>2
  <2>3. input.length \in Nat
    BY <2>1 DEF InputType
  <2> QED
    BY <1>1, <2>1, <2>2, <2>3 DEF Stops
<1> QED
  BY <1>1, <1>3, <1>4, <1>5 DEF FirstPass, Working

LEMMA FirstCased ==
  ASSUME Inv, Plain, CountInv, calls = 1, FirstPass, Cased
  PROVE  pc' \in Working /\ FirstPass'
<1>1. /\ pc = "case" /\ pc' = "callout"
      /\ UNCHANGED <<input, bufferLength, buf, mark, pos, at, subs, queues, matchLog, substLog>>
  BY DEF Cased, SkipForceCase, GuessCase, RunCaseCallout, Plain, driver, engine, history
<1>2. Decided' = Decided
  BY <1>1 DEF Decided
<1>3. FirstAnswers'
  BY <1>1, <1>2 DEF FirstPass, FirstAnswers, queues
<1>4. FirstRoom'
  BY <1>1 DEF FirstPass, FirstRoom
<1> QED
  BY <1>1, <1>3, <1>4 DEF FirstPass, Working, Searching

(* The buffer has overflowed: the larger of what accepting and rejecting   *)
(* the replacement need is asked for.                                      *)
LEMMA WorstCaseBuffer ==
  ASSUME Inv, pc = "callout", AssumeWorstCase, Len(buf.out) = mark.offset,
         NEW before \in Nat, before + Insertion(input) <= Need(buf),
         before <= buf.length + mark.extra
  PROVE  buf'.length = buf.length /\ before + Worst(input) <= Need(buf')
<1>1. TypeOK /\ HeapInv /\ pc \in InPass /\ input \in InputType
  BY SubstituteAssumption DEF Inv, TypeOK, InPass, Passes
<1>2. /\ buf \in PassBuffers /\ buf.length \in Nat /\ buf.extra \in Nat
      /\ mark.offset \in Nat /\ mark.extra \in Nat /\ Width \in Nat
  BY <1>1, PassTypes, InputIsTyped
<1> DEFINE spare == Width - InsertedLength(buf)
           extra == IF spare > 0 THEN buf.extra + spare ELSE buf.extra
           b == [buf EXCEPT !.extra = extra]
<1>3. buf' = b /\ buf.overflowed
  BY DEF AssumeWorstCase, NextMatch
<1>4. spare = Width - (buf.extra - mark.extra)
  BY <1>2 DEF InsertedLength
<1> HIDE DEF spare
<1>5. extra \in Nat /\ extra >= buf.extra /\ extra >= mark.extra + Width
  BY <1>2, <1>4
<1> HIDE DEF extra
<1>6. b.length = buf.length /\ b.extra = extra /\ b.overflowed
  BY <1>2, <1>3 DEF PassBuffers
<1> HIDE DEF b
<1>7. Need(buf') = buf.length + extra /\ Need(buf) = buf.length + buf.extra
  BY <1>3, <1>6 DEF Need
<1>8. Insertion(input) \in Nat /\ (Worst(input) = Insertion(input) \/ Worst(input) = Width)
  BY <1>1, SizeTypes DEF Worst
<1> QED
  BY <1>2, <1>3, <1>5, <1>6, <1>7, <1>8

(* A callout of the first pass has answered.                               *)
LEMMA FirstSubstAnswered ==
  ASSUME Inv, CountInv, calls = 1, FirstPass, pc = "callout", input.substCallout,
         ~buf.overflowed, SubstAnswered, UNCHANGED <<input, bufferLength, subs>>
  PROVE  /\ buf'.length = buf.length
         /\ Promise(input, substLog', at + Width, subs) <= Need(buf')
         /\ substQueue'.replayed = Len(substLog') /\ Len(substLog') <= subs
         /\ HighMark(input, substLog', bufferLength)
         /\ ReplayMark(input, substLog', 2 * bufferLength)
         /\ (global => pc' = "match")
<1> DEFINE d == Decided
           longer == substLog'
<1>1. /\ pos \in Nat /\ at \in Nat /\ subs \in Nat /\ d \in Nat /\ pos <= at /\ at - pos \in Nat
      /\ pos + (at - pos) = at /\ input \in InputType /\ Len(substLog) \in Nat /\ SubstCount
      /\ Beyond(pos, d) /\ Beyond(at, d) /\ Width \in Nat
  BY Positions DEF Working, Searching
<1>2. d = subs - 1 /\ subs = d + 1
  BY <1>1 DEF Decided
<1>3. /\ Len(substLog) = d /\ pos = MatchEnd(input, substLog, d)
      /\ Extends(longer, substLog) /\ Len(longer) = d + 1 /\ substQueue'.replayed = d + 1
      /\ longer[d + 1][1] = at /\ (global => pc' = "match")
      /\ buf' = IF longer[d + 1][2] = "Pass" THEN buf
                ELSE CheckMemCpy(Rewind(buf), Kept(at, at + Width))
  <2>1. substQueue.replayed = Len(substLog) /\ substQueue.replayed = d
        /\ pos = MatchEnd(input, substLog, d)
    BY <1>1 DEF FirstPass, FirstAnswers, SubstCount
  <2>2. ~(d < Len(substLog))
    BY <1>1, <2>1
  <2> HIDE DEF d
  <2> QED
    BY <2>1, <2>2 DEF SubstAnswered, Extends
<1> HIDE DEF d, longer
<1> DEFINE before == Promise(input, substLog, at, d)
<1>4. /\ before \in Nat /\ before + Insertion(input) <= Need(buf) /\ before <= mark.offset
  <2>1. Counted(input, substLog, d)
    BY <1>1, <1>3 DEF Counted
  <2>2. before \in Nat
    BY <1>1, <2>1, PromiseSteps
  <2> QED
    BY <1>2, <2>2 DEF FirstPass, FirstRoom
<1>5. Promise(input, longer, at + Width, d + 1) =
        before + IF Replaced(input, longer, d + 1) THEN Insertion(input) ELSE Room(input, Width)
  <2>1. Len(substLog) <= d /\ Len(longer) = d + 1 /\ Extends(longer, substLog)
    BY <1>1, <1>3
  <2>2. Promise(input, longer, at + Width, d + 1) =
          before + IF Replaced(input, longer, Len(longer)) THEN Insertion(input)
                   ELSE Room(input, Width)
    BY <1>1, <2>1, PromiseAnswered
  <2> QED
    BY <2>1, <2>2
<1>6. /\ mark.offset \in Nat /\ Need(buf) \in Nat /\ Insertion(input) \in Nat
      /\ Room(input, Width) \in Nat
      /\ longer[d + 1][2] = "Pass" => buf' = buf
      /\ longer[d + 1][2] # "Pass" =>
           buf'.length = buf.length /\ Need(buf') = mark.offset + Room(input, Width)
  BY <1>1, <1>3, RejectedBuffer, SizeTypes
<1>7. Promise(input, longer, at + Width, d + 1) <= Need(buf') /\ buf'.length = buf.length
  <2> HIDE DEF before
  <2>1. CASE longer[d + 1][2] = "Pass"
    BY <1>4, <1>5, <1>6, <2>1 DEF Replaced
  <2>2. CASE longer[d + 1][2] # "Pass"
    BY <1>4, <1>5, <1>6, <2>2 DEF Replaced
  <2> QED
    BY <2>1, <2>2
<1>8. Written(input, substLog, at, d) = before
  BY <1>1, <1>3, PromiseIsWritten
<1>9. Need(buf) <= bufferLength /\ bufferLength \in Nat
  <2>1. Len(buf.out) <= buf.length /\ buf.length = bufferLength /\ buf.length \in Nat
    BY PassTypes DEF Inv, FirstPass, InPass, Passes
  <2> QED
    BY <2>1 DEF Need
<1>10. HighMark(input, longer, bufferLength)
  <2>1. Written(input, substLog, longer[Len(longer)][1], Len(substLog)) + Insertion(input)
          <= bufferLength
    BY <1>3, <1>4, <1>6, <1>8, <1>9
  <2> QED
    BY <1>3, <2>1, HighMarkGrows DEF FirstPass, FirstAnswers
<1>11. ReplayMark(input, longer, 2 * bufferLength)
  <2>1. Written(input, substLog, pos, d) \in Nat
        /\ Written(input, substLog, at, d) = Written(input, substLog, pos, d) + Room(input, at - pos)
        /\ Room(input, at - pos) \in Nat
    <3>1. Written(input, substLog, pos, d) \in Nat
      BY <1>1, WrittenSteps
    <3>2. Written(input, substLog, pos + (at - pos), d) =
            Written(input, substLog, pos, d) + Room(input, at - pos)
      BY <1>1, WrittenGrows
    <3>3. Room(input, at - pos) \in Nat
      BY <1>1, SizeTypes
    <3> QED
      BY <1>1, <3>1, <3>2, <3>3
  <2> HIDE DEF before
  <2>2. Written(input, substLog, pos, d) <= bufferLength
    BY <1>4, <1>6, <1>8, <1>9, <2>1
  <2>3. d > 0 => pos = substLog[d][1] + Width
    BY <1>3 DEF MatchEnd
  <2>4. Len(substLog) > 0 =>
          2 * Written(input, substLog, substLog[Len(substLog)][1] + Width, Len(substLog))
            <= 2 * bufferLength
    BY <1>3, <1>9, <2>1, <2>2, <2>3
  <2> QED
    BY <1>3, <2>4, ReplayMarkGrows DEF FirstPass, FirstAnswers
<1> QED
  BY <1>2, <1>3, <1>7, <1>10, <1>11 DEF longer

LEMMA FirstAnswered ==
  ASSUME Inv, Plain, AnswersInv, CountInv, calls = 1, FirstPass, Answered
  PROVE  pc' \in Working /\ FirstPass'
<1>1. /\ pc = "callout" /\ pc \in Working /\ pos' = at + Width /\ at' = at + Width
      /\ pc' \in {"match", "tail"}
      /\ UNCHANGED <<input, bufferLength, calls, subs, matchQueue, matchLog>>
  BY AnsweredFacts DEF Working, Searching, driver, AnswersInv, Plain
<1>2. /\ at \in Nat /\ subs \in Nat /\ Decided \in Nat /\ Len(substLog) \in Nat
      /\ Beyond(at, Decided) /\ input \in InputType /\ Width \in Nat /\ Once
  BY <1>1, Positions
<1> DEFINE d == Decided
           before == Promise(input, substLog, at, d)
<1>3. subs = d + 1 /\ d = subs - 1 /\ Decided' = subs
  BY <1>1, <1>2 DEF Decided
<1>4. Len(substLog) <= d /\ Counted(input, substLog, d)
  BY <1>2 DEF FirstPass, FirstAnswers, Counted
<1> HIDE DEF d
<1>5. /\ before \in Nat /\ before + Insertion(input) <= Need(buf)
      /\ IF buf.overflowed
         THEN Len(buf.out) = mark.offset /\ before <= buf.length + mark.extra
         ELSE before <= mark.offset
  <2>1. before \in Nat
    BY <1>2, <1>4, PromiseSteps DEF d
  <2> QED
    BY <1>1, <1>3, <2>1 DEF FirstPass, FirstRoom
<1>6. Promise(input, substLog, at + Width, subs) = before + Worst(input)
  BY <1>2, <1>3, <1>4, PromiseSteps DEF d
<1> HIDE DEF before
<1>7. /\ buf'.length = buf.length
      /\ Promise(input, substLog', at + Width, subs) <= Need(buf')
      /\ input.substCallout => substQueue'.replayed = Len(substLog')
      /\ Len(substLog') <= subs
      /\ HighMark(input, substLog', bufferLength)
      /\ ReplayMark(input, substLog', 2 * bufferLength)
      /\ (global => pc' = "match")
  <2>1. /\ HighMark(input, substLog, bufferLength) /\ ReplayMark(input, substLog, 2 * bufferLength)
        /\ input.substCallout => substQueue.replayed = Len(substLog)
    BY DEF FirstPass, FirstAnswers
  <2>2. CASE ~input.substCallout
    <3>1. buf' = buf /\ (global => pc' = "match") /\ UNCHANGED <<substQueue, substLog>>
      BY <2>2, AnsweredFacts DEF AnswersInv, Plain
    <3>2. Worst(input) = Insertion(input)
      BY <1>2, <2>2, SizeTypes
    <3> QED
      BY <1>2, <1>3, <1>4, <1>5, <1>6, <2>1, <2>2, <3>1, <3>2
  <2>3. CASE input.substCallout /\ buf.overflowed
    <3>1. AssumeWorstCase
      BY <2>3, AnsweredFacts DEF AnswersInv, Plain
    <3>2. UNCHANGED <<substQueue, substLog>> /\ (global => pc' = "match")
      BY <3>1 DEF AssumeWorstCase, NextMatch, queues
    <3>3. buf'.length = buf.length /\ before + Worst(input) <= Need(buf')
      BY <1>1, <1>5, <2>3, <3>1, WorstCaseBuffer
    <3> QED
      BY <1>2, <1>3, <1>4, <1>6, <2>1, <3>2, <3>3
  <2>4. CASE input.substCallout /\ ~buf.overflowed
    <3>1. SubstAnswered
      BY <2>4, AnsweredFacts DEF AnswersInv, Plain
    <3> QED
      BY <1>1, <2>4, <3>1, FirstSubstAnswered
  <2> QED
    BY <2>2, <2>3, <2>4
<1>8. FirstAnswers'
  BY <1>1, <1>3, <1>7 DEF FirstPass, FirstAnswers
<1>9. FirstRoom'
  <2>1. Promise(input', substLog', pos', subs') <= Need(buf')
    BY <1>1, <1>7
  <2> QED
    BY <1>1, <2>1 DEF FirstRoom
<1>10. pc' = "tail" => Stops(input, matchLog, subs)
  <2>1. global = input.global
    BY <1>1 DEF AnswersInv, GlobalKept, Searching
  <2> QED
    BY <1>1, <1>2, <1>3, <1>7, <2>1 DEF Once, Stops, d
<1> QED
  BY <1>1, <1>7, <1>8, <1>9, <1>10 DEF FirstPass, Working, Searching

-----------------------------------------------------------------------------
(* The end of a pass.                                                      *)

LEMMA TailBuffer ==
  ASSUME Inv, pc = "tail", FinishPass, input.start <= pos, pos <= End(input)
  PROVE  LET room == Need(buf) + Room(input, End(input) - pos) + 1 IN
         /\ Need(buf) \in Nat /\ Room(input, End(input) - pos) \in Nat
         /\ ~buf.overflowed /\ room <= buf.length => rc' = subs
         /\ \/ rc' = subs
            \/ /\ rc' = PCRE2_ERROR_NOMEMORY
               /\ OverflowLength(calls) => outputLength' = room /\ buf'.length <= room
<1> DEFINE n == Room(input, End(input) - pos)
           room == Need(buf) + n + 1
           text == Kept(pos, input.length)
           rest == CheckMemCpy(buf, text)
           b == CheckMemCpy(rest, Terminator)
<1>1. TypeOK /\ HeapInv /\ pc \in InPass /\ input \in InputType
  BY SubstituteAssumption DEF Inv, TypeOK, InPass, Passes
<1>2. /\ buf \in PassBuffers /\ Len(buf.out) <= buf.length /\ pos \in Nat /\ subs \in Nat
      /\ buf.length \in Nat /\ Len(buf.out) \in Nat
  BY <1>1, PassTypes
<1>4. input.length \in Nat /\ input.start \in Nat /\ End(input) \in Nat
  BY <1>1 DEF InputType, End
<1>3. End(input) - pos \in Nat
  BY <1>2, <1>4
<1>5. text \in Seq(Tokens) /\ Len(text) = n /\ n \in Nat
  <2>1. n \in Nat /\ text \in Seq(Tokens)
    BY <1>1, <1>2, <1>3, <1>4, SizeTypes, KeptLength
  <2>2. CASE input.start <= input.length
    <3>1. End(input) = input.length /\ pos <= input.length
      BY <1>2, <1>4, <2>2 DEF End
    <3>2. Len(text) = Room(input, input.length - pos)
      BY <1>2, <1>4, <3>1, KeptLength
    <3> QED
      BY <2>1, <3>1, <3>2
  <2>3. CASE ~(input.start <= input.length)
    <3>1. End(input) = input.start /\ pos = input.start /\ input.length <= pos
      BY <1>2, <1>4, <2>3 DEF End
    <3>2. Len(text) = 0
      BY <1>2, <1>4, <3>1, KeptLength
    <3>3. End(input) - pos = 0
      BY <1>2, <3>1
    <3> QED
      BY <1>1, <2>1, <3>2, <3>3, SizeTypes
  <2> QED
    BY <2>2, <2>3
<1> HIDE DEF text, n
<1>6. /\ rest \in PassBuffers /\ rest.length = buf.length /\ Len(rest.out) <= rest.length
  BY <1>2, <1>5, CheckMemCpyFits
<1>7. /\ Need(buf) \in Nat /\ Need(rest) = Need(buf) + Len(text)
      /\ ~buf.overflowed => (rest.overflowed <=> Len(buf.out) + Len(text) > buf.length)
  BY <1>2, <1>5, CheckMemCpyNeeds
<1> HIDE DEF rest
<1>8. b.length = rest.length /\ b.extra \in Nat
  BY <1>6, TerminatorText, CheckMemCpyFits DEF PassBuffers
<1>9. /\ Need(b) = Need(rest) + 1
      /\ ~rest.overflowed => (b.overflowed <=> Len(rest.out) + 1 > rest.length)
  BY <1>6, TerminatorText, CheckMemCpyNeeds
<1>10. \/ ~b.overflowed /\ rc' = subs
       \/ /\ b.overflowed /\ rc' = PCRE2_ERROR_NOMEMORY /\ buf' = b
          /\ OverflowLength(calls) => outputLength' = b.length + b.extra
  BY DEF FinishPass, rest, text
<1> HIDE DEF b
<1>11. Need(b) = room
  BY <1>5, <1>7, <1>9
<1>12. ~buf.overflowed /\ room <= buf.length => ~b.overflowed
  BY <1>2, <1>5, <1>6, <1>7, <1>9 DEF Need
<1>13. b.overflowed => b.length + b.extra = room /\ b.length <= room
  BY <1>2, <1>6, <1>8, <1>11 DEF Need
<1> QED
  BY <1>5, <1>7, <1>10, <1>12, <1>13 DEF n

LEMMA FirstFinish ==
  ASSUME Inv, CountInv, calls = 1, FirstPass, FinishPass
  PROVE  \/ rc' >= 0
         \/ /\ rc' = PCRE2_ERROR_NOMEMORY
            /\ Outlook(input, matchLog, substLog, subs)
            /\ Promise(input, substLog, End(input), subs) + 1 <= outputLength'
            /\ HighMark(input, substLog, bufferLength)
            /\ ReplayMark(input, substLog, 2 * bufferLength)
<1>1. pc = "tail" /\ pc \in Working
  BY DEF FinishPass, Working
<1>2. /\ MatchCount /\ Placed /\ Once /\ input \in InputType /\ pos \in Nat /\ subs \in Nat
      /\ Decided = subs /\ Beyond(pos, Decided) /\ End(input) \in Nat /\ End(input) - pos \in Nat
      /\ pos + (End(input) - pos) = End(input) /\ pos <= at /\ at \in Nat
      /\ Len(substLog) \in Nat
  BY <1>1, Positions DEF Decided
<1> DEFINE n == Room(input, End(input) - pos)
<1>3. /\ Need(buf) \in Nat /\ n \in Nat
      /\ \/ rc' = subs
         \/ rc' = PCRE2_ERROR_NOMEMORY /\ outputLength' = Need(buf) + n + 1
  <2>1. input.start <= pos /\ pos <= End(input)
    BY <1>1, Positions
  <2> QED
    BY <1>1, <2>1, TailBuffer DEF OverflowLength
<1>4. Counted(input, substLog, subs)
  BY <1>2 DEF FirstPass, FirstAnswers, Counted
<1>5. Promise(input, substLog, pos, subs) \in Nat /\ Promise(input, substLog, pos, subs) <= Need(buf)
  BY <1>1, <1>2, <1>4, PromiseSteps DEF FirstPass, FirstRoom
<1>6. Promise(input, substLog, End(input), subs) = Promise(input, substLog, pos, subs) + n
  BY <1>2, <1>4, PromiseGrows
<1> HIDE DEF n
<1>7. Outlook(input, matchLog, substLog, subs)
  <2>1. Place(input, subs) <= End(input)
    <3>1. Place(input, subs) \in Nat
      BY <1>2, Places
    <3> QED
      BY <1>2, <3>1 DEF Placed
  <2>2. input.matchCallout => subs = Passed(matchLog, Len(matchLog))
    BY <1>2 DEF MatchCount, FirstPass, FirstAnswers
  <2> QED
    BY <1>1, <1>2, <2>1, <2>2 DEF Outlook, FirstPass, FirstAnswers, Once
<1> QED
  BY <1>2, <1>3, <1>5, <1>6, <1>7 DEF FirstPass, FirstAnswers

-----------------------------------------------------------------------------
(* A buffer that is large enough.                                          *)

LEMMA WrittenAtStart ==
  ASSUME NEW c \in InputType, NEW log, NEW p \in Nat
  PROVE  Written(c, log, p, 0) = Room(c, p) /\ Beyond(p, 0)
<1>1. 0 * Width = 0 /\ 0 * Insertion(c) = 0 /\ 0 * Worst(c) = 0
  BY SizeTypes, Times
<1>2. Accepted(c, log, 0) = 0
  BY AcceptedSteps
<1>3. p - 0 = p /\ 0 - 0 = 0
  OBVIOUS
<1>4. Written(c, log, p, 0) = Size(c, p, 0, 0, 0)
  BY <1>1, <1>2, <1>3 DEF Written
<1>5. Size(c, p, 0, 0, 0) = Room(c, p) + 0 + Room(c, 0) + 0
  BY <1>1 DEF Size
<1>6. Room(c, p) \in Nat /\ Room(c, 0) = 0
  BY SizeTypes
<1> QED
  BY <1>1, <1>4, <1>5, <1>6 DEF Beyond

(* Replacements that are shorter than what they replace.                   *)
LEMMA WrittenShrinks ==
  ASSUME NEW c \in InputType, ~c.substCallout, Insertion(c) <= Width,
         NEW log, NEW p \in Nat, NEW j \in Nat, Beyond(p, j)
  PROVE  Written(c, log, p, j) <= p
<1> DEFINE w == j * Width
           x == j * Insertion(c)
           k == p - w
<1>1. Width \in Nat /\ Insertion(c) \in Nat
  BY SizeTypes
<1>2. x <= w /\ x \in Nat /\ w \in Nat
  <2>1. Insertion(c) * j <= Width * j
    BY <1>1, TimesMonotone
  <2>2. Insertion(c) * j = x /\ Width * j = w /\ x \in Nat /\ w \in Nat
    BY <1>1
  <2> QED
    BY <2>1, <2>2
<1>3. k \in Nat
  BY <1>2 DEF Beyond
<1>4. 0 * Width = 0 /\ 0 * Worst(c) = 0
  BY SizeTypes, Times
<1>5. Accepted(c, log, j) = j /\ j - j = 0
  BY DEF Accepted
<1>6. Written(c, log, p, j) = Room(c, k) + x + Room(c, 0) + 0
  BY <1>4, <1>5 DEF Written, Size
<1> HIDE DEF w, x, k
<1>7. Room(c, k) \in Nat /\ Room(c, k) <= k /\ Room(c, 0) = 0
  BY <1>3, SizeTypes
<1>8. p = k + w
  BY <1>2, <1>3 DEF k
<1> QED
  BY <1>2, <1>3, <1>6, <1>7, <1>8

LEMMA EnoughTypes ==
  ASSUME NEW c \in InputType, NEW mlog, NEW slog, NEW limit \in Nat, NEW m,
         Enough(c, mlog, slog, limit, m)
  PROVE  m \in Nat /\ Beyond(End(c), m) /\ End(c) \in Nat
<1>1. m \in Nat /\ Place(c, m) <= End(c)
  BY DEF Enough, Outlook
<1>2. m * Width \in Nat /\ End(c) \in Nat /\ c.start \in Nat
  BY <1>1, Places, SizeTypes, Times
<1> QED
  BY <1>1, <1>2 DEF Place, Beyond

(* It takes what is written up to a place from which all the matches that  *)
(* are left can be reached, and the next replacement.                      *)
LEMMA FitsAhead ==
  ASSUME NEW c \in InputType, NEW mlog, NEW slog \in AnswerLogs, NEW limit \in Nat, NEW m,
         Enough(c, mlog, slog, limit, m),
         NEW p \in Nat, NEW j \in Nat, j <= m, Beyond(p, j), Reaches(p, m - j, End(c)),
         c.substCallout => j <= Len(slog),
         c.substCallout /\ j < Len(slog) => p <= slog[j + 1][1]
  PROVE  /\ Written(c, slog, p, j) \in Nat /\ Written(c, slog, p, j) <= limit
         /\ j < m => Written(c, slog, p, j) + Insertion(c) <= limit
<1>1. m \in Nat /\ End(c) \in Nat
  BY EnoughTypes
<1>2. Written(c, slog, p, j) \in Nat
  BY WrittenSteps
<1>3. Insertion(c) \in Nat
  BY SizeTypes
<1>4. Len(slog) \in Nat /\ \A i \in 1..Len(slog) : slog[i][1] \in Nat
  BY LogEntries
<1>5. CASE c.substCallout /\ j < Len(slog)
  <2>1. j + 1 \in 1..Len(slog) /\ (j + 1) - 1 = j
    BY <1>4, <1>5
  <2> DEFINE q == slog[j + 1][1]
  <2>2. q \in Nat /\ q - p \in Nat /\ p + (q - p) = q
    <3>1. q \in Nat /\ p <= q
      BY <1>4, <1>5, <2>1
    <3> HIDE DEF q
    <3> QED
      BY <3>1
  <2>3. Written(c, slog, q, j) + Insertion(c) <= limit
    BY <2>1 DEF Enough, HighMark
  <2> HIDE DEF q
  <2>4. Written(c, slog, p + (q - p), j) = Written(c, slog, p, j) + Room(c, q - p)
    BY <2>2, WrittenGrows
  <2>5. Room(c, q - p) \in Nat
    BY <2>2, SizeTypes
  <2> QED
    BY <1>2, <1>3, <2>2, <2>3, <2>4, <2>5
<1>6. CASE ~(c.substCallout /\ j < Len(slog))
  <2>1. c.substCallout => Len(slog) = j
    BY <1>4, <1>6
  <2>2. Written(c, slog, p, j) <= Promise(c, slog, End(c), m)
    BY <1>1, <2>1, PromiseCovers
  <2>3. j < m => Written(c, slog, p, j) + Insertion(c) <= Promise(c, slog, End(c), m)
    BY <1>1, <2>1, PromiseCovers
  <2>4. Promise(c, slog, End(c), m) \in Nat /\ Promise(c, slog, End(c), m) + 1 <= limit
    <3>1. Counted(c, slog, m)
      BY <1>4 DEF Counted, Enough, Outlook
    <3>2. Beyond(End(c), m)
      BY EnoughTypes
    <3> QED
      BY <1>1, <3>1, <3>2, PromiseSteps DEF Enough
  <2> QED
    BY <1>2, <1>3, <2>2, <2>3, <2>4
<1> QED
  BY <1>5, <1>6

(* It takes the rest of the subject when the search is over.               *)
LEMMA FitsAtEnd ==
  ASSUME NEW c \in InputType, NEW mlog, NEW slog, NEW limit \in Nat, NEW m,
         Enough(c, mlog, slog, limit, m), c.substCallout => Len(slog) = m
  PROVE  Written(c, slog, End(c), m) + 1 <= limit
<1>1. m \in Nat
  BY EnoughTypes
<1>2. Promise(c, slog, End(c), m) = Written(c, slog, End(c), m)
  BY <1>1, PromiseIsWritten
<1> QED
  BY <1>2 DEF Enough

(* It takes it also when an answer has stopped the search, after j of the  *)
(* matches: the first pass was told to go on.                              *)
LEMMA FitsAtAbort ==
  ASSUME NEW c \in InputType, NEW mlog, NEW slog \in AnswerLogs, NEW limit \in Nat, NEW m,
         Enough(c, mlog, slog, limit, m),
         NEW p \in Nat, NEW j \in Nat, j <= m, Beyond(p, j), p <= End(c),
         End(c) = c.length, 1 <= c.length, c.matchCallout \/ c.substCallout,
         c.substCallout => j <= Len(slog) /\ p = MatchEnd(c, slog, j),
         c.substCallout /\ j < Len(slog) => ReplayMark(c, slog, limit)
  PROVE  Written(c, slog, End(c), j) + 1 <= limit
<1>1. m \in Nat /\ End(c) \in Nat /\ Beyond(End(c), m)
  BY EnoughTypes
<1>2. Len(slog) \in Nat /\ \A i \in 1..Len(slog) : slog[i][1] \in Nat
  BY LogEntries
<1>3. 2 * c.length <= limit /\ c.length \in Nat /\ Width \in Nat /\ Width >= 1
  BY Places, 0 \in Nat DEF Enough
<1>4. PICK n \in Nat : End(c) = p + n
  <2>1. End(c) - p \in Nat /\ End(c) = p + (End(c) - p)
    BY <1>1
  <2> QED
    BY <2>1
<1>5. /\ Written(c, slog, p, j) \in Nat /\ Room(c, n) \in Nat /\ Room(c, n) <= n
      /\ Written(c, slog, End(c), j) = Written(c, slog, p, j) + Room(c, n)
  <2>1. Written(c, slog, p, j) \in Nat
    BY WrittenSteps
  <2>2. Written(c, slog, p + n, j) = Written(c, slog, p, j) + Room(c, n)
    BY WrittenGrows
  <2>3. Room(c, n) \in Nat /\ Room(c, n) <= n
    BY SizeTypes
  <2> QED
    BY <1>4, <2>1, <2>2, <2>3
<1>6. CASE c.substCallout /\ j < Len(slog)
  <2>1. CASE j = 0
    <3>1. Written(c, slog, End(c), 0) = Room(c, End(c))
      BY <1>1, WrittenAtStart
    <3>2. Room(c, End(c)) <= End(c) /\ Room(c, End(c)) \in Nat
      BY <1>1, SizeTypes
    <3> QED
      BY <1>3, <2>1, <3>1, <3>2
  <2>2. CASE j # 0
    <3>1. j \in 1..(Len(slog) - 1) /\ j \in 1..Len(slog)
      BY <1>2, <1>6, <2>2
    <3>2. p = slog[j][1] + Width /\ p >= 1
      BY <1>2, <1>3, <1>6, <2>2, <3>1 DEF MatchEnd
    <3>3. 2 * Written(c, slog, p, j) <= limit
      BY <1>6, <3>1, <3>2 DEF ReplayMark
    <3> QED
      BY <1>3, <1>4, <1>5, <3>2, <3>3
  <2> QED
    BY <2>1, <2>2
<1>7. CASE ~(c.substCallout /\ j < Len(slog)) /\ (c.replacementOnly \/ Width <= Worst(c))
  <2>1. c.substCallout => Len(slog) = j
    BY <1>2, <1>7
  <2>2. Written(c, slog, End(c), j) <= Promise(c, slog, End(c), m)
    BY <1>1, <1>7, <2>1, PromiseCoversLeft
  <2>3. Promise(c, slog, End(c), m) \in Nat /\ Promise(c, slog, End(c), m) + 1 <= limit
    <3>1. Counted(c, slog, m)
      BY <1>2 DEF Counted, Enough, Outlook
    <3> QED
      BY <1>1, <3>1, PromiseSteps DEF Enough
  <2> QED
    BY <1>5, <2>2, <2>3
<1>8. CASE ~c.substCallout /\ ~(Width <= Worst(c))
  <2>1. Worst(c) = Insertion(c) /\ Insertion(c) \in Nat
    BY <1>8, SizeTypes
  <2>2. Insertion(c) <= Width
    BY <1>3, <1>8, <2>1
  <2>3. Beyond(End(c), j)
    <3>1. j * Width \in Nat
      BY <1>3, Times
    <3> QED
      BY <1>1, <3>1 DEF Beyond
  <2>4. Written(c, slog, End(c), j) <= End(c)
    BY <1>1, <1>8, <2>2, <2>3, WrittenShrinks
  <2> QED
    BY <1>3, <1>5, <2>4
<1>9. c.substCallout => Width <= Worst(c)
  BY SizeTypes
<1> QED
  BY <1>6, <1>7, <1>8, <1>9

-----------------------------------------------------------------------------
(* The beginning of a pass.                                                *)

LEMMA CallBuffer ==
  ASSUME Inv, CallSubstitute
  PROVE  LET n == Room(input, input.start) IN
         /\ n \in Nat /\ Need(buf') = n /\ buf'.length = outputLength
         /\ n <= outputLength => ~buf'.overflowed
         /\ ~buf'.overflowed \/ OverflowLength(calls') => pc' = "match"
         /\ pc = "call" /\ pos' = input.start /\ at' = input.start /\ subs' = 0
         /\ matchQueue'.replayed = 0 /\ substQueue'.replayed = 0
         /\ calls' = IF calls < MaxCalls THEN calls + 1 ELSE calls
         /\ UNCHANGED <<input, bufferLength, matchLog, substLog>>
<1> DEFINE n == Room(input, input.start)
           e == EmptyBuffer(outputLength)
           text == Kept(0, input.start)
           b == CheckMemCpy(e, text)
<1>1. TypeOK /\ input \in InputType /\ input.start \in Nat /\ outputLength \in Nat
  BY SubstituteAssumption, InputIsTyped DEF Inv, TypeOK
<1>2. text \in Seq(Tokens) /\ Len(text) = n /\ n \in Nat
  <2>1. input.start - 0 = input.start /\ 0 <= input.start /\ 0 \in Nat
    BY <1>1
  <2>2. text \in Seq(Tokens) /\ Len(text) = Room(input, input.start - 0)
    BY <1>1, <2>1, KeptLength
  <2>3. n \in Nat
    BY <1>1, SizeTypes
  <2> QED
    BY <2>1, <2>2, <2>3
<1> HIDE DEF text, n
<1>3. /\ e \in PassBuffers /\ e.length = outputLength /\ Len(e.out) <= e.length
      /\ ~e.overflowed /\ Len(e.out) = 0
  BY <1>1, EmptyBufferFits DEF EmptyBuffer
<1> HIDE DEF e
<1>4. b.length = e.length
  BY <1>2, <1>3, CheckMemCpyFits
<1>5. /\ Need(b) = Need(e) + Len(text)
      /\ b.overflowed <=> Len(e.out) + Len(text) > e.length
  BY <1>2, <1>3, CheckMemCpyNeeds
<1>6. /\ buf' = b /\ pc = "call"
      /\ ~b.overflowed \/ OverflowLength(calls') => pc' = "match"
      /\ pos' = input.start /\ at' = input.start /\ subs' = 0
      /\ matchQueue' = StartReplay(matchQueue) /\ substQueue' = StartReplay(substQueue)
      /\ calls' = IF calls < MaxCalls THEN calls + 1 ELSE calls
      /\ UNCHANGED <<input, bufferLength, matchLog, substLog>>
  BY DEF CallSubstitute, Write, history, e, text
<1> HIDE DEF b
<1>7. matchQueue'.replayed = 0 /\ substQueue'.replayed = 0
  BY <1>1, <1>6 DEF TypeOK, StartReplay, ReplayQueues
<1>8. Need(b) = n /\ (n <= outputLength => ~b.overflowed)
  BY <1>1, <1>2, <1>3, <1>4, <1>5 DEF Need
<1> QED
  BY <1>2, <1>3, <1>4, <1>6, <1>7, <1>8 DEF n

LEMMA FirstCall ==
  ASSUME Inv, CallSubstitute, calls = 0, matchLog = << >>, substLog = << >>,
         outputLength = bufferLength
  PROVE  calls' = 1 /\ pc' \in Working /\ FirstPass'
<1>1. /\ Need(buf') = Room(input, input.start) /\ buf'.length = outputLength
      /\ ~buf'.overflowed \/ OverflowLength(calls') => pc' = "match"
      /\ pos' = input.start /\ at' = input.start /\ subs' = 0
      /\ matchQueue'.replayed = 0 /\ substQueue'.replayed = 0
      /\ calls' = IF calls < MaxCalls THEN calls + 1 ELSE calls
      /\ UNCHANGED <<input, bufferLength, matchLog, substLog>>
  BY CallBuffer
<1>2. input \in InputType /\ input.start \in Nat
  BY SubstituteAssumption, InputIsTyped DEF Inv, TypeOK
<1>3. calls' = 1 /\ pc' = "match"
  BY <1>1 DEF MaxCalls, OverflowLength
<1>4. Len(matchLog) = 0 /\ Len(substLog) = 0
  OBVIOUS
<1>5. Promise(input, substLog, input.start, 0) = Room(input, input.start)
  BY <1>2, <1>4, PromiseIsWritten, WrittenAtStart
<1>6. Room(input, input.start) \in Nat
  BY <1>2, SizeTypes
<1>7. FirstRoom'
  BY <1>1, <1>3, <1>5, <1>6 DEF FirstRoom
<1>8. FirstAnswers'
  <2>1. Decided' = 0
    BY <1>1, <1>3 DEF Decided
  <2> QED
    BY <1>1, <1>4, <2>1 DEF FirstAnswers, HighMark, ReplayMark
<1> QED
  BY <1>1, <1>3, <1>7, <1>8 DEF FirstPass, Working, Searching

-----------------------------------------------------------------------------
(* The second pass.                                                        *)

(* It never outgrows the buffer it is given.                               *)
SecondRoom ==
  /\ pc = "tail" => Written(input, substLog, End(input), subs) + 1 <= buf.length
  /\ pc \in {"match", "tail"} => Len(buf.out) <= Written(input, substLog, pos, subs)
  /\ pc \in {"case", "callout"} =>
       LET before == Written(input, substLog, at, subs - 1) IN
       /\ mark.offset <= before
       /\ Len(buf.out) <= before + Insertion(input)
       /\ before + Insertion(input) <= buf.length

SecondPass ==
  /\ ~buf.overflowed /\ SecondRoom
  /\ input.substCallout /\ substQueue.replayed < Len(substLog) =>
       ReplayMark(input, substLog, buf.length)
  /\ \E m \in Nat : Enough(input, matchLog, substLog, buf.length, m) /\ subs <= m

LEMMA SecondCall ==
  ASSUME Inv, ~input.faulty, CallSubstitute, calls = 1, ReplayMark(input, substLog, outputLength),
         NEW m \in Nat, Enough(input, matchLog, substLog, outputLength, m)
  PROVE  calls' = 2 /\ pc' \in Working /\ SecondPass'
<1> DEFINE n == Room(input, input.start)
<1>1. /\ n \in Nat /\ Need(buf') = n /\ buf'.length = outputLength
      /\ n <= outputLength => ~buf'.overflowed
      /\ ~buf'.overflowed => pc' = "match"
      /\ pos' = input.start /\ at' = input.start /\ subs' = 0
      /\ matchQueue'.replayed = 0 /\ substQueue'.replayed = 0
      /\ calls' = IF calls < MaxCalls THEN calls + 1 ELSE calls
      /\ UNCHANGED <<input, bufferLength, matchLog, substLog>>
  BY CallBuffer
<1>2. /\ input \in InputType /\ input.start \in Nat /\ outputLength \in Nat
      /\ substLog \in AnswerLogs /\ Len(substLog) \in Nat
  BY SubstituteAssumption, InputIsTyped, LogEntries DEF Inv, TypeOK
<1>3. Written(input, substLog, input.start, 0) = n /\ Beyond(input.start, 0)
  BY <1>2, WrittenAtStart
<1>4. n <= outputLength
  <2>1. Reaches(input.start, m - 0, End(input))
    BY DEF Enough, Outlook, Place, Reaches
  <2>2. input.substCallout => 0 <= Len(substLog)
    BY <1>2
  <2>3. input.substCallout /\ 0 < Len(substLog) => input.start <= substLog[0 + 1][1]
    <3>1. 0 < Len(substLog) => 1 \in 1..Len(substLog) /\ 1 - 1 = 0
      BY <1>2
    <3> QED
      BY <3>1 DEF Inv, ReplayInv, SubstLogInv, SubstFrom
  <2>4. 0 <= m
    OBVIOUS
  <2>5. Written(input, substLog, input.start, 0) <= outputLength
    BY <1>2, <1>3, <2>1, <2>2, <2>3, <2>4, FitsAhead
  <2> QED
    BY <1>3, <2>5
<1> HIDE DEF n
<1>5. pc' = "match" /\ ~buf'.overflowed /\ calls' = 2
  BY <1>1, <1>4 DEF MaxCalls
<1>6. Len(buf'.out) <= Written(input, substLog, input.start, 0)
  BY <1>1, <1>3, <1>5 DEF Need
<1>7. SecondRoom'
  BY <1>1, <1>5, <1>6 DEF SecondRoom
<1>8. Enough(input, matchLog, substLog, buf'.length, m) /\ subs' <= m
  BY <1>1
<1> QED
  BY <1>1, <1>5, <1>7, <1>8 DEF SecondPass, Working, Searching

(* From any place of a pass the matches that are left can be reached.      *)
LEMMA Onward ==
  ASSUME Inv, ~input.faulty, AnswersInv, CountInv, pc \in Searching,
         NEW m \in Nat, Outlook(input, matchLog, substLog, m), subs <= m
  PROVE  /\ pc = "match" => Reaches(at, m - subs, End(input))
         /\ pc \in {"case", "callout"} => Reaches(at + Width, m - subs, End(input))
<1>1. /\ MatchCount /\ Placed /\ input \in InputType /\ at \in Nat /\ subs \in Nat
      /\ Decided \in Nat /\ Len(matchLog) \in Nat /\ Width \in Nat /\ End(input) \in Nat
  BY Positions DEF Working
<1> DEFINE p == IF pc = "match" THEN at ELSE at + Width
<1> SUFFICES Reaches(p, m - subs, End(input))
  BY DEF Searching
<1>2. CASE ~input.matchCallout
  <2>1. p = Place(input, subs)
    <3>1. CASE pc = "match"
      BY <1>1, <1>2, <3>1 DEF Placed, Decided
    <3>2. CASE pc # "match"
      <4>1. subs = Decided + 1 /\ at = Place(input, Decided)
        BY <1>1, <1>2, <3>2 DEF Placed, Decided, Searching
      <4>2. Place(input, Decided + 1) = Place(input, Decided) + Width
        BY <1>1, Places
      <4> QED
        BY <3>2, <4>1, <4>2
    <3> QED
      BY <3>1, <3>2
  <2>2. /\ subs * Width \in Nat /\ m * Width \in Nat
        /\ (m - subs) * Width = m * Width - subs * Width
    BY <1>1, MatchesApart
  <2>3. input.start \in Nat /\ input.start + m * Width <= End(input)
    BY <1>1, Places DEF Outlook, Place
  <2> QED
    BY <1>1, <2>1, <2>2, <2>3 DEF Reaches, Place
<1>3. CASE input.matchCallout
  <2> DEFINE k == matchQueue.replayed
             e == After(input, matchLog, Len(matchLog))
  <2>1. k \in 0..Len(matchLog) /\ subs = Passed(matchLog, k) /\ m = Passed(matchLog, Len(matchLog))
    BY <1>1, <1>3 DEF MatchCount, Outlook
  <2>2. p = After(input, matchLog, k)
    <3>1. CASE pc = "match"
      BY <1>3, <3>1 DEF Inv, AnswersInv, ReplayInv, MatchCursor, TriedAt, After, Searching
    <3>2. CASE pc # "match"
      <4>1. k >= 1 /\ matchLog[k][1] = at /\ matchLog[k][2] = "Pass"
        BY <1>3, <3>2 DEF Inv, AnswersInv, ReplayInv, MatchCursor, Searching
      <4> QED
        BY <2>1, <3>2, <4>1 DEF After
    <3> QED
      BY <3>1, <3>2
  <2>3. Reaches(p, m - subs, e)
    BY <2>1, <2>2 DEF AnswersInv, MatchesFollow
  <2>4. e <= End(input) /\ e \in Nat
    <3>1. input.length <= End(input) /\ input.start <= End(input) /\ Width >= 1
          /\ input.start \in Nat /\ input.length \in Nat
      BY <1>1, Places, 0 \in Nat
    <3>2. Len(matchLog) # 0 =>
            /\ matchLog[Len(matchLog)][1] \in Nat
            /\ matchLog[Len(matchLog)][1] + Width <= input.length
      <4>1. Len(matchLog) # 0 => Len(matchLog) \in 1..Len(matchLog)
        BY <1>1
      <4>2. matchLog \in AnswerLogs
        BY DEF Inv, TypeOK
      <4> QED
        BY <4>1, <4>2, LogEntries DEF AnswersInv, MatchesFit
    <3> QED
      BY <1>1, <3>1, <3>2 DEF After
  <2>5. (m - subs) * Width \in Nat /\ p \in Nat
    <3>1. m - subs \in Nat /\ p \in Nat
      BY <1>1
    <3> QED
      BY <1>1, <3>1, Times
  <2> QED
    BY <1>1, <2>3, <2>4, <2>5 DEF Reaches
<1> QED
  BY <1>2, <1>3

LEMMA EndIsLength ==
  ASSUME Inv, CountInv, pc \in Working, at + Width <= input.length
  PROVE  End(input) = input.length /\ 1 <= input.length /\ at + Width <= End(input)
<1>1. /\ Placed /\ at \in Nat /\ pos \in Nat /\ Decided \in Nat /\ Width \in Nat /\ Width >= 1
      /\ input \in InputType
  BY Positions
<1>2. input.start \in Nat /\ input.length \in Nat /\ Decided * Width \in Nat
  BY <1>1, Places, Times
<1>3. input.start <= at
  BY <1>1, <1>2 DEF Placed, Place
<1> QED
  BY <1>1, <1>2, <1>3 DEF End

(* No position is tried that the first pass has not tried, and no match is *)
(* found that it has not counted.                                          *)
LEMMA SecondMatches ==
  ASSUME Inv, ~input.faulty, CountInv, Tried,
         NEW m \in Nat, Outlook(input, matchLog, substLog, m), subs <= m
  PROVE  matchLog' = matchLog /\ (Matched => subs < m)
<1>1. /\ pc = "match" /\ pc \in Working /\ at + Width <= input.length
  BY TriedFacts DEF Working, Searching
<1>2. /\ MatchCount /\ Placed /\ Once /\ subs \in Nat /\ Decided = subs /\ at \in Nat
      /\ Len(matchLog) \in Nat /\ Width \in Nat /\ input \in InputType
  BY <1>1, Positions DEF Decided
<1>3. input.length \in Nat
  BY <1>2 DEF InputType
<1>4. CASE ~input.matchCallout
  <2>1. matchLog' = matchLog
    BY <1>4, TriedFacts
  <2>2. subs # m
    <3> SUFFICES ASSUME subs = m
                 PROVE  FALSE
      OBVIOUS
    <3>1. Place(input, m) + Width <= input.length
      BY <1>1, <1>2, <1>4 DEF Placed
    <3>2. ~input.global /\ m = 1
      <4>1. Place(input, m) \in Nat
        BY <1>2, Places
      <4> QED
        BY <1>2, <1>3, <1>4, <3>1, <4>1 DEF Outlook, Stops
    <3> QED
      BY <1>1, <1>2, <3>2 DEF Once
  <2> QED
    BY <1>2, <2>1, <2>2
<1>5. CASE input.matchCallout
  <2> DEFINE k == matchQueue.replayed
  <2>1. /\ k \in 0..Len(matchLog) /\ at = After(input, matchLog, k)
        /\ k < Len(matchLog) => matchLog' = matchLog
        /\ matchLog'[k + 1][2] # "Pass" => subs' = subs
    BY <1>5, TriedFacts
  <2>2. subs = Passed(matchLog, k) /\ m = Passed(matchLog, Len(matchLog))
    BY <1>2, <1>5 DEF MatchCount, Outlook
  <2>3. k # Len(matchLog)
    <3> SUFFICES ASSUME k = Len(matchLog)
                 PROVE  FALSE
      OBVIOUS
    <3>1. subs = m /\ After(input, matchLog, Len(matchLog)) + Width <= input.length
      BY <1>1, <2>1, <2>2
    <3>2. ~input.global /\ m = 1
      <4>1. After(input, matchLog, Len(matchLog)) \in Nat
        BY <1>2, <2>1
      <4> QED
        BY <1>2, <1>3, <1>5, <3>1, <4>1 DEF Outlook, Stops
    <3> QED
      BY <1>1, <1>2, <3>1, <3>2 DEF Once
  <2>4. k < Len(matchLog) /\ matchLog' = matchLog /\ k \in Nat /\ k + 1 <= Len(matchLog)
    BY <1>2, <2>1, <2>3
  <2>5. ASSUME Matched
        PROVE  subs < m
    <3>1. subs' # subs
      BY <1>2, <2>5 DEF Matched
    <3>2. Passed(matchLog, k + 1) = subs + 1
      BY <2>1, <2>2, <2>4, <3>1, PassedStep
    <3>3. Passed(matchLog, k + 1) <= Passed(matchLog, Len(matchLog))
      BY <1>2, <2>4, PassedMonotone
    <3> QED
      BY <1>2, <2>2, <3>2, <3>3
  <2> QED
    BY <2>4, <2>5
<1> QED
  BY <1>4, <1>5

LEMMA SecondTried ==
  ASSUME Inv, ~input.faulty, AnswersInv, CountInv, SecondPass, Tried
  PROVE  pc' \in Working /\ SecondPass'
<1>1. /\ pc = "match" /\ pc \in Working /\ at + Width <= input.length
      /\ UNCHANGED <<input, pos, substQueue, substLog>>
  BY TriedFacts DEF driver, Working, Searching
<1>2. /\ pos \in Nat /\ at \in Nat /\ subs \in Nat /\ pos <= at /\ at - pos \in Nat
      /\ pos + (at - pos) = at /\ input \in InputType /\ Len(substLog) \in Nat /\ SubstCount
      /\ End(input) \in Nat /\ Width \in Nat
  BY <1>1, Positions
<1>3. Decided = subs /\ Beyond(pos, subs) /\ Beyond(at, subs)
  <2>1. Decided = subs
    BY <1>1 DEF Decided
  <2> QED
    BY <1>1, <2>1, Positions
<1>4. PICK m \in Nat : Enough(input, matchLog, substLog, buf.length, m) /\ subs <= m
  BY DEF SecondPass
<1>5. matchLog' = matchLog /\ (Matched => subs < m)
  BY <1>4, SecondMatches DEF Enough
<1>6. /\ ~buf.overflowed /\ buf.length \in Nat /\ substLog \in AnswerLogs
      /\ Need(buf) = Len(buf.out) /\ Len(buf.out) \in Nat
      /\ Len(buf.out) <= Written(input, substLog, pos, subs)
  <2>1. ~buf.overflowed /\ Len(buf.out) <= Written(input, substLog, pos, subs)
    BY <1>1 DEF SecondPass, SecondRoom
  <2>2. buf.length \in Nat /\ Len(buf.out) \in Nat
    BY <1>1, Positions, PassTypes DEF Inv
  <2> QED
    BY <2>1, <2>2 DEF Inv, TypeOK, Need
<1>7. input.substCallout =>
        /\ substQueue.replayed = subs /\ subs <= Len(substLog)
        /\ pos = MatchEnd(input, substLog, subs)
        /\ subs < Len(substLog) => at <= substLog[subs + 1][1]
  BY <1>1, <1>2, <1>3, <1>6 DEF SubstCount, Inv, ReplayInv, SubstCursor, Searching
<1>8. CASE Matched
  <2> DEFINE n == Room(input, at - pos)
             before == Written(input, substLog, at, subs)
             room == Need(buf) + n
  <2>1. before \in Nat /\ before + Insertion(input) <= buf.length
    <3>1. Reaches(at, m - subs, End(input))
      BY <1>1, <1>4, Onward DEF Enough, Searching
    <3>2. before \in Nat /\ (subs < m => before + Insertion(input) <= buf.length)
      BY <1>2, <1>3, <1>4, <1>6, <1>7, <3>1, FitsAhead
    <3> QED
      BY <1>5, <1>8, <3>2
  <2>2. before = Written(input, substLog, pos, subs) + n
    BY <1>2, <1>3, WrittenGrows
  <2>3. /\ n \in Nat /\ Insertion(input) \in Nat
        /\ buf'.length = buf.length /\ Need(buf') = room + Insertion(input)
        /\ ~buf'.overflowed => mark'.offset = room
        /\ ~buf.overflowed /\ room + Insertion(input) <= buf.length => ~buf'.overflowed
        /\ ~buf'.overflowed => pc' = "case"
        /\ subs' = subs + 1 /\ at' = at
    BY <1>1, <1>2, <1>8, MatchedBuffer
  <2>4. Written(input, substLog, pos, subs) \in Nat
    BY <1>2, <1>3, WrittenSteps
  <2> HIDE DEF n, before
  <2>5. ~buf'.overflowed /\ pc' = "case" /\ mark'.offset <= before
        /\ Len(buf'.out) <= before + Insertion(input)
    <3>1. room <= before
      BY <1>6, <2>2, <2>3, <2>4
    <3>2. room + Insertion(input) <= buf.length
      BY <1>6, <2>1, <2>3, <3>1
    <3>3. ~buf'.overflowed /\ pc' = "case" /\ mark'.offset = room
      BY <1>6, <2>3, <3>2
    <3>4. Len(buf'.out) = room + Insertion(input)
      BY <2>3, <3>3 DEF Need
    <3> QED
      BY <1>6, <2>1, <2>3, <3>1, <3>3, <3>4
  <2>6. Written(input', substLog', at', subs' - 1) = before
    <3>1. subs' - 1 = subs
      BY <1>2, <2>3
    <3> QED
      BY <1>1, <2>3, <3>1 DEF before
  <2>7. SecondRoom'
    BY <1>1, <2>1, <2>3, <2>5, <2>6 DEF SecondRoom
  <2>8. Enough(input', matchLog', substLog', buf'.length, m) /\ subs' <= m
    <3>1. subs' <= m
      BY <1>2, <1>5, <1>8, <2>3
    <3> QED
      BY <1>1, <1>4, <1>5, <2>3, <3>1
  <2> QED
    BY <1>1, <2>3, <2>5, <2>7, <2>8 DEF SecondPass, Working, Searching
<1>9. CASE ~Matched
  <2>1. /\ input.matchCallout /\ UNCHANGED <<buf, subs>>
        /\ pc' = "match" \/ pc' = "tail"
    BY <1>9, TriedFacts
  <2>2. pc' = "tail" => Written(input, substLog, End(input), subs) + 1 <= buf.length
    <3>1. End(input) = input.length /\ 1 <= input.length /\ pos <= End(input)
      BY <1>1, <1>2, EndIsLength
    <3>2. input.substCallout /\ subs < Len(substLog) => ReplayMark(input, substLog, buf.length)
      BY <1>7 DEF SecondPass
    <3> QED
      BY <1>2, <1>3, <1>4, <1>6, <1>7, <2>1, <3>1, <3>2, FitsAtAbort
  <2>3. SecondRoom'
    BY <1>1, <1>6, <2>1, <2>2 DEF SecondRoom
  <2>4. Enough(input', matchLog', substLog', buf'.length, m) /\ subs' <= m
    BY <1>1, <1>4, <1>5, <2>1
  <2> QED
    BY <1>1, <2>1, <2>3, <2>4 DEF SecondPass, Working, Searching
<1> QED
  BY <1>8, <1>9

LEMMA PlacesInOrder ==
  ASSUME NEW c \in InputType, NEW j \in Nat, NEW m \in Nat, j < m
  PROVE  Place(c, j) + Width <= Place(c, m)
<1>1. Width \in Nat /\ c.start \in Nat
  BY Places, 0 \in Nat
<1>2. j + 1 \in Nat /\ j + 1 <= m
  OBVIOUS
<1>3. (j + 1) * Width <= m * Width /\ (j + 1) * Width \in Nat /\ m * Width \in Nat
  BY <1>1, <1>2, TimesMonotone, Times
<1>4. Place(c, j + 1) = Place(c, j) + Width
  BY Places
<1> QED
  BY <1>1, <1>3, <1>4 DEF Place

LEMMA SecondNoMatch ==
  ASSUME Inv, ~input.faulty, AnswersInv, CountInv, SecondPass, NoMatch
  PROVE  pc' \in Working /\ SecondPass'
<1>1. /\ pc = "match" /\ pc \in Working /\ pc' = "tail" /\ ~(at + Width <= input.length)
      /\ UNCHANGED <<input, buf, pos, at, subs, queues, matchLog, substLog>>
  BY DEF NoMatch, CanMatch, driver, engine, history, Working, Searching
<1>2. /\ MatchCount /\ SubstCount /\ Placed /\ subs \in Nat /\ Decided = subs /\ at \in Nat
      /\ Len(matchLog) \in Nat /\ Len(substLog) \in Nat /\ Width \in Nat /\ Width >= 1
      /\ input \in InputType
  BY <1>1, Positions DEF Decided
<1>3. PICK m \in Nat : Enough(input, matchLog, substLog, buf.length, m) /\ subs <= m
  BY DEF SecondPass
<1>4. subs = m
  <2>1. CASE ~input.matchCallout
    <3> SUFFICES ASSUME subs < m
                 PROVE  FALSE
      BY <1>2, <1>3
    <3>1. Place(input, subs) + Width <= Place(input, m)
      BY <1>2, <1>3, PlacesInOrder
    <3>2. at = Place(input, subs) /\ Place(input, m) <= End(input)
      BY <1>2, <1>3, <2>1 DEF Placed, Enough, Outlook
    <3>3. /\ input.length \in Nat /\ input.start \in Nat /\ input.start <= Place(input, subs)
          /\ Place(input, m) \in Nat
      <4>1. input.length \in Nat /\ input.start \in Nat /\ Place(input, m) \in Nat
        BY <1>2, Places
      <4>2. subs * Width \in Nat
        BY <1>2, Times
      <4> QED
        BY <4>1, <4>2 DEF Place
    <3> QED
      BY <1>1, <1>2, <3>1, <3>2, <3>3 DEF End
  <2>2. CASE input.matchCallout
    <3> DEFINE k == matchQueue.replayed
    <3>1. k \in 0..Len(matchLog) /\ subs = Passed(matchLog, k) /\ m = Passed(matchLog, Len(matchLog))
      BY <1>2, <1>3, <2>2 DEF MatchCount, Enough, Outlook
    <3>2. k = Len(matchLog)
      <4> SUFFICES ASSUME k < Len(matchLog)
                   PROVE  FALSE
        BY <1>2, <3>1
      <4>1. k + 1 \in 1..Len(matchLog) /\ (k + 1) - 1 = k
        BY <1>2, <3>1
      <4>2. at = TriedAt(k) /\ matchLog[k + 1][1] = TriedAt(k)
        BY <1>1, <2>2, <4>1 DEF Inv, ReplayInv, MatchCursor, MatchLogInv, Searching
      <4>3. matchLog[k + 1][1] + Width <= input.length
        BY <4>1 DEF AnswersInv, MatchesFit
      <4> QED
        BY <1>1, <4>2, <4>3
    <3> QED
      BY <3>1, <3>2
  <2> QED
    BY <2>1, <2>2
<1>5. ~buf.overflowed /\ Len(buf.out) <= Written(input, substLog, pos, subs) /\ buf.length \in Nat
  <2>1. buf.length \in Nat
    BY <1>1, Positions, PassTypes DEF Inv
  <2> QED
    BY <1>1, <2>1 DEF SecondPass, SecondRoom
<1>6. Written(input, substLog, End(input), subs) + 1 <= buf.length
  <2>1. input.substCallout => Len(substLog) = m
    BY <1>2, <1>3, <1>4, <1>5 DEF SubstCount, Enough, Outlook
  <2> QED
    BY <1>2, <1>3, <1>4, <1>5, <2>1, FitsAtEnd
<1>7. SecondRoom'
  BY <1>1, <1>5, <1>6 DEF SecondRoom
<1>8. Enough(input', matchLog', substLog', buf'.length, m) /\ subs' <= m
  BY <1>1, <1>3
<1> QED
  BY <1>1, <1>7, <1>8 DEF SecondPass, Working, Searching, queues

LEMMA SecondCased ==
  ASSUME Inv, Plain, SecondPass, Cased
  PROVE  pc' \in Working /\ SecondPass'
<1>1. /\ pc = "case" /\ pc' = "callout"
      /\ UNCHANGED <<input, buf, mark, pos, at, subs, queues, matchLog, substLog>>
  BY DEF Cased, SkipForceCase, GuessCase, RunCaseCallout, Plain, driver, engine, history
<1>2. PICK m \in Nat : Enough(input, matchLog, substLog, buf.length, m) /\ subs <= m
  BY DEF SecondPass
<1>3. SecondRoom'
  BY <1>1 DEF SecondPass, SecondRoom
<1>4. Enough(input', matchLog', substLog', buf'.length, m) /\ subs' <= m
  BY <1>1, <1>2
<1> QED
  BY <1>1, <1>3, <1>4 DEF SecondPass, Working, Searching, queues

(* One more answer leaves a buffer large enough.                           *)
LEMMA EnoughAnswered ==
  ASSUME NEW c \in InputType, NEW mlog, NEW slog \in AnswerLogs, NEW longer,
         NEW limit \in Nat, NEW m, Enough(c, mlog, slog, limit, m), c.substCallout,
         Extends(longer, slog), Len(longer) <= m,
         Written(c, slog, longer[Len(longer)][1], Len(slog)) + Insertion(c) <= limit
  PROVE  Enough(c, mlog, longer, limit, m)
<1>1. m \in Nat /\ End(c) \in Nat /\ Beyond(End(c), m)
  BY EnoughTypes
<1>2. Len(slog) \in Nat /\ Len(longer) = Len(slog) + 1 /\ Len(slog) < m /\ Len(slog) <= m
  BY <1>1 DEF Extends
<1>3. Promise(c, longer, End(c), m) <= Promise(c, slog, End(c), m)
  BY <1>1, <1>2, PromiseAnswered
<1>4. Promise(c, longer, End(c), m) \in Nat
  BY <1>1, <1>2, PromiseSteps DEF Counted
<1>5. Promise(c, slog, End(c), m) \in Nat
  BY <1>1, <1>2, PromiseSteps DEF Counted
<1>6. HighMark(c, longer, limit)
  BY HighMarkGrows DEF Enough
<1>7. Outlook(c, mlog, longer, m)
  BY DEF Enough, Outlook
<1>8. Promise(c, longer, End(c), m) + 1 <= limit
  BY <1>3, <1>4, <1>5 DEF Enough
<1> QED
  BY <1>6, <1>7, <1>8 DEF Enough

(* What the second pass knows once a callout has answered.                 *)
LEMMA SecondSubstAnswered ==
  ASSUME Inv, ~input.faulty, CountInv, SecondPass, pc = "callout", input.substCallout,
         SubstAnswered,
         NEW m \in Nat, Enough(input, matchLog, substLog, buf.length, m), subs <= m
  PROVE  /\ Enough(input, matchLog, substLog', buf.length, m)
         /\ subs <= Len(substLog') /\ substQueue'.replayed = subs /\ Len(substLog') \in Nat
         /\ MatchEnd(input, substLog', subs) = at + Width
         /\ subs < Len(substLog') =>
              /\ at + Width <= substLog'[subs + 1][1]
              /\ ReplayMark(input, substLog', buf.length)
         /\ Written(input, substLog', at, Decided) = Written(input, substLog, at, Decided)
         /\ buf' = IF Replaced(input, substLog', subs) THEN buf
                   ELSE CheckMemCpy(Rewind(buf), Kept(at, at + Width))
         /\ global => pc' = "match" \/ ReplayMark(input, substLog', buf.length)
<1> DEFINE d == Decided
           longer == substLog'
<1>1. /\ at \in Nat /\ subs \in Nat /\ d \in Nat /\ input \in InputType /\ Width \in Nat
      /\ Len(substLog) \in Nat /\ SubstCount
  BY Positions DEF Working, Searching
<1>2. d = subs - 1 /\ subs = d + 1
  BY <1>1 DEF Decided
<1>3. ~buf.overflowed /\ substQueue.replayed = d /\ buf.length \in Nat /\ substLog \in AnswerLogs
  <2>1. buf.length \in Nat
    BY PassTypes DEF Inv, InPass, Passes
  <2> QED
    BY <1>1, <2>1 DEF SubstCount, SecondPass, Inv, TypeOK
<1> HIDE DEF d, longer
<1>4. /\ d \in 0..Len(substLog) /\ substQueue'.replayed = subs /\ subs <= Len(longer)
      /\ IF d < Len(substLog) THEN longer = substLog
         ELSE d = Len(substLog) /\ Extends(longer, substLog) /\ (global => pc' = "match")
      /\ longer[subs][1] = at
      /\ buf' = IF longer[subs][2] = "Pass" THEN buf
                ELSE CheckMemCpy(Rewind(buf), Kept(at, at + Width))
  BY <1>2, <1>3 DEF SubstAnswered, longer
<1>5. Len(longer) \in Nat
  BY <1>1, <1>4 DEF Extends
<1>6. Written(input, longer, at, d) = Written(input, substLog, at, d)
  BY <1>4, WrittenAlike
<1>7. Written(input, substLog, at, d) + Insertion(input) <= buf.length
  BY <1>2 DEF SecondPass, SecondRoom
<1>8. Enough(input, matchLog, longer, buf.length, m)
  <2>1. CASE d < Len(substLog)
    BY <1>4, <2>1
  <2>2. CASE ~(d < Len(substLog))
    <3>1. /\ Extends(longer, substLog) /\ Len(longer) = subs /\ Len(longer) <= m
          /\ d = Len(substLog)
      BY <1>2, <1>4, <2>2 DEF Extends
    <3>2. Written(input, substLog, longer[Len(longer)][1], Len(substLog)) + Insertion(input)
            <= buf.length
      BY <1>4, <1>7, <3>1
    <3> QED
      BY <1>1, <1>3, <3>1, <3>2, EnoughAnswered
  <2> QED
    BY <2>1, <2>2
<1>9. MatchEnd(input, longer, subs) = at + Width
  BY <1>1, <1>2, <1>4 DEF MatchEnd
<1>10. d < Len(substLog) => ReplayMark(input, longer, buf.length)
  BY <1>3, <1>4 DEF SecondPass
<1>11. subs < Len(longer) => d < Len(substLog) /\ at + Width <= longer[subs + 1][1]
  <2> SUFFICES ASSUME subs < Len(longer)
               PROVE  d < Len(substLog) /\ at + Width <= longer[subs + 1][1]
    OBVIOUS
  <2>1. d < Len(substLog) /\ longer = substLog
    BY <1>1, <1>2, <1>4 DEF Extends
  <2>2. subs + 1 \in 1..Len(substLog) /\ (subs + 1) - 1 = subs
    BY <1>1, <2>1
  <2>3. SubstFrom(subs) <= substLog[subs + 1][1]
    BY <2>2 DEF Inv, ReplayInv, SubstLogInv
  <2>4. SubstFrom(subs) = at + Width
    BY <1>1, <1>2, <1>4, <2>1 DEF SubstFrom
  <2> QED
    BY <2>1, <2>3, <2>4
<1> QED
  BY <1>4, <1>5, <1>6, <1>8, <1>9, <1>10, <1>11 DEF Replaced, d, longer

LEMMA SecondAnswered ==
  ASSUME Inv, ~input.faulty, AnswersInv, CountInv, SecondPass, Answered
  PROVE  pc' \in Working /\ SecondPass'
<1> DEFINE d == Decided
           longer == substLog'
           q == at + Width
           before == Written(input, substLog, at, d)
           limit == buf.length
<1>1. /\ pc = "callout" /\ pc \in Working /\ pos' = q /\ at' = q
      /\ pc' \in {"match", "tail"} /\ input' = input /\ UNCHANGED <<subs, matchLog>>
  BY AnsweredFacts DEF Working, Searching, driver, AnswersInv
<1>2. /\ at \in Nat /\ subs \in Nat /\ d \in Nat /\ input \in InputType /\ Width \in Nat
      /\ Len(substLog) \in Nat /\ Beyond(at, d) /\ Once /\ Placed
  BY <1>1, Positions
<1>3. d = subs - 1 /\ subs = d + 1 /\ q \in Nat
  BY <1>1, <1>2 DEF Decided
<1> HIDE DEF d
<1>4. PICK m \in Nat : Enough(input, matchLog, substLog, limit, m) /\ subs <= m
  BY DEF SecondPass
<1>5. /\ ~buf.overflowed /\ limit \in Nat /\ mark.offset \in Nat /\ Len(buf.out) \in Nat
      /\ mark.offset <= before /\ Len(buf.out) <= before + Insertion(input)
      /\ before + Insertion(input) <= limit
  <2>1. limit \in Nat /\ mark.offset \in Nat /\ Len(buf.out) \in Nat
    BY <1>1, Positions, PassTypes DEF Inv
  <2> QED
    BY <1>1, <1>3, <2>1 DEF SecondPass, SecondRoom
<1>6. /\ Enough(input, matchLog, longer, limit, m)
      /\ input.substCallout =>
           /\ subs <= Len(longer) /\ substQueue'.replayed = subs
           /\ q = MatchEnd(input, longer, subs)
           /\ subs < Len(longer) =>
                q <= longer[subs + 1][1] /\ ReplayMark(input, longer, limit)
      /\ Written(input, longer, at, d) = before
      /\ buf' = IF Replaced(input, longer, subs) THEN buf
                ELSE CheckMemCpy(Rewind(buf), Kept(at, q))
      /\ global => pc' = "match" \/ (input.substCallout /\ ReplayMark(input, longer, limit))
  <2>1. CASE ~input.substCallout
    <3>1. buf' = buf /\ (global => pc' = "match") /\ longer = substLog
      BY <2>1, AnsweredFacts DEF AnswersInv
    <3> QED
      BY <1>4, <2>1, <3>1 DEF Replaced
  <2>2. CASE input.substCallout
    <3>1. SubstAnswered
      BY <1>5, <2>2, AnsweredFacts DEF AnswersInv
    <3> HIDE DEF SubstAnswered
    <3> QED
      BY <1>1, <1>4, <2>2, <3>1, SecondSubstAnswered DEF d
  <2> QED
    BY <2>1, <2>2
<1>7. longer \in AnswerLogs
  <2>1. TypeOK'
    BY StepInv DEF Inv, Next, Answered
  <2> QED
    BY <2>1 DEF TypeOK
<1> HIDE DEF longer
<1> DEFINE after == Written(input, longer, q, subs)
<1>8. Beyond(q, subs) /\ after = before + IF Replaced(input, longer, subs) THEN Insertion(input)
                                          ELSE Room(input, Width)
  <2>1. Beyond(at + Width, d + 1)
    BY <1>2, WrittenSteps
  <2>2. Written(input, longer, at + Width, d + 1) =
          Written(input, longer, at, d) +
            IF Replaced(input, longer, d + 1) THEN Insertion(input) ELSE Room(input, Width)
    BY <1>2, WrittenSteps
  <2> QED
    BY <1>3, <1>6, <2>1, <2>2
<1>9. before \in Nat
  BY <1>2, WrittenSteps
<1>10. after \in Nat /\ after <= limit
  <2>1. Reaches(q, m - subs, End(input))
    BY <1>1, <1>4, Onward DEF Enough, Searching
  <2> QED
    BY <1>2, <1>3, <1>4, <1>5, <1>6, <1>7, <1>8, <2>1, FitsAhead
<1> HIDE DEF before
<1>11. ~buf'.overflowed /\ buf'.length = limit /\ Len(buf'.out) <= after
  <2>1. Insertion(input) \in Nat /\ Room(input, Width) \in Nat
    BY <1>2, SizeTypes
  <2> HIDE DEF after
  <2>2. CASE Replaced(input, longer, subs)
    BY <1>5, <1>6, <1>8, <2>2
  <2>3. CASE ~Replaced(input, longer, subs)
    <3> DEFINE b == CheckMemCpy(Rewind(buf), Kept(at, at + Width))
    <3>1. /\ b.length = buf.length /\ Need(b) = mark.offset + Room(input, Width)
          /\ b.overflowed <=> mark.offset + Room(input, Width) > buf.length
      BY <1>1, <1>5, RejectedBuffer
    <3>2. buf' = b
      BY <1>6, <2>3
    <3> HIDE DEF b
    <3>3. ~b.overflowed
      BY <1>5, <1>8, <1>9, <1>10, <2>1, <2>3, <3>1
    <3> QED
      BY <1>5, <1>8, <1>9, <2>1, <2>3, <3>1, <3>2, <3>3 DEF Need
  <2> QED
    BY <2>2, <2>3
<1>12. pc' = "tail" => Written(input, longer, End(input), subs) + 1 <= limit
  <2> SUFFICES ASSUME pc' = "tail"
               PROVE  Written(input, longer, End(input), subs) + 1 <= limit
    OBVIOUS
  <2>1. CASE ~global
    <3>1. ~input.global
      BY <1>1, <2>1 DEF AnswersInv, GlobalKept, Searching
    <3>2. m = subs
      BY <1>2, <1>3, <1>4, <3>1 DEF Enough, Outlook
    <3>3. input.substCallout => Len(longer) = m
      <4>1. Len(longer) \in Nat /\ Len(longer) <= m
        BY <1>6, <1>7, LogEntries DEF Enough, Outlook
      <4> QED
        BY <1>6, <3>2, <4>1
    <3> QED
      BY <1>2, <1>5, <1>6, <3>2, <3>3, FitsAtEnd
  <2>2. CASE global
    <3>1. End(input) = input.length /\ 1 <= input.length /\ q <= End(input)
      <4>1. at + Width <= input.length
        BY <1>1, <1>2 DEF Placed
      <4> QED
        BY <1>1, <4>1, EndIsLength
    <3>2. input.substCallout /\ ReplayMark(input, longer, limit)
      BY <1>6, <2>2
    <3> QED
      BY <1>2, <1>3, <1>4, <1>5, <1>6, <1>7, <1>8, <3>1, <3>2, FitsAtAbort
  <2> QED
    BY <2>1, <2>2
<1>13. SecondRoom'
  <2>1. Written(input', substLog', pos', subs') = after
    BY <1>1 DEF longer
  <2>2. pc' = "tail" => Written(input', substLog', End(input'), subs') + 1 <= limit
    BY <1>1, <1>12 DEF longer
  <2> HIDE DEF after
  <2> QED
    BY <1>1, <1>11, <2>1, <2>2 DEF SecondRoom
<1>14. Enough(input', matchLog', substLog', buf'.length, m) /\ subs' <= m
  BY <1>1, <1>4, <1>6, <1>11 DEF longer
<1>15. input'.substCallout /\ substQueue'.replayed < Len(substLog') =>
         ReplayMark(input', substLog', buf'.length)
  BY <1>1, <1>6, <1>11 DEF longer
<1> QED
  BY <1>1, <1>11, <1>13, <1>14, <1>15 DEF SecondPass, Working, Searching

LEMMA SecondFinish ==
  ASSUME Inv, CountInv, SecondPass, FinishPass
  PROVE  rc' >= 0
<1>1. pc = "tail" /\ pc \in Working
  BY DEF FinishPass, Working
<1>2. /\ input \in InputType /\ pos \in Nat /\ subs \in Nat /\ Decided = subs
      /\ Beyond(pos, Decided) /\ End(input) - pos \in Nat
      /\ pos + (End(input) - pos) = End(input)
  BY <1>1, Positions DEF Decided
<1>3. /\ ~buf.overflowed /\ buf.length \in Nat /\ Len(buf.out) \in Nat
      /\ Len(buf.out) <= Written(input, substLog, pos, subs)
      /\ Written(input, substLog, End(input), subs) + 1 <= buf.length
  <2>1. buf.length \in Nat /\ Len(buf.out) \in Nat
    BY <1>1, Positions, PassTypes DEF Inv
  <2> QED
    BY <1>1, <2>1 DEF SecondPass, SecondRoom
<1> DEFINE n == Room(input, End(input) - pos)
<1>4. /\ n \in Nat /\ (~buf.overflowed /\ Need(buf) + n + 1 <= buf.length => rc' = subs)
  <2>1. input.start <= pos /\ pos <= End(input)
    BY <1>1, Positions
  <2> QED
    BY <1>1, <2>1, TailBuffer
<1>5. Written(input, substLog, End(input), subs) = Written(input, substLog, pos, subs) + n
  BY <1>2, WrittenGrows
<1>6. Written(input, substLog, pos, subs) \in Nat
  BY <1>2, WrittenSteps
<1> HIDE DEF n
<1>7. Need(buf) + n + 1 <= buf.length
  BY <1>3, <1>4, <1>5, <1>6 DEF Need
<1> QED
  BY <1>2, <1>3, <1>4, <1>7

-----------------------------------------------------------------------------
(* Retrying.                                                               *)

LEMMA WrittenIsInt ==
  ASSUME NEW c \in InputType, NEW log, NEW p \in Int, NEW j \in Nat
  PROVE  Written(c, log, p, j) \in Int
<1> DEFINE a == Accepted(c, log, j)
           k == p - j * Width
           r == (j - a) * Width
<1>1. Insertion(c) \in Nat /\ Width \in Nat /\ Worst(c) \in Nat
  BY SizeTypes
<1>2. a \in Nat
  BY PassedBound DEF Accepted
<1>3. k \in Int /\ r \in Int /\ a * Insertion(c) \in Int /\ 0 * Worst(c) = 0
  BY <1>1, <1>2
<1>4. Written(c, log, p, j) = Room(c, k) + a * Insertion(c) + Room(c, r) + 0
  BY <1>3 DEF Written, Size
<1> HIDE DEF a, k, r
<1>5. Room(c, k) \in Int /\ Room(c, r) \in Int
  BY <1>3 DEF Room
<1> QED
  BY <1>3, <1>4, <1>5

LEMMA MarksOfLargerBuffer ==
  ASSUME NEW c \in InputType, NEW log \in AnswerLogs, NEW n \in Nat, NEW limit \in Nat
  PROVE  /\ n <= limit /\ HighMark(c, log, n) => HighMark(c, log, limit)
         /\ n <= limit /\ ReplayMark(c, log, n) => ReplayMark(c, log, limit)
<1>1. Insertion(c) \in Nat /\ Width \in Nat /\ Len(log) \in Nat
      /\ \A j \in 1..Len(log) : log[j][1] \in Nat
  BY SizeTypes, LogEntries
<1>2. ASSUME n <= limit, HighMark(c, log, n), NEW j \in 1..Len(log)
      PROVE  Written(c, log, log[j][1], j - 1) + Insertion(c) <= limit
  <2>1. Written(c, log, log[j][1], j - 1) \in Int
    BY <1>1, WrittenIsInt
  <2>2. Written(c, log, log[j][1], j - 1) + Insertion(c) <= n
    BY <1>2 DEF HighMark
  <2> QED
    BY <1>1, <1>2, <2>1, <2>2
<1>3. ASSUME n <= limit, ReplayMark(c, log, n), NEW j \in 1..(Len(log) - 1)
      PROVE  2 * Written(c, log, log[j][1] + Width, j) <= limit
  <2>1. j \in 1..Len(log)
    BY <1>1
  <2>2. Written(c, log, log[j][1] + Width, j) \in Int
    BY <1>1, <2>1, WrittenIsInt
  <2>3. 2 * Written(c, log, log[j][1] + Width, j) <= n
    BY <1>3 DEF ReplayMark
  <2> QED
    BY <1>1, <1>3, <2>2, <2>3
<1> QED
  BY <1>2, <1>3 DEF HighMark, ReplayMark

(* What the first pass leaves when it has not succeeded.                   *)
Asked ==
  /\ rc = PCRE2_ERROR_NOMEMORY
  /\ Outlook(input, matchLog, substLog, subs)
  /\ Promise(input, substLog, End(input), subs) + 1 <= outputLength
  /\ HighMark(input, substLog, bufferLength)
  /\ ReplayMark(input, substLog, 2 * bufferLength)

Granted ==
  /\ ReplayMark(input, substLog, outputLength)
  /\ \E m \in Nat : Enough(input, matchLog, substLog, outputLength, m)

(* The driver gives the second pass a buffer that is large enough.         *)
LEMMA AskedIsGranted ==
  ASSUME Inv, Plain, Asked, AllocateExact \/ AllocateLarger, pc' = "call"
  PROVE  Granted'
<1>1. /\ input \in InputType /\ outputLength \in Nat /\ bufferLength \in Nat
      /\ substLog \in AnswerLogs /\ input.length \in Nat
  BY SubstituteAssumption, InputIsTyped DEF Inv, TypeOK
<1>2. UNCHANGED <<input, matchLog, substLog>> /\ subs \in Nat
  BY DEF AllocateExact, AllocateLarger, engine, history, Asked, Outlook
<1>3. \/ ~HasCallout /\ outputLength' = outputLength
      \/ outputLength' = GrownBuffer
  BY DEF AllocateExact, AllocateLarger
<1>4. /\ outputLength' \in Nat /\ outputLength <= outputLength'
      /\ HasCallout => /\ 2 * bufferLength <= outputLength' /\ bufferLength <= outputLength'
                       /\ 2 * input.length <= outputLength'
  BY <1>1, <1>3 DEF GrownBuffer, MaxSize
<1>5. HighMark(input, substLog, outputLength') /\ ReplayMark(input, substLog, outputLength')
  <2>1. CASE HasCallout
    <3>1. 2 * bufferLength \in Nat
      BY <1>1
    <3> QED
      BY <1>1, <1>4, <2>1, <3>1, MarksOfLargerBuffer DEF Asked
  <2>2. CASE ~HasCallout
    <3>1. substLog = << >>
      BY <2>2 DEF HasCallout, Inv, Plain, ReplayInv, SubstLogInv
    <3> QED
      BY <3>1 DEF HighMark, ReplayMark
  <2> QED
    BY <2>1, <2>2
<1> DEFINE promise == Promise(input, substLog, End(input), subs)
<1>6. promise \in Nat
  <2>1. Beyond(End(input), subs) /\ End(input) \in Nat
    <3>1. Place(input, subs) <= End(input)
      BY DEF Asked, Outlook
    <3>2. subs * Width \in Nat /\ End(input) \in Nat /\ input.start \in Nat
      BY <1>1, <1>2, Places, SizeTypes, Times
    <3> QED
      BY <3>1, <3>2 DEF Place, Beyond
  <2>2. Counted(input, substLog, subs)
    BY <1>1, LogEntries DEF Asked, Outlook, Counted
  <2> QED
    BY <1>1, <1>2, <2>1, <2>2, PromiseSteps
<1>7. promise + 1 <= outputLength'
  <2>1. promise + 1 <= outputLength
    BY DEF Asked
  <2> HIDE DEF promise
  <2> QED
    BY <1>1, <1>4, <1>6, <2>1
<1>8. Enough(input, matchLog, substLog, outputLength', subs)
  BY <1>4, <1>5, <1>7 DEF Asked, Enough, HasCallout
<1> QED
  BY <1>2, <1>5, <1>8 DEF Granted

-----------------------------------------------------------------------------
(* Both passes.                                                            *)

Fresh ==
  calls = 0 /\ matchLog = << >> /\ substLog = << >> /\ outputLength = bufferLength

PassesInv ==
  /\ calls <= 2
  /\ pc = "call" => Fresh \/ (calls = 1 /\ Granted)
  /\ pc \in Working => (calls = 1 /\ FirstPass) \/ (calls = 2 /\ SecondPass)
  /\ pc = "returned" => rc >= 0 \/ (calls = 1 /\ Asked)

LEMMA PassesInit == Init => AnswersInv /\ CountInv /\ PassesInv
<1> SUFFICES ASSUME Init PROVE AnswersInv /\ CountInv /\ PassesInv
  OBVIOUS
<1>1. /\ pc = "call" /\ calls = 0 /\ matchLog = << >> /\ substLog = << >>
      /\ Len(matchLog) = 0 /\ Len(substLog) = 0 /\ outputLength = bufferLength
  BY DEF Init
<1>2. AnswersInv
  <2>1. MatchesFollow(input, matchLog)
    <3>1. input.start \in Nat /\ Width \in Nat
      BY SubstituteAssumption DEF Init, InputType
    <3>2. Passed(matchLog, 0) - Passed(matchLog, 0) = 0
      BY PassedBound
    <3>3. Reaches(input.start, 0, input.start)
      BY <3>1 DEF Reaches
    <3> QED
      BY <1>1, <3>2, <3>3 DEF MatchesFollow, After
  <2> QED
    BY <1>1, <2>1 DEF AnswersInv, AnswersReplayed, MatchesFit, GlobalKept, Searching
<1>3. CountInv
  BY <1>1 DEF CountInv, Working, Searching
<1> QED
  BY <1>1, <1>2, <1>3 DEF PassesInv, Fresh, Working, Searching

LEMMA EngineFrame ==
  ASSUME Inv, EngineStep
  PROVE  /\ calls' = calls /\ pc' \in InPass
         /\ pc \in Working
BY EngineStepIsPassStep
  DEF Inv, PassStep, driver, InPass, Passes, Working, Searching

LEMMA FirstStep ==
  ASSUME Inv, Plain, AnswersInv, CountInv, calls = 1, FirstPass, EngineStep
  PROVE  \/ pc' \in Working /\ FirstPass'
         \/ pc' = "returned" /\ (rc' >= 0 \/ Asked')
<1>1. CASE FinishPass
  <2>1. /\ pc' = "returned"
        /\ UNCHANGED <<input, subs, bufferLength, matchLog, substLog>>
    BY <1>1 DEF FinishPass, driver, history
  <2> QED
    BY <1>1, <2>1, FirstFinish DEF Asked
<1>2. ~SearchFails
  BY DEF SearchFails, Plain
<1> QED
  BY <1>1, <1>2, FirstTried, FirstNoMatch, FirstCased, FirstAnswered DEF EngineStep, Plain

LEMMA SecondStep ==
  ASSUME Inv, Plain, AnswersInv, CountInv, SecondPass, EngineStep
  PROVE  \/ pc' \in Working /\ SecondPass'
         \/ pc' = "returned" /\ rc' >= 0
<1>1. ~SearchFails /\ (FinishPass => pc' = "returned")
  BY DEF SearchFails, FinishPass, Plain
<1> QED
  BY <1>1, SecondTried, SecondNoMatch, SecondCased, SecondAnswered, SecondFinish
    DEF EngineStep, Plain

LEMMA PassesStep ==
  ASSUME Inv, Plain, AnswersInv, CountInv, PassesInv, [Next]_vars
  PROVE  PassesInv'
<1>1. CASE CallSubstitute
  <2>1. pc = "call"
    BY <1>1 DEF CallSubstitute
  <2>2. CASE Fresh
    <3>1. calls' = 1 /\ pc' \in Working /\ FirstPass'
      BY <1>1, <2>2, FirstCall DEF Fresh
    <3> QED
      BY <3>1 DEF PassesInv, Working, Searching
  <2>3. CASE calls = 1 /\ Granted
    <3>1. calls' = 2 /\ pc' \in Working /\ SecondPass'
      BY <1>1, <2>3, SecondCall DEF Granted, Plain
    <3> QED
      BY <3>1 DEF PassesInv, Working, Searching
  <2> QED
    BY <2>1, <2>2, <2>3 DEF PassesInv
<1>2. CASE EngineStep
  <2>1. calls' = calls /\ pc' \in InPass /\ pc \in Working
    BY <1>2, EngineFrame
  <2>2. CASE calls = 1 /\ FirstPass
    BY <1>2, <2>1, <2>2, FirstStep DEF PassesInv, Working, Searching
  <2>3. CASE calls = 2 /\ SecondPass
    BY <1>2, <2>1, <2>3, SecondStep DEF PassesInv, Working, Searching
  <2> QED
    BY <2>1, <2>2, <2>3 DEF PassesInv
<1>3. CASE DriverStep
  <2>1. pc' \in {"call", "managed", "done"} /\ calls' = calls
    BY <1>3, DriverStepFrame DEF Inv
  <2> SUFFICES ASSUME pc' = "call"
               PROVE  calls = 1 /\ Granted'
    BY <2>1 DEF PassesInv, Working, Searching
  <2>2. (AllocateExact \/ AllocateLarger) /\ pc = "returned" /\ rc = PCRE2_ERROR_NOMEMORY
    BY <1>3 DEF DriverStep, Succeeded, Failed, AllocateExact, AllocateLarger, CanRetry, Return
  <2>3. calls = 1 /\ Asked
    BY <2>2 DEF PassesInv, PCRE2_ERROR_NOMEMORY
  <2> QED
    BY <2>2, <2>3, AskedIsGranted
<1>4. CASE UNCHANGED vars
  <2>1. Decided' = Decided
    BY <1>4 DEF vars, Decided
  <2> QED
    BY <1>4, <2>1 DEF vars, PassesInv, Fresh, Granted, Asked, FirstPass, FirstAnswers, FirstRoom,
                  SecondPass, SecondRoom
<1> QED
  BY <1>1, <1>2, <1>3, <1>4 DEF Next, EngineStep, DriverStep, Tried, Cased, Answered, Done

-----------------------------------------------------------------------------
FitInv == Plain => AnswersInv /\ CountInv /\ PassesInv

LEMMA FitStep == Inv /\ FitInv /\ [Next]_vars => FitInv'
<1> SUFFICES ASSUME Inv, FitInv, [Next]_vars, Plain'
             PROVE  AnswersInv' /\ CountInv' /\ PassesInv'
  BY DEF FitInv
<1>1. Plain
  BY LogsFrame DEF Plain
<1>2. AnswersInv /\ CountInv /\ PassesInv /\ ~input.faulty
  BY <1>1 DEF FitInv, Plain
<1> QED
  BY <1>1, <1>2, AnswersStep, CountStep, PassesStep

LEMMA FitInvariance == Spec => []FitInv
<1>1. Init => FitInv
  BY PassesInit DEF FitInv
<1> QED
  BY <1>1, FitStep, Invariance, PTL DEF Spec

(* Without a case callout, and when nothing fails, no call takes a third   *)
(* pass: whatever the subject, the buffer and the answers of the callouts, *)
(* what pcre2_substitute asks for in the first one is enough for the       *)
(* second.                                                                 *)
THEOREM SubstituteTwoPassesAreEnough == Spec => []TwoPassesAreEnough
<1>1. FitInv => TwoPassesAreEnough
  BY DEF FitInv, Plain, PassesInv, TwoPassesAreEnough
<1> QED
  BY <1>1, FitInvariance, PTL

-----------------------------------------------------------------------------
(* The size of every pass, with a case callout or without.                 *)

LEMMA NatMin ==
  ASSUME NEW T, T \subseteq Nat, T # {}
  PROVE  \E n \in T : \A m \in T : n <= m
<1>1. IsWellFoundedOn(OpToRel(<,Nat), Nat)
  BY NatLessThanWellFounded
<1>2. PICK n \in T : \A m \in T : ~(<<m, n>> \in OpToRel(<,Nat))
  BY <1>1, WFMin
<1>3. ASSUME NEW m \in T PROVE n <= m
  <2>1. ~(m < n)
    BY <1>2 DEF OpToRel
  <2> QED
    BY <2>1
<1> QED
  BY <1>3

(* What the first p units of the subject may ask for.                      *)
Most(c, n, p) == p * UnitCost(c, n)

LEMMA CostTypes ==
  ASSUME NEW c \in InputType, NEW n \in Nat
  PROVE  /\ UnitCost(c, n) \in Nat /\ MostNeeded(c, n) \in Nat
         /\ PessimisticCaseInflation(Insertion(c)) \in Nat
         /\ UnitCost(c, n) =
              1 + Width + Insertion(c) + n + PessimisticCaseInflation(Insertion(c))
         /\ MostNeeded(c, n) = Most(c, n, End(c) + 1) /\ End(c) \in Nat
<1>1. /\ c.replacement \in Nat /\ c.start \in Nat /\ c.length \in Nat /\ Width \in Nat
      /\ CaseSlack \in Nat
  BY SubstituteAssumption DEF InputType
<1>2. PessimisticCaseInflation(c.replacement) \in Nat
  BY <1>1 DEF PessimisticCaseInflation
<1>3. UnitCost(c, n) \in Nat
  BY <1>1, <1>2 DEF UnitCost
<1>4. MaxSize(c.start, c.length) = End(c) /\ End(c) \in Nat
  BY <1>1 DEF MaxSize, End
<1>5. (End(c) + 1) * UnitCost(c, n) \in Nat
  BY <1>3, <1>4, Times
<1> QED
  BY <1>2, <1>3, <1>4, <1>5 DEF MostNeeded, Most, UnitCost, Insertion

LEMMA MostSteps ==
  ASSUME NEW c \in InputType, NEW n \in Nat, NEW p \in Nat, NEW k \in Nat
  PROVE  /\ Most(c, n, p) \in Nat /\ Most(c, n, p) + k <= Most(c, n, p + k)
         /\ k >= 1 => Most(c, n, p) + UnitCost(c, n) <= Most(c, n, p + k)
<1> DEFINE u == UnitCost(c, n)
<1>1. u \in Nat /\ u >= 1
  <2>1. /\ Width \in Nat /\ Insertion(c) \in Nat
        /\ PessimisticCaseInflation(Insertion(c)) \in Nat
        /\ u = 1 + Width + Insertion(c) + n + PessimisticCaseInflation(Insertion(c))
    BY CostTypes, SizeTypes
  <2> QED
    BY <2>1
<1> HIDE DEF u
<1>2. p * u \in Nat /\ k * u \in Nat /\ (p + k) * u = p * u + k * u
  BY <1>1, Times, TimesMonotone
<1>3. k <= k * u
  BY <1>1, Times
<1>4. k >= 1 => u <= k * u
  <2>1. ASSUME k >= 1 PROVE u <= k * u
    <3>1. u <= u * k /\ u * k = k * u
      BY <1>1, <2>1, Times
    <3> QED
      BY <3>1
  <2> QED
    BY <2>1
<1>5. Most(c, n, p) = p * u /\ Most(c, n, p + k) = (p + k) * u /\ UnitCost(c, n) = u
  BY DEF Most, u
<1> QED
  BY <1>1, <1>2, <1>3, <1>4, <1>5

(* A bound of what a case callout returns, for which every call is small.  *)
Bounds(n) ==
  /\ \A k \in CaseLengths : k <= n
  /\ \A c \in Inputs : 2 * MostNeeded(c, n) < PCRE2_UNSET

LEMMA CaseLengthsAreBounded == Inputs # {} => \E n \in Nat : Bounds(n)
<1> SUFFICES ASSUME NEW c \in Inputs
             PROVE  \E n \in Nat : Bounds(n)
  OBVIOUS
<1> DEFINE T == {n \in Nat : \A k \in CaseLengths : k <= n}
<1>1. CaseLengths \subseteq Nat /\ c \in InputType /\ Inputs \subseteq InputType
  BY SubstituteAssumption
<1>2. PCRE2_UNSET \in T
  <2> SUFFICES ASSUME NEW k \in CaseLengths
               PROVE  k <= PCRE2_UNSET
    BY SubstituteAssumption
  <2>1. 2 * MostNeeded(c, k) < PCRE2_UNSET
    BY SizeAssumption
  <2>2. k \in Nat /\ MostNeeded(c, k) = Most(c, k, End(c) + 1) /\ End(c) \in Nat
    BY <1>1, CostTypes
  <2>3. Most(c, k, End(c)) \in Nat /\ Most(c, k, End(c)) + UnitCost(c, k) <= MostNeeded(c, k)
    BY <1>1, <2>2, MostSteps
  <2>4. k <= UnitCost(c, k) /\ UnitCost(c, k) \in Nat
    <3>1. /\ Width \in Nat /\ Insertion(c) \in Nat
          /\ PessimisticCaseInflation(Insertion(c)) \in Nat
          /\ UnitCost(c, k) = 1 + Width + Insertion(c) + k + PessimisticCaseInflation(Insertion(c))
      BY <1>1, <2>2, CostTypes, SizeTypes
    <3> QED
      BY <2>2, <3>1
  <2>5. MostNeeded(c, k) \in Nat
    BY <1>1, <2>2, CostTypes
  <2> QED
    BY SubstituteAssumption, <2>1, <2>2, <2>3, <2>4, <2>5
<1>3. PICK n \in T : \A m \in T : n <= m
  BY <1>2, NatMin
<1>4. n \in CaseLengths \cup {0}
  <2> SUFFICES ASSUME n # 0, n \notin CaseLengths
               PROVE  FALSE
    OBVIOUS
  <2>1. n - 1 \in T
    BY <1>1
  <2> QED
    BY <1>3, <2>1
<1> QED
  BY <1>4, SizeAssumption DEF Bounds

(* The longest text a case callout returns.                                *)
Longest == CHOOSE n \in Nat : Bounds(n)

Cost(c) == UnitCost(c, Longest)

(* What the first p units of the subject may ask for.                      *)
Budget(c, p) == Most(c, Longest, p)

LEMMA BudgetSteps ==
  ASSUME NEW c \in Inputs
  PROVE  /\ Longest \in Nat /\ \A k \in CaseLengths : k \in Nat /\ k <= Longest
         /\ PessimisticCaseInflation(Insertion(c)) \in Nat
         /\ Cost(c) = 1 + Width + Insertion(c) + Longest + PessimisticCaseInflation(Insertion(c))
         /\ Cost(c) \in Nat
         /\ \A p \in Nat, k \in Nat :
              /\ Budget(c, p) \in Nat /\ Budget(c, p) + k <= Budget(c, p + k)
              /\ k >= 1 => Budget(c, p) + Cost(c) <= Budget(c, p + k)
<1>1. Longest \in Nat /\ Bounds(Longest)
  BY CaseLengthsAreBounded DEF Longest
<1>2. c \in InputType /\ CaseLengths \subseteq Nat
  BY SubstituteAssumption
<1>3. \A p \in Nat, k \in Nat :
        /\ Budget(c, p) \in Nat /\ Budget(c, p) + k <= Budget(c, p + k)
        /\ k >= 1 => Budget(c, p) + Cost(c) <= Budget(c, p + k)
  BY <1>1, <1>2, MostSteps DEF Budget, Cost
<1> QED
  BY <1>1, <1>2, <1>3, CostTypes DEF Bounds, Cost

LEMMA CheckMemCpyTidy ==
  ASSUME NEW b \in PassBuffers, NEW text \in Seq(Tokens), Len(b.out) <= b.length,
         ~b.overflowed => b.extra = 0
  PROVE  LET c == CheckMemCpy(b, text) IN
         /\ c.extra \in Nat /\ Len(c.out) \in Nat /\ b.extra <= c.extra
         /\ ~c.overflowed => c.extra = 0
         /\ (Len(c.out) - Len(b.out)) + (c.extra - b.extra) <= Len(text)
<1> DEFINE left == b.length - Len(b.out)
<1>1. /\ Len(text) \in Nat /\ Len(b.out) \in Nat /\ b.length \in Nat /\ b.extra \in Nat
      /\ b.overflowed \in BOOLEAN /\ b.out \in Seq(Tokens)
  BY LenProperties DEF PassBuffers
<1>2. CASE b.overflowed
  <2> DEFINE c == [b EXCEPT !.extra = b.extra + Len(text)]
  <2>1. CheckMemCpy(b, text) = c
    BY <1>2 DEF CheckMemCpy
  <2>2. c.out = b.out /\ c.overflowed = b.overflowed /\ c.extra = b.extra + Len(text)
    BY DEF PassBuffers
  <2> HIDE DEF c
  <2> QED
    BY <1>1, <1>2, <2>1, <2>2
<1>3. CASE ~b.overflowed /\ left < Len(text)
  <2> DEFINE c == [b EXCEPT !.overflowed = TRUE, !.extra = Len(text) - left]
  <2>1. CheckMemCpy(b, text) = c
    BY <1>3 DEF CheckMemCpy
  <2>2. c.out = b.out /\ c.overflowed = TRUE /\ c.extra = Len(text) - left
    BY DEF PassBuffers
  <2> HIDE DEF c
  <2> QED
    BY <1>1, <1>3, <2>1, <2>2
<1>4. CASE ~b.overflowed /\ ~(left < Len(text))
  <2> DEFINE c == [b EXCEPT !.out = b.out \o text]
  <2>1. CheckMemCpy(b, text) = c
    BY <1>4 DEF CheckMemCpy
  <2>2. Len(b.out \o text) = Len(b.out) + Len(text)
    BY <1>1, ConcatProperties
  <2>3. c.out = b.out \o text /\ c.overflowed = b.overflowed /\ c.extra = b.extra
    BY DEF PassBuffers
  <2> HIDE DEF c
  <2> QED
    BY <1>1, <1>4, <2>1, <2>2, <2>3
<1> QED
  BY <1>2, <1>3, <1>4, <1>1

(* Nothing extra is asked for before the buffer overflows.                 *)
Tidy == ~buf.overflowed => buf.extra = 0

LEMMA MatchedTidy ==
  ASSUME Inv, pc = "match", pos <= at, Tidy, Matched
  PROVE  /\ Tidy' /\ mark'.extra <= buf'.extra
         /\ InsertedLength(buf)' <= Insertion(input)
<1> DEFINE before == CheckMemCpy(buf, Kept(pos, at))
           after == CheckMemCpy(before, Inserted(at, input.replacement))
<1>1. TypeOK /\ HeapInv /\ pc \in InPass /\ input \in InputType
  BY SubstituteAssumption DEF Inv, TypeOK, InPass, Passes
<1>2. buf \in PassBuffers /\ Len(buf.out) <= buf.length /\ pos \in Nat /\ at \in Nat
  BY <1>1, PassTypes
<1>3. Kept(pos, at) \in Seq(Tokens)
  BY <1>2, KeptLength
<1>4. /\ Inserted(at, input.replacement) \in Seq(Tokens)
      /\ Len(Inserted(at, input.replacement)) = Insertion(input)
  BY <1>1, <1>2, InsertedLengths
<1>5. before \in PassBuffers /\ Len(before.out) <= before.length
  BY <1>2, <1>3, CheckMemCpyFits
<1>6. ~before.overflowed => before.extra = 0
  BY <1>2, <1>3, CheckMemCpyTidy DEF Tidy
<1> HIDE DEF before
<1>7. /\ before.extra <= after.extra /\ (~after.overflowed => after.extra = 0)
      /\ (Len(after.out) - Len(before.out)) + (after.extra - before.extra) <= Insertion(input)
  BY <1>4, <1>5, <1>6, CheckMemCpyTidy
<1>8. buf' = after /\ mark' = [offset |-> Len(before.out), extra |-> before.extra]
  BY DEF Matched, Write, before
<1> HIDE DEF after
<1>9. mark'.offset = Len(before.out) /\ mark'.extra = before.extra
  BY <1>8
<1> QED
  BY <1>7, <1>8, <1>9 DEF Tidy, InsertedLength

Paced ==
  pc \in Working => input.start <= pos /\ pos <= at /\ pos <= End(input) /\ Tidy

(* A pass never asks for more than what the subject it has seen may.       *)
WithinBudget ==
  /\ pc \in {"match", "tail"} => Need(buf) <= Budget(input, pos)
  /\ pc \in {"case", "callout"} =>
       /\ at + Width <= input.length /\ mark.extra <= buf.extra
       /\ ~buf.overflowed => mark.offset <= Budget(input, at)
  /\ pc = "case" =>
       /\ InsertedLength(buf) <= Insertion(input)
       /\ Need(buf) <= Budget(input, at) + Insertion(input)
  /\ pc = "callout" => Need(buf) + Width < Budget(input, at) + Cost(input)

(* With callouts bufferLength is the length of the pass's buffer.          *)
SameLength ==
  HasCallout =>
    /\ pc = "call" => outputLength = bufferLength
    /\ pc \in InPass => buf.length = bufferLength

AskedWithin ==
  pc = "returned" /\ rc = PCRE2_ERROR_NOMEMORY /\ OverflowLength(calls) =>
    /\ outputLength <= MostNeeded(input, Longest)
    /\ buf.length <= MostNeeded(input, Longest)

SizeInv == Paced /\ WithinBudget /\ SameLength /\ AskedWithin

LEMMA PassPlaces ==
  ASSUME Inv, Paced, pc \in Working
  PROVE  /\ input \in Inputs /\ input \in InputType /\ pos \in Nat /\ at \in Nat
         /\ input.start \in Nat /\ input.length \in Nat /\ End(input) \in Nat
         /\ input.length <= End(input) /\ Width \in Nat /\ Width >= 1
         /\ at - pos \in Nat /\ pos + (at - pos) = at
         /\ Need(buf) \in Nat /\ buf \in PassBuffers /\ Len(buf.out) <= buf.length
         /\ buf.extra \in Nat /\ buf.length \in Nat /\ Len(buf.out) \in Nat
         /\ mark.offset \in Nat /\ mark.extra \in Nat
         /\ pc \in {"case", "callout"} => mark.offset <= Len(buf.out)
         /\ Budget(input, pos) \in Nat /\ Budget(input, at) \in Nat /\ Cost(input) \in Nat
<1>1. TypeOK /\ HeapInv /\ pc \in InPass /\ input \in Inputs /\ input \in InputType
  BY SubstituteAssumption DEF Inv, TypeOK, InPass, Passes, Working, Searching
<1>2. /\ pos \in Nat /\ at \in Nat /\ buf \in PassBuffers /\ Len(buf.out) <= buf.length
      /\ buf.extra \in Nat /\ buf.length \in Nat /\ Len(buf.out) \in Nat
      /\ mark.offset \in Nat /\ mark.extra \in Nat
      /\ pc \in {"case", "callout"} => mark.offset <= Len(buf.out)
  BY <1>1, PassTypes
<1>3. /\ input.start \in Nat /\ input.length \in Nat /\ End(input) \in Nat
      /\ input.length <= End(input) /\ Width \in Nat /\ Width >= 1
  BY <1>1, Places
<1>4. at - pos \in Nat /\ pos + (at - pos) = at
  BY <1>2 DEF Paced
<1>5. Need(buf) \in Nat
  BY <1>2 DEF Need
<1>6. Budget(input, pos) \in Nat /\ Budget(input, at) \in Nat /\ Cost(input) \in Nat
  BY <1>1, <1>2, BudgetSteps
<1> QED
  BY <1>1, <1>2, <1>3, <1>4, <1>5, <1>6

LEMMA SizeTried ==
  ASSUME Inv, ~input.faulty, Paced, WithinBudget, Tried
  PROVE  Paced' /\ WithinBudget'
<1>1. /\ pc = "match" /\ pc \in Working /\ at + Width <= input.length /\ UNCHANGED <<input, pos>>
  BY TriedFacts DEF driver, Working, Searching
<1>2. \/ Matched
      \/ /\ UNCHANGED <<buf, mark>> /\ at' \in {at, at + 1} /\ pc' \in {"match", "tail"}
  BY TriedFacts
<1>3. /\ input \in Inputs /\ input \in InputType /\ pos \in Nat /\ at \in Nat
      /\ at - pos \in Nat /\ pos + (at - pos) = at /\ Need(buf) \in Nat
      /\ Budget(input, pos) \in Nat /\ Budget(input, at) \in Nat
      /\ input.start <= pos /\ pos <= at /\ pos <= End(input) /\ Tidy
      /\ Need(buf) <= Budget(input, pos)
  BY <1>1, PassPlaces DEF Paced, WithinBudget
<1>4. CASE ~Matched
  <2>1. /\ UNCHANGED <<buf, mark, input, pos>> /\ at' \in {at, at + 1}
        /\ pc' \in {"match", "tail"}
    BY <1>1, <1>2, <1>4
  <2>2. pos <= at'
    BY <1>3, <2>1
  <2>3. Paced'
    BY <1>3, <2>1, <2>2 DEF Paced, Tidy
  <2>4. WithinBudget'
    BY <1>3, <2>1 DEF WithinBudget
  <2> QED
    BY <2>3, <2>4
<1>5. CASE Matched
  <2> DEFINE room == Need(buf) + Room(input, at - pos)
  <2>1. /\ Room(input, at - pos) \in Nat /\ Insertion(input) \in Nat
        /\ Need(buf') = room + Insertion(input)
        /\ ~buf'.overflowed => mark'.offset = room
        /\ at' = at
    BY <1>1, <1>3, <1>5, MatchedBuffer
  <2>2. Room(input, at - pos) <= at - pos
    BY <1>3, SizeTypes
  <2>3. Budget(input, pos) + (at - pos) <= Budget(input, at)
    <3>1. Budget(input, pos) + (at - pos) <= Budget(input, pos + (at - pos))
      BY <1>3, BudgetSteps
    <3> QED
      BY <1>3, <3>1
  <2>4. room <= Budget(input, at) /\ room \in Nat
    BY <1>3, <2>1, <2>2, <2>3
  <2> HIDE DEF room
  <2>5. pc' \in {"case", "returned"}
    BY <1>5 DEF Matched, Write
  <2>6. Tidy' /\ mark'.extra <= buf'.extra /\ InsertedLength(buf)' <= Insertion(input)
    BY <1>1, <1>3, <1>5, MatchedTidy
  <2>7. Paced'
    BY <1>1, <1>3, <2>1, <2>6 DEF Paced
  <2>8. Need(buf') <= Budget(input, at) + Insertion(input)
    BY <1>3, <2>1, <2>4
  <2>9. WithinBudget'
    BY <1>1, <2>1, <2>4, <2>5, <2>6, <2>8 DEF WithinBudget
  <2> QED
    BY <2>7, <2>9
<1> QED
  BY <1>4, <1>5

LEMMA SizeCased ==
  ASSUME Inv, Paced, WithinBudget, Cased
  PROVE  Paced' /\ WithinBudget'
<1>1. /\ pc = "case" /\ pc \in Working /\ pc' \in {"callout", "returned"}
      /\ UNCHANGED <<input, mark, pos, at>>
  BY DEF Cased, SkipForceCase, GuessCase, RunCaseCallout, driver, engine, Working, Searching
<1>2. /\ input \in Inputs /\ input \in InputType /\ pos \in Nat /\ at \in Nat /\ Width \in Nat
      /\ Need(buf) \in Nat /\ Budget(input, at) \in Nat
      /\ buf \in PassBuffers /\ Len(buf.out) <= buf.length
      /\ buf.extra \in Nat /\ buf.length \in Nat /\ Len(buf.out) \in Nat
      /\ mark.offset \in Nat /\ mark.extra \in Nat /\ mark.offset <= Len(buf.out)
  BY <1>1, PassPlaces
<1>3. /\ input.start <= pos /\ pos <= at /\ pos <= End(input) /\ Tidy
      /\ at + Width <= input.length /\ mark.extra <= buf.extra
      /\ ~buf.overflowed => mark.offset <= Budget(input, at)
      /\ InsertedLength(buf) <= Insertion(input)
      /\ Need(buf) <= Budget(input, at) + Insertion(input)
  BY <1>1 DEF Paced, WithinBudget
<1> DEFINE guess == PessimisticCaseInflation(Insertion(input))
<1>4. /\ Longest \in Nat /\ guess \in Nat /\ Insertion(input) \in Nat
      /\ Cost(input) = 1 + Width + Insertion(input) + Longest + guess
  BY <1>2, BudgetSteps, SizeTypes
<1>5. SUFFICES ASSUME pc' = "callout"
               PROVE  /\ Tidy' /\ mark.extra <= buf'.extra
                      /\ ~buf'.overflowed => ~buf.overflowed
                      /\ Need(buf') <= Budget(input, at) + Insertion(input) + Longest + guess
                      /\ Need(buf') \in Nat
  <2>1. CASE pc' = "callout"
    <3>1. /\ Tidy' /\ mark.extra <= buf'.extra
          /\ ~buf'.overflowed => mark.offset <= Budget(input, at)
          /\ Need(buf') <= Budget(input, at) + Insertion(input) + Longest + guess
          /\ Need(buf') \in Nat
      BY <1>3, <1>5, <2>1
    <3>2. Need(buf') + Width < Budget(input, at) + Cost(input)
      BY <1>2, <1>4, <3>1
    <3> QED
      BY <1>1, <1>3, <2>1, <3>1, <3>2 DEF Paced, WithinBudget
  <2>2. CASE pc' = "returned"
    BY <2>2 DEF Paced, WithinBudget, Working, Searching
  <2> QED
    BY <1>1, <2>1, <2>2
<1> HIDE DEF guess
<1>6. CASE SkipForceCase
  <2>1. buf' = buf
    BY <1>6 DEF SkipForceCase, engine
  <2> QED
    BY <1>2, <1>3, <1>4, <2>1 DEF Tidy
<1>7. CASE GuessCase
  <2> DEFINE g == PessimisticCaseInflation(InsertedLength(buf))
             b == [buf EXCEPT !.extra = buf.extra + g]
  <2>1. buf' = b /\ buf.overflowed /\ InsertedLength(buf) > 0
    BY <1>7 DEF GuessCase
  <2>2. InsertedLength(buf) \in Nat
    BY <1>2, <2>1 DEF InsertedLength
  <2>3. g \in Nat /\ g <= guess
    BY SubstituteAssumption, <1>3, <1>4, <2>2 DEF PessimisticCaseInflation, guess
  <2> HIDE DEF g
  <2>4. b.length = buf.length /\ b.extra = buf.extra + g /\ b.overflowed
    BY <2>1 DEF PassBuffers
  <2> HIDE DEF b
  <2>5. Need(buf) = buf.length + buf.extra /\ Need(buf') = buf.length + buf.extra + g
    BY <1>2, <2>1, <2>3, <2>4 DEF Need
  <2>6. buf'.extra = buf.extra + g /\ buf'.overflowed
    BY <2>1, <2>4
  <2>7. mark.extra <= buf'.extra
    BY <1>2, <1>3, <2>3, <2>6
  <2>8. Need(buf') = Need(buf) + g /\ Need(buf) \in Nat /\ Budget(input, at) \in Nat
    BY <1>2, <2>3, <2>5
  <2>9. Need(buf) <= Budget(input, at) + Insertion(input)
    BY <1>3
  <2>10. /\ Need(buf') \in Nat
         /\ Need(buf') <= Budget(input, at) + Insertion(input) + Longest + guess
    BY <1>4, <2>3, <2>8, <2>9
  <2> QED
    BY <2>1, <2>6, <2>7, <2>10 DEF Tidy
<1>8. CASE RunCaseCallout
  <2>1. PICK n \in CaseLengths : buf' = CheckMemCpy(Rewind(buf), Inserted(at, n))
    BY <1>5, <1>8 DEF RunCaseCallout
  <2>2. ~buf.overflowed
    BY <1>8 DEF RunCaseCallout
  <2>3. n \in Nat /\ n <= Longest
    BY <1>2, BudgetSteps
  <2> DEFINE back == Rewind(buf)
             text == Inserted(at, n)
  <2>4. /\ back \in PassBuffers /\ back.length = buf.length /\ ~back.overflowed
        /\ Len(back.out) = mark.offset
    BY <1>2, <2>2, RewindFits
  <2>5. back.extra = buf.extra
    BY <1>2 DEF Rewind, PassBuffers
  <2>6. text \in Seq(Tokens) /\ Len(text) = n
    <3>1. text \in Seq(Tokens)
      BY <1>2, <2>3, InsertedText
    <3>2. text \in [1..n -> Tokens]
      BY <1>2, <2>3 DEF Inserted, Tokens
    <3>3. Len(text) = IF n < 0 THEN 0 ELSE n
      BY <2>3, <3>2, TextLength
    <3> QED
      BY <2>3, <3>1, <3>3
  <2> HIDE DEF back, text
  <2>7. buf' = CheckMemCpy(back, text) /\ Len(back.out) <= back.length /\ back.extra = 0
    BY <1>2, <1>3, <2>1, <2>2, <2>4, <2>5 DEF back, text, Tidy
  <2>8. Need(buf') = Need(back) + Len(text) /\ Need(back) \in Nat
    BY <2>4, <2>6, <2>7, CheckMemCpyNeeds
  <2>9. Need(back) = mark.offset
    BY <2>4 DEF Need
  <2>10. buf'.extra \in Nat /\ (~buf'.overflowed => buf'.extra = 0)
    <3> DEFINE b == CheckMemCpy(back, text)
    <3>1. b.extra \in Nat /\ (~b.overflowed => b.extra = 0)
      BY <2>4, <2>6, <2>7, CheckMemCpyTidy
    <3> HIDE DEF b
    <3>2. buf' = b
      BY <2>7 DEF b
    <3> QED
      BY <3>1, <3>2
  <2>11. mark.extra = 0
    BY <1>2, <1>3, <2>2 DEF Tidy
  <2>12. /\ Need(buf') \in Nat
         /\ Need(buf') <= Budget(input, at) + Insertion(input) + Longest + guess
    <3>1. Need(buf') = mark.offset + n /\ mark.offset \in Nat
      BY <1>2, <2>6, <2>8, <2>9
    <3>2. mark.offset <= Budget(input, at) /\ Budget(input, at) \in Nat
      BY <1>2, <1>3, <2>2
    <3> QED
      BY <1>4, <2>3, <3>1, <3>2
  <2>13. mark.extra <= buf'.extra
    BY <2>10, <2>11
  <2> QED
    BY <2>2, <2>10, <2>12, <2>13 DEF Tidy
<1> QED
  BY <1>6, <1>7, <1>8 DEF Cased

(* What a substitution callout, or skipping it, makes of the buffer.       *)
LEMMA AnsweredBuffer ==
  ASSUME Inv, Answered
  PROVE  /\ pc = "callout" /\ pos' = at + Width /\ at' = at + Width
         /\ pc' \in {"match", "tail"} /\ UNCHANGED <<input, mark, rc>>
         /\ \/ buf' = buf
            \/ AssumeWorstCase
            \/ /\ ~buf.overflowed
               /\ buf' = CheckMemCpy(Rewind(buf), Kept(at, at + Width))
<1>1. CASE SkipSubstCallout \/ AssumeWorstCase
  BY <1>1 DEF SkipSubstCallout, AssumeWorstCase, NextMatch, driver
<1>2. CASE ReplaySubstCallout \/ RunSubstCallout
  <2>1. PICK result : AfterSubstCallout(result)
    BY <1>2 DEF ReplaySubstCallout, RunSubstCallout
  <2>2. pc = "callout" /\ ~buf.overflowed
    BY <1>2 DEF ReplaySubstCallout, RunSubstCallout
  <2> QED
    BY <2>1, <2>2 DEF AfterSubstCallout, NextMatch, driver
<1> QED
  BY <1>1, <1>2 DEF Answered

LEMMA SizeAnswered ==
  ASSUME Inv, Paced, WithinBudget, Answered
  PROVE  Paced' /\ WithinBudget'
<1>1. /\ pc = "callout" /\ pc \in Working /\ pos' = at + Width /\ at' = at + Width
      /\ pc' \in {"match", "tail"} /\ input' = input
  BY AnsweredBuffer DEF Working, Searching
<1>2. /\ input \in Inputs /\ input \in InputType /\ at \in Nat /\ pos \in Nat
      /\ Width \in Nat /\ Width >= 1
      /\ input.start \in Nat /\ input.length \in Nat /\ End(input) \in Nat
      /\ input.length <= End(input)
      /\ Need(buf) \in Nat /\ Budget(input, at) \in Nat /\ Cost(input) \in Nat
      /\ buf \in PassBuffers /\ Len(buf.out) <= buf.length
      /\ buf.extra \in Nat /\ buf.length \in Nat /\ Len(buf.out) \in Nat
      /\ mark.offset \in Nat /\ mark.extra \in Nat /\ mark.offset <= Len(buf.out)
  BY <1>1, PassPlaces
<1>3. /\ input.start <= pos /\ pos <= at /\ Tidy
      /\ at + Width <= input.length /\ mark.extra <= buf.extra
      /\ ~buf.overflowed => mark.offset <= Budget(input, at)
      /\ Need(buf) + Width < Budget(input, at) + Cost(input)
  BY <1>1 DEF Paced, WithinBudget
<1>4. Budget(input, at) + Cost(input) <= Budget(input, at + Width)
  <2>1. input \in Inputs /\ at \in Nat /\ Width \in Nat /\ Width >= 1
    BY <1>2
  <2> QED
    BY <2>1, BudgetSteps
<1>0. Budget(input, at + Width) \in Nat
  <2>1. input \in Inputs /\ at + Width \in Nat /\ 0 \in Nat
    BY <1>2
  <2> QED
    BY <2>1, BudgetSteps
<1>5. SUFFICES Need(buf') \in Nat /\ Tidy' /\ Need(buf') < Budget(input, at) + Cost(input)
  <2>1. Need(buf') <= Budget(input, at + Width)
    <3>1. Need(buf') \in Nat /\ Need(buf') < Budget(input, at) + Cost(input)
      BY <1>5
    <3>2. Budget(input, at) \in Nat /\ Cost(input) \in Nat
      BY <1>2
    <3> QED
      BY <1>0, <1>4, <3>1, <3>2
  <2>2. /\ input.start <= at + Width /\ at + Width <= at + Width /\ at + Width <= End(input)
    <3>1. /\ at \in Nat /\ pos \in Nat /\ Width \in Nat /\ input.start \in Nat
          /\ input.length \in Nat /\ End(input) \in Nat /\ input.length <= End(input)
      BY <1>2
    <3>2. input.start <= pos /\ pos <= at /\ at + Width <= input.length
      BY <1>3
    <3> QED
      BY <3>1, <3>2
  <2>3. Paced'
    BY <1>1, <1>5, <2>2 DEF Paced
  <2>4. pc' \notin {"case", "callout"} /\ Budget(input, pos)' = Budget(input, at + Width)
    BY <1>1
  <2>5. WithinBudget'
    BY <2>1, <2>4 DEF WithinBudget
  <2> QED
    BY <2>3, <2>5
<1>6. CASE buf' = buf
  BY <1>2, <1>3, <1>6 DEF Tidy
<1>7. CASE AssumeWorstCase
  <2> DEFINE spare == Width - InsertedLength(buf)
             extra == IF spare > 0 THEN buf.extra + spare ELSE buf.extra
             b == [buf EXCEPT !.extra = extra]
  <2>1. buf' = b /\ buf.overflowed
    BY <1>7 DEF AssumeWorstCase, NextMatch
  <2>2. spare \in Int /\ spare <= Width
    <3> DEFINE n == InsertedLength(buf)
    <3>1. /\ Len(buf.out) \in Nat /\ mark.offset \in Nat /\ mark.offset <= Len(buf.out)
          /\ buf.extra \in Nat /\ mark.extra \in Nat /\ mark.extra <= buf.extra
      BY <1>2, <1>3
    <3>2. n \in Nat
      BY <3>1 DEF InsertedLength
    <3> HIDE DEF n
    <3>3. Width \in Nat /\ spare = Width - n
      BY <1>2 DEF n
    <3> QED
      BY <3>2, <3>3
  <2> HIDE DEF spare
  <2>3. extra \in Nat /\ extra <= buf.extra + Width
    <3>1. buf.extra \in Nat /\ Width \in Nat
      BY <1>2
    <3>2. CASE spare > 0
      BY <2>2, <3>1, <3>2
    <3>3. CASE ~(spare > 0)
      BY <3>1, <3>3
    <3> QED
      BY <3>2, <3>3
  <2> HIDE DEF extra
  <2>4. b.length = buf.length /\ b.extra = extra /\ b.overflowed
    BY <1>2, <2>1 DEF PassBuffers
  <2> HIDE DEF b
  <2>5. Need(buf') = buf.length + extra /\ Need(buf) = buf.length + buf.extra
    BY <2>1, <2>4 DEF Need
  <2>6. Tidy'
    BY <2>1, <2>4 DEF Tidy
  <2>7. Need(buf') <= Need(buf) + Width /\ Need(buf') \in Nat
    <3>1. buf.extra \in Nat /\ buf.length \in Nat /\ Width \in Nat
      BY <1>2
    <3> QED
      BY <2>3, <2>5, <3>1
  <2>8. Need(buf') < Budget(input, at) + Cost(input)
    <3>1. /\ Need(buf) \in Nat /\ Width \in Nat /\ Budget(input, at) \in Nat
          /\ Cost(input) \in Nat
      BY <1>2
    <3>2. Need(buf) + Width < Budget(input, at) + Cost(input)
      BY <1>3
    <3> QED
      BY <2>7, <3>1, <3>2
  <2> QED
    BY <2>6, <2>7, <2>8
<1>8. CASE ~buf.overflowed /\ buf' = CheckMemCpy(Rewind(buf), Kept(at, at + Width))
  <2> DEFINE b == CheckMemCpy(Rewind(buf), Kept(at, at + Width))
             back == Rewind(buf)
             text == Kept(at, at + Width)
  <2>1. Need(b) = mark.offset + Room(input, Width)
    BY <1>1, <1>8, RejectedBuffer
  <2>2. Room(input, Width) \in Nat /\ Room(input, Width) <= Width
    BY <1>2, SizeTypes
  <2>3. /\ back \in PassBuffers /\ back.length = buf.length /\ ~back.overflowed
        /\ Len(back.out) = mark.offset
    BY <1>2, <1>8, RewindFits
  <2>4. back.extra = 0
    BY <1>2, <1>3, <1>8 DEF Rewind, PassBuffers, Tidy
  <2>5. text \in Seq(Tokens)
    BY <1>2, KeptText
  <2>6. b = CheckMemCpy(back, text) /\ Len(back.out) <= back.length
    BY <1>2, <2>3
  <2> HIDE DEF back, text
  <2>7. ~b.overflowed => b.extra = 0
    BY <2>3, <2>4, <2>5, <2>6, CheckMemCpyTidy
  <2>8. buf' = b
    BY <1>8
  <2> HIDE DEF b
  <2>9. Tidy'
    BY <2>7, <2>8 DEF Tidy
  <2>10. Width < Cost(input)
    <3>1. /\ Longest \in Nat /\ PessimisticCaseInflation(Insertion(input)) \in Nat
          /\ Insertion(input) \in Nat
          /\ Cost(input) = 1 + Width + Insertion(input) + Longest
                             + PessimisticCaseInflation(Insertion(input))
      BY <1>2, BudgetSteps, SizeTypes
    <3> QED
      BY <1>2, <3>1
  <2>11. mark.offset <= Budget(input, at) /\ mark.offset \in Nat /\ Budget(input, at) \in Nat
    BY <1>2, <1>3, <1>8
  <2>12. Need(buf') = mark.offset + Room(input, Width)
    BY <2>1, <2>8
  <2>13. Width \in Nat /\ Cost(input) \in Nat
    BY <1>2
  <2>14. Need(buf') \in Nat /\ Need(buf') < Budget(input, at) + Cost(input)
    BY <2>2, <2>10, <2>11, <2>12, <2>13
  <2> QED
    BY <2>9, <2>14
<1> QED
  BY <1>6, <1>7, <1>8, AnsweredBuffer

LEMMA SizeFinish ==
  ASSUME Inv, Paced, WithinBudget, FinishPass
  PROVE  Paced' /\ WithinBudget' /\ AskedWithin'
<1>1. pc = "tail" /\ pc \in Working /\ pc' = "returned" /\ UNCHANGED <<input, calls, pos>>
  BY DEF FinishPass, driver, Working
<1>2. /\ input \in Inputs /\ input \in InputType /\ pos \in Nat /\ End(input) \in Nat
      /\ Need(buf) \in Nat /\ Budget(input, pos) \in Nat /\ input.start <= pos
      /\ pos <= End(input) /\ Need(buf) <= Budget(input, pos)
  BY <1>1, PassPlaces DEF Paced, WithinBudget
<1>3. Paced' /\ WithinBudget'
  BY <1>1 DEF Paced, WithinBudget, Working, Searching
<1> DEFINE rest == End(input) - pos
           room == Need(buf) + Room(input, rest) + 1
<1>4. /\ Room(input, rest) \in Nat
      /\ \/ rc' = subs
         \/ OverflowLength(calls) => outputLength' = room /\ buf'.length <= room
  BY <1>1, <1>2, TailBuffer
<1>5. rest \in Nat /\ pos + rest = End(input)
  BY <1>2
<1>6. Room(input, rest) <= rest
  BY <1>2, <1>5, SizeTypes
<1> HIDE DEF rest
<1>7. Budget(input, pos) + rest <= Budget(input, End(input)) /\ Budget(input, End(input)) \in Nat
  <2>1. Budget(input, pos) + rest <= Budget(input, pos + rest)
    BY <1>2, <1>5, BudgetSteps
  <2>2. Budget(input, End(input)) \in Nat
    BY <1>2, <1>5, BudgetSteps
  <2> QED
    BY <1>5, <2>1, <2>2
<1>8. /\ Budget(input, End(input)) + 1 <= MostNeeded(input, Longest)
      /\ MostNeeded(input, Longest) \in Nat
  <2>1. Longest \in Nat /\ 1 \in Nat
    BY <1>2, BudgetSteps
  <2>2. MostNeeded(input, Longest) = Budget(input, End(input) + 1)
    BY <1>2, <2>1, CostTypes DEF Budget
  <2>3. Budget(input, End(input)) + 1 <= Budget(input, End(input) + 1)
    BY <1>2, <2>1, BudgetSteps
  <2>4. End(input) + 1 \in Nat
    BY <1>2
  <2>5. Budget(input, End(input) + 1) \in Nat
    BY <1>2, <2>1, <2>4, BudgetSteps
  <2> QED
    BY <2>2, <2>3, <2>5
<1>9. room <= MostNeeded(input, Longest) /\ room \in Nat
  BY <1>2, <1>4, <1>5, <1>6, <1>7, <1>8
<1> HIDE DEF room
<1>10. subs \in Nat /\ buf'.length \in Nat
  <2>1. Inv' /\ subs \in Nat
    BY StepInv DEF Inv, TypeOK, Next
  <2> QED
    BY <2>1 DEF Inv, TypeOK
<1>11. AskedWithin'
  <2>1. CASE rc' = subs
    BY <1>10, <2>1 DEF AskedWithin, PCRE2_ERROR_NOMEMORY
  <2>2. CASE OverflowLength(calls) => outputLength' = room /\ buf'.length <= room
    <3> SUFFICES ASSUME OverflowLength(calls)'
                 PROVE  /\ outputLength' <= MostNeeded(input, Longest)
                        /\ buf'.length <= MostNeeded(input, Longest)
      BY <1>1 DEF AskedWithin
    <3>1. OverflowLength(calls)
      BY <1>1 DEF OverflowLength, HasCallout
    <3>2. outputLength' = room /\ buf'.length <= room
      BY <2>2, <3>1
    <3> QED
      BY <1>8, <1>9, <1>10, <3>2
  <2> QED
    BY <1>4, <2>1, <2>2
<1> QED
  BY <1>3, <1>11

LEMMA SizeCall ==
  ASSUME Inv, SameLength, CallSubstitute
  PROVE  SizeInv'
<1> DEFINE n == Room(input, input.start)
<1>1. /\ n \in Nat /\ Need(buf') = n /\ buf'.length = outputLength
      /\ ~buf'.overflowed \/ OverflowLength(calls') => pc' = "match"
      /\ pc = "call" /\ pos' = input.start /\ at' = input.start
      /\ UNCHANGED <<input, bufferLength>>
  BY CallBuffer
<1>2. input \in Inputs /\ input \in InputType /\ input.start \in Nat /\ input.start <= End(input)
      /\ outputLength \in Nat
  BY SubstituteAssumption, InputIsTyped, Places DEF Inv, TypeOK
<1>3. n <= input.start
  BY <1>2, SizeTypes
<1> HIDE DEF n
<1>4. Budget(input, input.start) \in Nat /\ input.start <= Budget(input, input.start)
  <2>1. 0 \in Nat /\ 0 + input.start = input.start
    BY <1>2
  <2>2. /\ Budget(input, 0) + input.start <= Budget(input, 0 + input.start)
        /\ Budget(input, 0) \in Nat /\ Budget(input, input.start) \in Nat
    BY <1>2, <2>1, BudgetSteps
  <2> QED
    BY <1>2, <2>1, <2>2
<1>5. Tidy'
  <2> DEFINE e == EmptyBuffer(outputLength)
             text == Kept(0, input.start)
             b == CheckMemCpy(e, text)
  <2>1. e \in PassBuffers /\ Len(e.out) <= e.length /\ e.extra = 0
    BY <1>2, EmptyBufferFits DEF EmptyBuffer
  <2>2. text \in Seq(Tokens)
    BY <1>2, KeptText
  <2> HIDE DEF e, text
  <2>3. ~b.overflowed => b.extra = 0
    BY <2>1, <2>2, CheckMemCpyTidy
  <2>4. buf' = b
    BY DEF CallSubstitute, Write, e, text
  <2> HIDE DEF b
  <2> QED
    BY <2>3, <2>4 DEF Tidy
<1>6. pc' \in {"match", "returned"}
  BY DEF CallSubstitute, Write
<1>7. Paced'
  BY <1>1, <1>2, <1>5 DEF Paced
<1>8. WithinBudget'
  <2>1. Need(buf') <= Budget(input, input.start)
    BY <1>1, <1>2, <1>3, <1>4
  <2> QED
    BY <1>1, <1>6, <2>1 DEF WithinBudget
<1>9. SameLength'
  BY <1>1, <1>6 DEF SameLength, HasCallout
<1>10. AskedWithin'
  <2>1. OverflowLength(calls') => pc' # "returned"
    BY <1>1
  <2> QED
    BY <1>1, <2>1 DEF AskedWithin, OverflowLength, HasCallout
<1> QED
  BY <1>7, <1>8, <1>9, <1>10 DEF SizeInv

LEMMA SizeEngineStep ==
  ASSUME Inv, ~input.faulty, SizeInv, EngineStep
  PROVE  SizeInv'
<1>1. /\ pc \in Working /\ pc \in InPass /\ pc' \in InPass /\ pc' # "call"
      /\ UNCHANGED <<input, calls, bufferLength>> /\ buf'.length = buf.length
  BY EngineStepIsPassStep DEF Inv, PassStep, BufferStep, driver, InPass, Passes, Working, Searching
<1>2. SameLength'
  BY <1>1 DEF SizeInv, SameLength, HasCallout
<1>3. UNCHANGED OverflowLength(calls)
  BY <1>1 DEF OverflowLength, HasCallout
<1>4. CASE Tried
  <2>1. Paced' /\ WithinBudget'
    BY <1>4, SizeTried DEF SizeInv
  <2>2. pc' = "returned" => ~OverflowLength(calls)
    BY <1>4, TriedFacts DEF Matched, Write
  <2> QED
    BY <1>2, <1>3, <2>1, <2>2 DEF SizeInv, AskedWithin
<1>5. CASE NoMatch
  <2>1. /\ pc = "match" /\ pc' = "tail" /\ UNCHANGED <<buf, pos, at, input>>
    BY <1>5 DEF NoMatch, engine, driver
  <2>2. Paced' /\ WithinBudget' /\ AskedWithin'
    BY <1>1, <2>1 DEF SizeInv, Paced, WithinBudget, AskedWithin, Tidy
  <2> QED
    BY <1>2, <2>2 DEF SizeInv
<1>6. CASE SearchFails
  BY <1>6 DEF SearchFails
<1>7. CASE Cased
  <2>1. Paced' /\ WithinBudget'
    BY <1>7, SizeCased DEF SizeInv
  <2>2. pc' = "returned" => rc' = PCRE2_ERROR_REPLACECASE
    BY <1>7 DEF Cased, SkipForceCase, GuessCase, RunCaseCallout
  <2>3. AskedWithin'
    BY <2>2 DEF AskedWithin, PCRE2_ERROR_NOMEMORY, PCRE2_ERROR_REPLACECASE
  <2> QED
    BY <1>2, <2>1, <2>3 DEF SizeInv
<1>8. CASE Answered
  <2>1. Paced' /\ WithinBudget'
    BY <1>8, SizeAnswered DEF SizeInv
  <2>2. pc' # "returned"
    BY <1>8, AnsweredBuffer
  <2> QED
    BY <1>2, <2>1, <2>2 DEF SizeInv, AskedWithin
<1>9. CASE FinishPass
  BY <1>2, <1>9, SizeFinish DEF SizeInv
<1> QED
  BY <1>4, <1>5, <1>6, <1>7, <1>8, <1>9 DEF EngineStep

LEMMA SizeDriverStep ==
  ASSUME Inv, SizeInv, DriverStep
  PROVE  SizeInv'
<1>1. /\ pc' \in {"call", "managed", "done"} /\ input' = input /\ pc' \notin Working
  BY DriverStepFrame DEF Inv, Working, Searching
<1>2. HasCallout' = HasCallout
  BY <1>1 DEF HasCallout
<1>3. HasCallout /\ pc' = "call" => outputLength' = bufferLength'
  BY DEF DriverStep, Succeeded, Failed, AllocateExact, AllocateLarger, Return
<1>4. pc' \notin InPass
  BY <1>1 DEF InPass, Passes
<1> QED
  BY <1>1, <1>2, <1>3, <1>4 DEF SizeInv, Paced, WithinBudget, SameLength, AskedWithin

LEMMA SizeInit == Init => SizeInv
<1> SUFFICES ASSUME Init PROVE SizeInv
  OBVIOUS
<1>1. pc = "call" /\ outputLength = bufferLength
  BY DEF Init
<1>2. pc \notin Working /\ pc \notin InPass
  BY <1>1 DEF Working, Searching, InPass, Passes
<1> QED
  BY <1>1, <1>2 DEF SizeInv, Paced, WithinBudget, SameLength, AskedWithin

LEMMA SizeStep ==
  ASSUME Inv, ~input.faulty, SizeInv, [Next]_vars
  PROVE  SizeInv'
<1>1. CASE CallSubstitute
  BY <1>1, SizeCall DEF SizeInv
<1>2. CASE EngineStep
  BY <1>2, SizeEngineStep
<1>3. CASE DriverStep
  BY <1>3, SizeDriverStep
<1>4. CASE UNCHANGED vars
  <2>1. UNCHANGED <<input, pc, buf, mark, pos, at, outputLength, bufferLength, rc, calls>>
    BY <1>4 DEF vars
  <2>2. UNCHANGED <<Paced, WithinBudget, SameLength, AskedWithin>>
    BY <2>1 DEF Paced, WithinBudget, SameLength, AskedWithin, Tidy, HasCallout,
                InsertedLength, OverflowLength
  <2> QED
    BY <2>2 DEF SizeInv
<1> QED
  BY <1>1, <1>2, <1>3, <1>4 DEF Next, EngineStep, DriverStep, Tried, Cased, Answered, Done

-----------------------------------------------------------------------------
(* The errors the caller sees.                                             *)

(* What a negative return code means, from the pass that gave it on.       *)
Failure ==
  \/ rc \in SearchErrors /\ input.faulty
  \/ rc = PCRE2_ERROR_REPLACECASE /\ (exn \/ "null" \in CaseFailures)
  \/ rc = PCRE2_ERROR_NOMEMORY /\ (pc = "returned" \/ input.faulty)

ErrorInv ==
  /\ pc \in {"returned", "managed", "done"} /\ rc < 0 => Failure
  /\ pc = "done" /\ outcome.kind = "error" => ~exn /\ rc < 0

LEMMA ErrorCallOrEngineStep ==
  ASSUME Inv, CallSubstitute \/ EngineStep
  PROVE  ErrorInv'
<1>1. pc' \in InPass /\ pc' # "done" /\ pc' # "managed" /\ input' = input
  <2>1. CASE CallSubstitute
    BY <2>1 DEF CallSubstitute, Write, InPass, Passes
  <2>2. CASE EngineStep
    BY <2>2, EngineStepIsPassStep DEF Inv, PassStep, driver, InPass, Passes
  <2> QED
    BY <2>1, <2>2
<1>2. SUFFICES ASSUME pc' = "returned", rc' < 0
               PROVE  Failure'
  BY <1>1 DEF ErrorInv
<1>3. CASE CallSubstitute
  <2>1. rc' = PCRE2_ERROR_NOMEMORY
    BY <1>2, <1>3 DEF CallSubstitute, Write
  <2> QED
    BY <1>2, <2>1 DEF Failure
<1>4. CASE Tried
  <2>1. pc = "match" /\ (Matched \/ \E result : AfterMatchCallout(result))
    <3>1. CASE MatchWithoutCallout
      BY <3>1 DEF MatchWithoutCallout, CanMatch
    <3>2. CASE ReplayMatchCallout
      BY <3>2 DEF ReplayMatchCallout, CanMatch
    <3>3. CASE RunMatchCallout
      BY <3>3 DEF RunMatchCallout, CanMatch
    <3> QED
      BY <1>4, <3>1, <3>2, <3>3 DEF Tried
  <2>2. Matched
    BY <1>2, <2>1 DEF AfterMatchCallout
  <2>3. rc' = PCRE2_ERROR_NOMEMORY
    BY <1>2, <2>2 DEF Matched, Write
  <2> QED
    BY <1>2, <2>3 DEF Failure
<1>5. CASE NoMatch
  BY <1>2, <1>5 DEF NoMatch
<1>6. CASE SearchFails
  <2>1. rc' \in SearchErrors /\ input.faulty
    BY <1>6 DEF SearchFails
  <2> QED
    BY <1>1, <2>1 DEF Failure
<1>7. CASE Cased
  <2>1. PICK f \in CaseFailures : exn' = (exn \/ f = "throw") /\ rc' = PCRE2_ERROR_REPLACECASE
    BY <1>2, <1>7 DEF Cased, SkipForceCase, GuessCase, RunCaseCallout
  <2>2. exn' \/ "null" \in CaseFailures
    BY <2>1, SubstituteAssumption
  <2> QED
    BY <2>1, <2>2 DEF Failure
<1>8. CASE Answered
  BY <1>2, <1>8, AnsweredBuffer
<1>9. CASE FinishPass
  <2>1. subs \in Nat
    BY DEF Inv, TypeOK
  <2>2. rc' = PCRE2_ERROR_NOMEMORY
    BY <1>2, <1>9, <2>1 DEF FinishPass
  <2> QED
    BY <1>2, <2>2 DEF Failure
<1> QED
  BY <1>3, <1>4, <1>5, <1>6, <1>7, <1>8, <1>9 DEF EngineStep

(* An allocation that asks for what a call may need succeeds.              *)
LEMMA AllocationSucceeds ==
  ASSUME Inv, ~input.faulty, SizeInv, AllocateExact \/ AllocateLarger
  PROVE  pc' = "call"
<1>1. pc = "returned" /\ CanRetry /\ rc = PCRE2_ERROR_NOMEMORY
  BY DEF AllocateExact, AllocateLarger, CanRetry
<1>2. OverflowLength(calls)
  BY <1>1 DEF CanRetry, OverflowLength
<1> DEFINE most == MostNeeded(input, Longest)
<1>3. outputLength <= most /\ buf.length <= most
  BY <1>1, <1>2 DEF SizeInv, AskedWithin
<1>4. /\ input \in Inputs /\ input \in InputType /\ outputLength \in Nat /\ bufferLength \in Nat
      /\ input.length \in Nat /\ input.length <= End(input)
  BY SubstituteAssumption, InputIsTyped, Places, 0 \in Nat DEF Inv, TypeOK
<1>5. Longest \in Nat /\ Bounds(Longest)
  BY <1>4, CaseLengthsAreBounded DEF Longest
<1>6. most \in Nat /\ 2 * most < PCRE2_UNSET /\ PCRE2_UNSET \in Nat
  BY <1>4, <1>5, CostTypes, SubstituteAssumption DEF Bounds
<1>7. input.length <= most
  <2>1. End(input) \in Nat /\ MostNeeded(input, Longest) = Most(input, Longest, End(input) + 1)
    BY <1>4, <1>5, CostTypes
  <2>2. End(input) + 1 \in Nat /\ 0 \in Nat /\ 0 + (End(input) + 1) = End(input) + 1
    BY <2>1
  <2>3. /\ Most(input, Longest, 0) \in Nat
        /\ Most(input, Longest, 0) + (End(input) + 1) <= Most(input, Longest, 0 + (End(input) + 1))
    BY <1>4, <1>5, <2>2, MostSteps
  <2> QED
    BY <1>4, <1>6, <2>1, <2>2, <2>3
<1> HIDE DEF most
<1>8. ~(outputLength >= PCRE2_UNSET)
  BY <1>3, <1>4, <1>6
<1>9. CASE AllocateExact
  BY <1>8, <1>9 DEF AllocateExact, Malloc
<1>10. CASE AllocateLarger
  <2>1. HasCallout /\ pc \in InPass
    BY <1>1, <1>10 DEF AllocateLarger, InPass, Passes
  <2>2. bufferLength <= most
    BY <1>3, <2>1 DEF SizeInv, SameLength
  <2>3. ~(GrownBuffer >= PCRE2_UNSET)
    BY <1>3, <1>4, <1>6, <1>7, <2>2 DEF GrownBuffer, MaxSize
  <2> QED
    BY <1>10, <2>3 DEF AllocateLarger, Malloc
<1> QED
  BY <1>9, <1>10

LEMMA ErrorDriverStep ==
  ASSUME Inv, ErrorInv, FitInv, ~input.faulty => SizeInv, DriverStep
  PROVE  ErrorInv'
<1>1. UNCHANGED <<input, rc, exn>> /\ pc' \in {"call", "managed", "done"}
  BY DriverStepFrame DEF Inv
<1>2. CASE Succeeded
  BY <1>1, <1>2 DEF Succeeded, ErrorInv, Inv, TypeOK
<1>3. CASE Failed
  <2>1. pc = "returned" /\ pc' = "managed" /\ rc < 0 /\ ~CanRetry
    BY <1>3 DEF Failed
  <2>2. Failure
    BY <2>1 DEF ErrorInv
  <2>3. rc = PCRE2_ERROR_NOMEMORY => input.faulty
    <3> SUFFICES ASSUME rc = PCRE2_ERROR_NOMEMORY, ~input.faulty
                 PROVE  FALSE
      OBVIOUS
    <3>1. ~HasCallout /\ calls # 1
      BY <2>1 DEF CanRetry
    <3>2. Plain
      BY <3>1 DEF Plain, HasCallout
    <3>3. rc >= 0 \/ calls = 1
      BY <2>1, <3>2 DEF FitInv, PassesInv
    <3> QED
      BY <3>1, <3>3 DEF PCRE2_ERROR_NOMEMORY
  <2> QED
    BY <1>1, <2>1, <2>2, <2>3 DEF ErrorInv, Failure
<1>4. CASE AllocateExact \/ AllocateLarger
  <2>1. rc = PCRE2_ERROR_NOMEMORY /\ pc' \in {"call", "managed"}
    BY <1>1, <1>4 DEF AllocateExact, AllocateLarger, CanRetry
  <2>2. ~input.faulty => pc' = "call"
    BY <1>4, AllocationSucceeds
  <2> QED
    BY <1>1, <2>1, <2>2 DEF ErrorInv, Failure
<1>5. CASE Return
  <2>1. pc = "managed" /\ pc' = "done" /\ outcome' = Outcome
    BY <1>5 DEF Return
  <2>2. outcome'.kind = "error" => ~exn /\ rc < 0
    BY <2>1 DEF Outcome
  <2> QED
    BY <1>1, <2>1, <2>2 DEF ErrorInv, Failure
<1> QED
  BY <1>2, <1>3, <1>4, <1>5 DEF DriverStep

ErrorsInv == ErrorInv /\ (~input.faulty => SizeInv)

LEMMA ErrorsStep == Inv /\ FitInv /\ ErrorsInv /\ [Next]_vars => ErrorsInv'
<1> SUFFICES ASSUME Inv, FitInv, ErrorsInv, [Next]_vars
             PROVE  ErrorsInv'
  OBVIOUS
<1>1. ~input'.faulty => SizeInv'
  BY LogsFrame, SizeStep DEF ErrorsInv
<1>2. CASE CallSubstitute \/ EngineStep
  BY <1>1, <1>2, ErrorCallOrEngineStep DEF ErrorsInv
<1>3. CASE DriverStep
  BY <1>1, <1>3, ErrorDriverStep DEF ErrorsInv
<1>4. CASE UNCHANGED vars
  BY <1>1, <1>4 DEF vars, ErrorsInv, ErrorInv, Failure
<1> QED
  BY <1>2, <1>3, <1>4 DEF Next, EngineStep, DriverStep, Tried, Cased, Answered, Done

(* The caller of Substitute sees an error only when an allocation or a     *)
(* search has failed, or a case callout returned null: no pass is refused  *)
(* the memory it asked for, and the exact buffer of substitute_simple's    *)
(* second pass is never too small.                                         *)
THEOREM SubstituteNoSpuriousError == Spec => []NoSpuriousError
<1>1. Init => ErrorsInv
  BY SizeInit DEF Init, ErrorsInv, ErrorInv
<1>2. ErrorsInv => NoSpuriousError
  BY DEF ErrorsInv, ErrorInv, Failure, NoSpuriousError
<1> QED
  BY <1>1, <1>2, ErrorsStep, Invariance, FitInvariance, PTL DEF Spec

-----------------------------------------------------------------------------
(* The documented text.                                                    *)

LEMMA AnswerHere ==
  ASSUME NEW log \in AnswerLogs, RunsInOrder(log), NEW i \in 1..Len(log)
  PROVE  AnswerAt(log, log[i][1]) = log[i][2]
<1> DEFINE p == log[i][1]
           j == CHOOSE k \in 1..Len(log) : log[k][1] = p
<1>1. j \in 1..Len(log) /\ log[j][1] = p
  OBVIOUS
<1>2. AnswerAt(log, p) = log[j][2]
  BY DEF AnswerAt
<1> HIDE DEF j
<1>3. Len(log) \in Nat /\ log[i][1] \in Nat /\ log[j][1] \in Nat
  BY <1>1, LogEntries
<1>4. ~(i < j) /\ ~(j < i)
  BY <1>1, <1>3 DEF RunsInOrder
<1>5. i = j
  BY <1>1, <1>3, <1>4
<1> QED
  BY <1>2, <1>5

LEMMA NothingAnswered == \A p : AnswerAt(<< >>, p) = "Pass"
<1>1. Len(<< >>) = 0 /\ 1..0 = {}
  OBVIOUS
<1> QED
  BY <1>1 DEF AnswerAt

(* Text of the subject, a piece after another. *)
LEMMA KeptJoins ==
  ASSUME NEW p \in Nat, NEW q \in Nat, NEW r \in Nat, p <= q, q <= r
  PROVE  Kept(p, q) \o Kept(q, r) = Kept(p, r)
<1>1. CASE input.replacementOnly
  <2>1. << >> \o << >> = << >>
    BY EmptySeq, ConcatEmptySeq
  <2> QED
    BY <1>1, <2>1 DEF Kept
<1>2. CASE ~input.replacementOnly
  <2> DEFINE a == SubjectText(p, q)
             b == SubjectText(q, r)
             c == SubjectText(p, r)
  <2>1. /\ a = Kept(p, q) /\ b = Kept(q, r) /\ c = Kept(p, r)
    BY <1>2 DEF Kept
  <2>2. p <= r /\ q - p \in Nat /\ r - q \in Nat /\ r - p \in Nat
    OBVIOUS
  <2>3. a \in Seq(Tokens) /\ b \in Seq(Tokens) /\ c \in Seq(Tokens)
    BY <2>1, KeptText
  <2>4. Len(a) = q - p /\ Len(b) = r - q /\ Len(c) = r - p
    <3>1. DOMAIN a = 1..(q - p) /\ DOMAIN b = 1..(r - q) /\ DOMAIN c = 1..(r - p)
      BY DEF SubjectText
    <3> HIDE DEF a, b, c
    <3>2. /\ DOMAIN a = 1..Len(a) /\ Len(a) \in Nat
          /\ DOMAIN b = 1..Len(b) /\ Len(b) \in Nat
          /\ DOMAIN c = 1..Len(c) /\ Len(c) \in Nat
      BY <2>3, LenProperties
    <3> QED
      BY <2>2, <3>1, <3>2
  <2>5. /\ \A i \in 1..(q - p) : a[i] = <<"subject", p + i - 1>>
        /\ \A i \in 1..(r - q) : b[i] = <<"subject", q + i - 1>>
        /\ \A i \in 1..(r - p) : c[i] = <<"subject", p + i - 1>>
    BY DEF SubjectText
  <2> HIDE DEF a, b, c
  <2>6. /\ a \o b \in Seq(Tokens) /\ Len(a \o b) = Len(a) + Len(b)
        /\ \A i \in 1..(Len(a) + Len(b)) :
             (a \o b)[i] = IF i <= Len(a) THEN a[i] ELSE b[i - Len(a)]
    BY <2>3, ConcatProperties
  <2>7. Len(a \o b) = Len(c)
    BY <2>2, <2>4, <2>6
  <2>8. ASSUME NEW i \in 1..Len(c)
        PROVE  (a \o b)[i] = c[i]
    <3>1. i \in 1..(r - p) /\ i \in 1..(Len(a) + Len(b)) /\ i \in Nat
      BY <2>2, <2>4
    <3>2. CASE i <= q - p
      <4>1. i \in 1..(q - p)
        BY <3>1, <3>2
      <4> QED
        BY <2>4, <2>5, <2>6, <3>1, <3>2, <4>1
    <3>3. CASE ~(i <= q - p)
      <4>1. i - (q - p) \in 1..(r - q) /\ q + (i - (q - p)) - 1 = p + i - 1
        BY <2>2, <3>1, <3>3
      <4>2. (a \o b)[i] = b[i - (q - p)]
        BY <2>4, <2>6, <3>1, <3>3
      <4> QED
        BY <2>5, <3>1, <4>1, <4>2
    <3> QED
      BY <3>2, <3>3
  <2>9. a \o b = c
    <3> DEFINE d == a \o b
    <3>1. d \in Seq(Tokens) /\ Len(d) = Len(c) /\ \A i \in 1..Len(d) : d[i] = c[i]
      BY <2>6, <2>7, <2>8
    <3> HIDE DEF d
    <3> QED
      BY <2>3, <3>1, SeqEqual DEF d
  <2> QED
    BY <2>1, <2>9
<1> QED
  BY <1>1, <1>2

LEMMA NothingKept ==
  ASSUME NEW p \in Nat
  PROVE  Kept(p, p) = << >>
<1>1. Kept(p, p) \in Seq(Tokens) /\ Len(Kept(p, p)) = 0
  BY KeptLength
<1> QED
  BY <1>1, EmptySeq

(* Texts of three pieces.                                                  *)
LEMMA JoinedAgain ==
  ASSUME NEW a \in Seq(Tokens), NEW b \in Seq(Tokens), NEW c \in Seq(Tokens)
  PROVE  (a \o b) \o c = a \o (b \o c)
BY ConcatAssociative

LengthsTyped(lengths) == \A q \in DOMAIN lengths : lengths[q] \in Nat

LEMMA ReplacedText ==
  ASSUME TypeOK, NEW p \in Nat, NEW lengths, LengthsTyped(lengths)
  PROVE  ReplacementAt(p, lengths) \in Seq(Tokens)
<1>1. input.replacement \in Nat
  BY InputIsTyped
<1> QED
  BY <1>1, InsertedText DEF ReplacementAt, LengthsTyped

(* A log none of whose callouts throws, and what it answers. *)
LEMMA AnswerGiven ==
  ASSUME NEW log \in AnswerLogs, ~Threw(log), NEW p
  PROVE  AnswerAt(log, p) \in {"Pass", "Fail", "Abort"}
<1>1. CASE \E i \in 1..Len(log) : log[i][1] = p
  <2> DEFINE j == CHOOSE i \in 1..Len(log) : log[i][1] = p
  <2>1. j \in 1..Len(log)
    BY <1>1
  <2>2. AnswerAt(log, p) = log[j][2]
    BY <1>1 DEF AnswerAt
  <2> HIDE DEF j
  <2> QED
    BY <2>1, <2>2, LogEntries DEF Answers, Threw
<1>2. CASE ~\E i \in 1..Len(log) : log[i][1] = p
  BY <1>2 DEF AnswerAt
<1> QED
  BY <1>1, <1>2

(* The text at a position, case by case.                                   *)
LEMMA TextLeft ==
  ASSUME TypeOK, NEW m, NEW s, NEW lengths, NEW p \in Nat, NEW f,
         p + Width > input.length \/ AnswerAt(m, p) = "Abort"
  PROVE  TextAt(f, m, s, lengths, p) = Kept(p, input.length)
BY DEF TextAt

LEMMA TextRejected ==
  ASSUME TypeOK, NEW m, NEW s, NEW lengths, NEW p \in Nat, NEW f,
         p + Width <= input.length, AnswerAt(m, p) = "Fail"
  PROVE  TextAt(f, m, s, lengths, p) = Kept(p, p + 1) \o f[p + 1]
<1>1. ~(p + Width > input.length \/ AnswerAt(m, p) = "Abort")
  BY InputIsTyped
<1> QED
  BY <1>1 DEF TextAt

TextAfter(f, p) == IF input.global THEN f[p + Width] ELSE Kept(p + Width, input.length)

LEMMA TextStopped ==
  ASSUME TypeOK, NEW m, NEW s, NEW lengths, NEW p \in Nat, NEW f,
         p + Width <= input.length, AnswerAt(m, p) = "Pass", AnswerAt(s, p) = "Abort"
  PROVE  TextAt(f, m, s, lengths, p) = Kept(p, input.length)
<1>1. ~(p + Width > input.length \/ AnswerAt(m, p) = "Abort") /\ AnswerAt(m, p) # "Fail"
  BY InputIsTyped
<1> QED
  BY <1>1 DEF TextAt

LEMMA TextMatched ==
  ASSUME TypeOK, NEW m, NEW s, NEW lengths, NEW p \in Nat, NEW f,
         p + Width <= input.length, AnswerAt(m, p) = "Pass", AnswerAt(s, p) # "Abort"
  PROVE  TextAt(f, m, s, lengths, p) =
           (IF AnswerAt(s, p) = "Pass" THEN ReplacementAt(p, lengths) ELSE Kept(p, p + Width))
             \o TextAfter(f, p)
<1>1. ~(p + Width > input.length \/ AnswerAt(m, p) = "Abort") /\ AnswerAt(m, p) # "Fail"
  BY InputIsTyped
<1> QED
  BY <1>1 DEF TextAt, TextAfter

(* The text at a position is one, if the texts after it are, and depends   *)
(* on no others.                                                           *)
TextsAfter(f, p) ==
  \A q \in Nat : p < q /\ q <= input.length => f[q] \in Seq(Tokens)

SameAfter(f, g, p) ==
  \A q \in Nat : p < q /\ q <= input.length => f[q] = g[q]

LEMMA TextAtTyped ==
  ASSUME TypeOK, NEW m \in AnswerLogs, NEW s \in AnswerLogs, NEW lengths,
         ~Threw(m), ~Threw(s), LengthsTyped(lengths), NEW p \in Nat, NEW f, TextsAfter(f, p)
  PROVE  TextAt(f, m, s, lengths, p) \in Seq(Tokens)
<1>1. input.length \in Nat /\ Width \in Nat \ {0} /\ input.global \in BOOLEAN
  BY InputIsTyped
<1>2. p + 1 \in Nat /\ p + Width \in Nat
  BY <1>1
<1>3. /\ Kept(p, input.length) \in Seq(Tokens) /\ Kept(p, p + 1) \in Seq(Tokens)
      /\ Kept(p, p + Width) \in Seq(Tokens) /\ Kept(p + Width, input.length) \in Seq(Tokens)
      /\ ReplacementAt(p, lengths) \in Seq(Tokens)
  BY <1>1, <1>2, KeptText, ReplacedText
<1>4. CASE p + Width > input.length \/ AnswerAt(m, p) = "Abort"
  BY <1>3, <1>4, TextLeft
<1>5. CASE p + Width <= input.length /\ AnswerAt(m, p) = "Fail"
  <2>1. TextAt(f, m, s, lengths, p) = Kept(p, p + 1) \o f[p + 1]
    BY <1>5, TextRejected
  <2>2. f[p + 1] \in Seq(Tokens)
    BY <1>1, <1>2, <1>5 DEF TextsAfter
  <2> QED
    BY <1>3, <2>1, <2>2, ConcatProperties
<1>6. CASE p + Width <= input.length /\ AnswerAt(m, p) = "Pass"
  <2>1. CASE AnswerAt(s, p) = "Abort"
    BY <1>3, <1>6, <2>1, TextStopped
  <2>2. CASE AnswerAt(s, p) # "Abort"
    <3> DEFINE text == IF AnswerAt(s, p) = "Pass" THEN ReplacementAt(p, lengths)
                       ELSE Kept(p, p + Width)
               after == TextAfter(f, p)
    <3>1. after \in Seq(Tokens)
      BY <1>1, <1>2, <1>3, <1>6 DEF TextAfter, TextsAfter
    <3>2. text \in Seq(Tokens)
      BY <1>3
    <3>3. TextAt(f, m, s, lengths, p) = text \o after
      BY <1>6, <2>2, TextMatched
    <3> HIDE DEF text, after
    <3> QED
      BY <3>1, <3>2, <3>3, ConcatProperties
  <2> QED
    BY <2>1, <2>2
<1>7. AnswerAt(m, p) \in {"Pass", "Fail", "Abort"}
  BY AnswerGiven
<1> QED
  BY <1>1, <1>2, <1>4, <1>5, <1>6, <1>7

LEMMA TextAtAlike ==
  ASSUME TypeOK, NEW m \in AnswerLogs, NEW s, NEW lengths,
         ~Threw(m), NEW p \in Nat, NEW f, NEW g, SameAfter(f, g, p)
  PROVE  TextAt(f, m, s, lengths, p) = TextAt(g, m, s, lengths, p)
<1>1. input.length \in Nat /\ Width \in Nat \ {0}
  BY InputIsTyped
<1>2. p + 1 \in Nat /\ p + Width \in Nat
  BY <1>1
<1>3. CASE p + Width > input.length \/ AnswerAt(m, p) = "Abort"
  BY <1>3, TextLeft
<1>4. CASE p + Width <= input.length /\ AnswerAt(m, p) = "Fail"
  <2>1. f[p + 1] = g[p + 1]
    BY <1>1, <1>2, <1>4 DEF SameAfter
  <2>2. TextAt(f, m, s, lengths, p) = Kept(p, p + 1) \o f[p + 1]
    BY <1>4, TextRejected
  <2>3. TextAt(g, m, s, lengths, p) = Kept(p, p + 1) \o g[p + 1]
    BY <1>4, TextRejected
  <2> QED
    BY <2>1, <2>2, <2>3
<1>5. CASE p + Width <= input.length /\ AnswerAt(m, p) = "Pass"
  <2>1. f[p + Width] = g[p + Width]
    BY <1>1, <1>2, <1>5 DEF SameAfter
  <2>2. TextAfter(f, p) = TextAfter(g, p)
    BY <2>1 DEF TextAfter
  <2>3. CASE AnswerAt(s, p) = "Abort"
    BY <1>5, <2>3, TextStopped
  <2>4. CASE AnswerAt(s, p) # "Abort"
    <3> DEFINE text == IF AnswerAt(s, p) = "Pass" THEN ReplacementAt(p, lengths)
                       ELSE Kept(p, p + Width)
    <3>1. TextAt(f, m, s, lengths, p) = text \o TextAfter(f, p)
      BY <1>5, <2>4, TextMatched
    <3>2. TextAt(g, m, s, lengths, p) = text \o TextAfter(g, p)
      BY <1>5, <2>4, TextMatched
    <3> HIDE DEF text
    <3> QED
      BY <2>2, <3>1, <3>2
  <2> QED
    BY <2>3, <2>4
<1>6. AnswerAt(m, p) \in {"Pass", "Fail", "Abort"}
  BY AnswerGiven
<1> QED
  BY <1>1, <1>2, <1>3, <1>4, <1>5, <1>6

-----------------------------------------------------------------------------
(* The text from each position on is defined by the texts after it.        *)

Answerable(m, s, lengths) ==
  /\ m \in AnswerLogs /\ ~Threw(m)
  /\ s \in AnswerLogs /\ ~Threw(s)
  /\ LengthsTyped(lengths)

(* The texts from each position on that some answers stand for.            *)
Explains(rest, m, s, lengths) ==
  /\ rest \in [0..input.length -> Seq(Tokens)]
  /\ \A p \in 0..input.length : rest[p] = TextAt(rest, m, s, lengths, p)

(* The texts from n on.                                                    *)
ExplainsFrom(f, m, s, lengths, n) ==
  /\ f \in [n..input.length -> Seq(Tokens)]
  /\ \A p \in n..input.length : f[p] = TextAt(f, m, s, lengths, p)

LEMMA OneMoreText ==
  ASSUME TypeOK, NEW m, NEW s, NEW lengths, Answerable(m, s, lengths),
         NEW n \in Nat, n + 1 <= input.length + 1, NEW f, ExplainsFrom(f, m, s, lengths, n + 1)
  PROVE  \E g : ExplainsFrom(g, m, s, lengths, n)
<1> DEFINE text == TextAt(f, m, s, lengths, n)
           g == [p \in n..input.length |-> IF p = n THEN text ELSE f[p]]
<1>1. input.length \in Nat
  BY InputIsTyped
<1>2. /\ DOMAIN f = (n + 1)..input.length
      /\ \A p \in (n + 1)..input.length : f[p] \in Seq(Tokens)
      /\ \A p \in (n + 1)..input.length : f[p] = TextAt(f, m, s, lengths, p)
  BY DEF ExplainsFrom
<1>3. TextsAfter(f, n)
  BY <1>1, <1>2 DEF TextsAfter
<1>4. text \in Seq(Tokens)
  BY <1>3, TextAtTyped DEF Answerable
<1> HIDE DEF text
<1>5. g \in [n..input.length -> Seq(Tokens)]
  <2> SUFFICES ASSUME NEW p \in n..input.length, p # n
               PROVE  f[p] \in Seq(Tokens)
    BY <1>4
  <2>1. p \in (n + 1)..input.length
    BY <1>1
  <2> QED
    BY <1>2, <2>1
<1>6. /\ n \in n..input.length => g[n] = text
      /\ \A p \in n..input.length : p # n => g[p] = f[p]
  OBVIOUS
<1> HIDE DEF g
<1>7. ASSUME NEW p \in n..input.length
      PROVE  SameAfter(f, g, p)
  <2> SUFFICES ASSUME NEW q \in Nat, p < q, q <= input.length
               PROVE  f[q] = g[q]
    BY DEF SameAfter
  <2>1. q \in n..input.length /\ q # n
    BY <1>1
  <2> QED
    BY <1>6, <2>1
<1>8. ASSUME NEW p \in n..input.length
      PROVE  g[p] = TextAt(g, m, s, lengths, p)
  <2>1. p \in Nat
    OBVIOUS
  <2>2. TextAt(f, m, s, lengths, p) = TextAt(g, m, s, lengths, p)
    BY <1>7, <2>1, TextAtAlike DEF Answerable
  <2>3. CASE p = n
    BY <1>6, <2>2, <2>3 DEF text
  <2>4. CASE p # n
    <3>1. p \in (n + 1)..input.length
      BY <1>1, <2>4
    <3> QED
      BY <1>2, <1>6, <2>2, <2>4, <3>1
  <2> QED
    BY <2>3, <2>4
<1> QED
  BY <1>5, <1>8 DEF ExplainsFrom

LEMMA SomeTexts ==
  ASSUME TypeOK, NEW m, NEW s, NEW lengths, Answerable(m, s, lengths)
  PROVE  \E rest : Explains(rest, m, s, lengths)
<1> DEFINE T == {n \in Nat : n <= input.length + 1 /\ \E f : ExplainsFrom(f, m, s, lengths, n)}
<1>1. input.length \in Nat
  BY InputIsTyped
<1>2. input.length + 1 \in T
  <2> DEFINE n == input.length + 1
             f == [p \in n..input.length |-> << >>]
  <2>1. n..input.length = {} /\ n \in Nat /\ n <= input.length + 1
    BY <1>1
  <2> HIDE DEF n
  <2>2. f \in [n..input.length -> Seq(Tokens)]
    BY <2>1
  <2> HIDE DEF f
  <2>3. ExplainsFrom(f, m, s, lengths, n)
    BY <2>1, <2>2 DEF ExplainsFrom
  <2> QED
    BY <2>1, <2>3 DEF n
<1>3. PICK n \in T : \A k \in T : n <= k
  BY <1>2, NatMin
<1>4. n \in Nat /\ n <= input.length + 1 /\ \E f : ExplainsFrom(f, m, s, lengths, n)
  OBVIOUS
<1>5. n = 0
  <2> SUFFICES ASSUME n # 0
               PROVE  FALSE
    OBVIOUS
  <2>1. PICK k \in Nat : k + 1 = n
    <3>1. n - 1 \in Nat /\ (n - 1) + 1 = n
      BY <1>4
    <3> QED
      BY <3>1
  <2>2. PICK f : ExplainsFrom(f, m, s, lengths, n)
    BY <1>4
  <2>3. k + 1 <= input.length + 1 /\ ExplainsFrom(f, m, s, lengths, k + 1)
    BY <1>4, <2>1, <2>2
  <2>4. \E g : ExplainsFrom(g, m, s, lengths, k)
    <3> HIDE DEF T
    <3> QED
      BY <2>3, OneMoreText
  <2>5. k \in T
    BY <1>1, <2>3, <2>4
  <2>6. n <= k
    BY <1>3, <2>5
  <2> QED
    BY <2>1, <2>6
<1> QED
  BY <1>4, <1>5 DEF ExplainsFrom, Explains

LEMMA OneText ==
  ASSUME TypeOK, NEW m, NEW s, NEW lengths, Answerable(m, s, lengths),
         NEW rest, Explains(rest, m, s, lengths),
         NEW f, \A p \in 0..input.length : f[p] = TextAt(f, m, s, lengths, p)
  PROVE  \A p \in 0..input.length : f[p] = rest[p]
<1> DEFINE T == {n \in Nat : n <= input.length + 1 /\ SameAfter(f, rest, n)}
<1>1. input.length \in Nat
  BY InputIsTyped
<1>2. /\ \A p \in 0..input.length : f[p] = TextAt(f, m, s, lengths, p)
      /\ \A p \in 0..input.length : rest[p] = TextAt(rest, m, s, lengths, p)
  BY DEF Explains
<1>3. ASSUME NEW p \in 0..input.length, SameAfter(f, rest, p)
      PROVE  f[p] = rest[p]
  <2>1. p \in Nat
    OBVIOUS
  <2>2. TextAt(f, m, s, lengths, p) = TextAt(rest, m, s, lengths, p)
    BY <1>3, <2>1, TextAtAlike DEF Answerable
  <2> QED
    BY <1>2, <2>2
<1>4. input.length \in T
  BY <1>1 DEF SameAfter
<1>5. PICK n \in T : \A k \in T : n <= k
  BY <1>4, NatMin
<1>6. n \in Nat /\ n <= input.length
  BY <1>4, <1>5
<1>7. SameAfter(f, rest, n)
  BY <1>5
<1>8. n \in 0..input.length
  BY <1>1, <1>6
<1>9. f[n] = rest[n]
  BY <1>3, <1>7, <1>8
<1>10. n = 0
  <2> SUFFICES ASSUME n # 0
               PROVE  FALSE
    OBVIOUS
  <2>1. PICK k \in Nat : k + 1 = n
    <3>1. n - 1 \in Nat /\ (n - 1) + 1 = n
      BY <1>6
    <3> QED
      BY <3>1
  <2>2. SameAfter(f, rest, k)
    <3> SUFFICES ASSUME NEW q \in Nat, k < q, q <= input.length
                 PROVE  f[q] = rest[q]
      BY DEF SameAfter
    <3>1. q = n \/ n < q
      BY <1>6, <2>1
    <3> QED
      BY <1>7, <1>9, <3>1 DEF SameAfter
  <2>3. k \in T
    BY <1>1, <1>6, <2>1, <2>2
  <2>4. n <= k
    BY <1>5, <2>3
  <2> QED
    BY <2>1, <2>4
<1>11. ASSUME NEW p \in 0..input.length
       PROVE  f[p] = rest[p]
  <2>1. p = 0 \/ 0 < p
    OBVIOUS
  <2> QED
    BY <1>7, <1>9, <1>10, <2>1 DEF SameAfter
<1> QED
  BY <1>11

(* TextFrom is such a definition.                                          *)
LEMMA TextFromExplains ==
  ASSUME TypeOK, NEW m, NEW s, NEW lengths, Answerable(m, s, lengths)
  PROVE  Explains(TextFrom(m, s, lengths), m, s, lengths)
<1> DEFINE Is(f) == f = [p \in 0..input.length |-> TextAt(f, m, s, lengths, p)]
           text == TextFrom(m, s, lengths)
<1>1. PICK rest : Explains(rest, m, s, lengths)
  BY SomeTexts
<1>2. /\ rest \in [0..input.length -> Seq(Tokens)]
      /\ \A p \in 0..input.length : rest[p] = TextAt(rest, m, s, lengths, p)
  BY <1>1 DEF Explains
<1>3. Is(rest)
  BY <1>2
<1>4. text = CHOOSE f : Is(f)
  BY DEF TextFrom
<1> HIDE DEF text
<1>5. Is(text)
  BY <1>3, <1>4
<1>6. \A p \in 0..input.length : text[p] = TextAt(text, m, s, lengths, p)
  BY <1>5
<1>7. \A p \in 0..input.length : text[p] = rest[p]
  BY <1>1, <1>6, OneText
<1>8. text \in [0..input.length -> Seq(Tokens)]
  <2>1. text = [p \in 0..input.length |-> text[p]]
    BY <1>5
  <2>2. \A p \in 0..input.length : text[p] \in Seq(Tokens)
    BY <1>2, <1>7
  <2> QED
    BY <2>1, <2>2
<1> QED
  BY <1>6, <1>8 DEF Explains, text

-----------------------------------------------------------------------------
(* What the callouts may have answered when the call is over.              *)

(* A log that later callouts may leave behind, when none of them throws    *)
(* and none runs after one that aborts.                                    *)
Later(longer, log) ==
  /\ longer \in AnswerLogs
  /\ Len(log) <= Len(longer)
  /\ \A i \in 1..Len(log) : longer[i] = log[i]
  /\ RunsInOrder(longer) /\ ~Threw(longer)
  /\ \A i \in 1..Len(longer) : longer[i][2] = "Abort" => i = Len(longer)

(* The positions a pass has had its answers of the case callout for.       *)
Settled(p) ==
  /\ pc \in {"match", "case"} => p < at
  /\ pc = "callout" => p <= at

LengthsSettled(lengths) ==
  \A p \in Nat : Settled(p) =>
    /\ p \in DOMAIN lengths <=> p \in DOMAIN caseLen
    /\ p \in DOMAIN caseLen => lengths[p] = caseLen[p]

Future(m, s, lengths) ==
  /\ Later(m, matchLog) /\ Later(s, substLog)
  /\ ~input.matchCallout => m = << >>
  /\ ~input.substCallout => s = << >>
  /\ LengthsTyped(lengths) /\ LengthsSettled(lengths)

(* The answers, with the texts from each position on that they stand for.  *)
Foreseen(m, s, lengths, rest) ==
  Future(m, s, lengths) /\ Explains(rest, m, s, lengths)

WholeText(rest) == Kept(0, input.start) \o rest[input.start]

(* The answers this pass has had include one that aborts: it was run, not  *)
(* replayed, since the search goes on.                                     *)
MatchAborted ==
  \E i \in 1..Len(matchLog) : i <= matchQueue.replayed /\ matchLog[i][2] = "Abort"

SubstAborted ==
  \E i \in 1..Len(substLog) : i <= substQueue.replayed /\ substLog[i][2] = "Abort"

(* What there was in the buffer before the current insertion.              *)
TextBefore == SubSeq(buf.out, 1, mark.offset)

AbortPassed == MatchAborted \/ SubstAborted

Ahead(rest) ==
  IF AbortPassed THEN Kept(pos, input.length) ELSE Kept(pos, at) \o rest[at]

(* A pass that has not overflowed has written the text up to where it is.  *)
WrittenSoFar(rest) ==
  /\ pc = "match" => WholeText(rest) = buf.out \o Ahead(rest)
  /\ pc \in {"case", "callout"} /\ ~AbortPassed =>
       WholeText(rest) = TextBefore \o rest[at]
  /\ pc = "tail" => WholeText(rest) = buf.out \o Kept(pos, input.length)

WrittenOut(rest) ==
  /\ WholeText(rest) = SubSeq(buf.out, 1, outputLength)
  /\ rc = 0 => WholeText(rest) = Kept(0, input.length)

Told(rest) ==
  /\ ~buf.overflowed => WrittenSoFar(rest)
  /\ pc \in {"returned", "managed"} /\ rc >= 0 => WrittenOut(rest)

(* Whatever the callouts have yet to answer.                               *)
FutureInv ==
  \A m, s, lengths, rest : Foreseen(m, s, lengths, rest) => Told(rest)

(* What a pass has put in for the match it is at.                          *)
InsertedHere ==
  /\ LengthsTyped(caseLen)
  /\ input.replacement = 0 => DOMAIN caseLen = {}
  /\ pc \in {"case", "callout"} => subs >= 1
  /\ pc = "case" /\ ~buf.overflowed =>
       buf.out = TextBefore \o Inserted(at, input.replacement)
  /\ pc = "callout" /\ ~buf.overflowed =>
       buf.out = TextBefore \o ReplacementAt(at, caseLen)

(* A pass stays in the subject, and has copied none of it past the start   *)
(* when it has found no match.                                             *)
InSubject ==
  /\ pc = "match" => at <= input.length
  /\ pc = "tail" => pos <= input.length
  /\ pc \in {"match", "tail"} /\ subs = 0 =>
       pos = input.start /\ (~buf.overflowed => buf.out = Kept(0, input.start))

(* What the proof of a step starts from.                                   *)
TextInv ==
  /\ Inv /\ ~input.faulty
  /\ AnswersInv /\ SizeInv
  /\ InsertedHere /\ InSubject /\ FutureInv

LEMMA LaterBefore ==
  ASSUME NEW log, Len(log) \in Nat, NEW grown, grown = log \/ Extends(grown, log),
         NEW longer, Later(longer, grown)
  PROVE  Later(longer, log)
<1>1. CASE grown = log
  BY <1>1
<1>2. CASE Extends(grown, log)
  <2>1. /\ Len(grown) = Len(log) + 1
        /\ \A i \in 1..Len(log) : grown[i] = log[i]
    BY <1>2 DEF Extends
  <2>2. /\ Len(grown) <= Len(longer) /\ longer \in AnswerLogs
        /\ \A i \in 1..Len(grown) : longer[i] = grown[i]
    BY DEF Later
  <2>3. Len(longer) \in Nat
    BY <2>2, LogEntries
  <2>4. Len(log) <= Len(longer)
    BY <2>1, <2>2, <2>3
  <2>5. ASSUME NEW i \in 1..Len(log)
        PROVE  longer[i] = log[i]
    <3>1. i \in 1..Len(grown)
      BY <2>1
    <3> QED
      BY <2>1, <2>2, <3>1
  <2> QED
    BY <2>4, <2>5 DEF Later
<1> QED
  BY <1>1, <1>2

(* What a log answers, its longer versions answer.                         *)
LEMMA AnswerStays ==
  ASSUME NEW log, Len(log) \in Nat, NEW longer, Later(longer, log), NEW i \in 1..Len(log)
  PROVE  /\ AnswerAt(longer, log[i][1]) = log[i][2]
         /\ i <= Len(longer) /\ Len(longer) \in Nat
         /\ log[i][2] \in {"Pass", "Fail", "Abort"}
         /\ log[i][2] = "Abort" => i = Len(longer)
<1>1. /\ longer \in AnswerLogs /\ RunsInOrder(longer) /\ ~Threw(longer)
      /\ Len(log) <= Len(longer) /\ longer[i] = log[i]
      /\ \A k \in 1..Len(longer) : longer[k][2] = "Abort" => k = Len(longer)
  BY DEF Later
<1>2. Len(longer) \in Nat
  BY <1>1, LogEntries
<1>3. i \in 1..Len(longer)
  BY <1>1, <1>2
<1>4. AnswerAt(longer, longer[i][1]) = longer[i][2]
  BY <1>1, <1>3, AnswerHere
<1>5. longer[i][2] \in Answers /\ longer[i][2] # "Throw"
  BY <1>1, <1>3, LogEntries DEF Threw
<1> QED
  BY <1>1, <1>2, <1>3, <1>4, <1>5 DEF Answers

(* The step of a pass takes no answer back: what it makes of the future    *)
(* was the future before.                                                  *)
SettledKept ==
  \A p \in Nat : Settled(p) =>
    /\ Settled(p)'
    /\ p \in DOMAIN caseLen' <=> p \in DOMAIN caseLen
    /\ p \in DOMAIN caseLen => caseLen'[p] = caseLen[p]

LogsGrow ==
  /\ matchLog' = matchLog \/ Extends(matchLog', matchLog)
  /\ substLog' = substLog \/ Extends(substLog', substLog)

LEMMA FutureBack ==
  ASSUME TypeOK, input' = input, LogsGrow, SettledKept,
         NEW m, NEW s, NEW lengths, NEW rest, Foreseen(m, s, lengths, rest)'
  PROVE  /\ Foreseen(m, s, lengths, rest)
         /\ Later(m, matchLog') /\ Later(s, substLog') /\ LengthsSettled(lengths)'
<1>1. /\ Later(m, matchLog') /\ Later(s, substLog')
      /\ ~input.matchCallout => m = << >>
      /\ ~input.substCallout => s = << >>
      /\ LengthsTyped(lengths) /\ LengthsSettled(lengths)'
  <2>1. Future(m, s, lengths)'
    BY DEF Foreseen
  <2> QED
    BY <2>1 DEF Future, LengthsTyped, Later
<1>2. Explains(rest, m, s, lengths)
  <2>1. Explains(rest, m, s, lengths)'
    BY DEF Foreseen
  <2> QED
    BY <2>1 DEF Explains, TextAt, ReplacementAt, Kept
<1>3. Len(matchLog) \in Nat /\ Len(substLog) \in Nat
  BY LogEntries DEF TypeOK
<1>4. Later(m, matchLog) /\ Later(s, substLog)
  BY <1>1, <1>3, LaterBefore DEF LogsGrow
<1>5. LengthsSettled(lengths)
  BY <1>1 DEF LengthsSettled, SettledKept
<1> QED
  BY <1>1, <1>2, <1>4, <1>5 DEF Foreseen, Future

-----------------------------------------------------------------------------
(* What a step writes, when the buffer does not overflow.                  *)

LEMMA PrefixOfJoined ==
  ASSUME NEW a \in Seq(Tokens), NEW b \in Seq(Tokens)
  PROVE  SubSeq(a \o b, 1, Len(a)) = a
<1> DEFINE c == a \o b
           d == SubSeq(c, 1, Len(a))
<1>1. Len(a) \in Nat /\ Len(b) \in Nat
  BY LenProperties
<1>2. /\ c \in Seq(Tokens) /\ Len(c) = Len(a) + Len(b)
      /\ \A i \in 1..(Len(a) + Len(b)) : c[i] = IF i <= Len(a) THEN a[i] ELSE b[i - Len(a)]
  BY ConcatProperties
<1> HIDE DEF c
<1>3. \A i \in 1..Len(a) : c[i] = a[i] /\ c[i] \in Tokens
  BY <1>1, <1>2, ElementOfSeq
<1>4. /\ d \in Seq(Tokens) /\ Len(d) = Len(a)
      /\ \A i \in 1..Len(a) : d[i] = c[i]
  <2>1. \A i \in 1..Len(a) : c[i] \in Tokens
    BY <1>3
  <2>2. d \in Seq(Tokens) /\ Len(d) = IF 1 <= Len(a) THEN Len(a) - 1 + 1 ELSE 0
    BY <1>1, <2>1, SubSeqProperties
  <2>3. \A i \in 1..(Len(a) - 1 + 1) : d[i] = c[1 + i - 1]
    BY <1>1, <2>1, SubSeqProperties
  <2> HIDE DEF d
  <2>4. Len(d) = Len(a)
    BY <1>1, <2>2
  <2>5. ASSUME NEW i \in 1..Len(a)
        PROVE  d[i] = c[i]
    <3>1. i \in 1..(Len(a) - 1 + 1) /\ 1 + i - 1 = i
      BY <1>1
    <3> QED
      BY <2>3, <3>1
  <2> QED
    BY <2>2, <2>4, <2>5
<1> HIDE DEF d
<1>5. \A i \in 1..Len(d) : d[i] = a[i]
  BY <1>3, <1>4
<1>6. d = a
  BY <1>4, <1>5, SeqEqual
<1> QED
  BY <1>6 DEF c, d

LEMMA CheckMemCpyWrites ==
  ASSUME NEW b \in PassBuffers, NEW text \in Seq(Tokens), ~CheckMemCpy(b, text).overflowed
  PROVE  /\ ~b.overflowed
         /\ CheckMemCpy(b, text).out = b.out \o text
         /\ CheckMemCpy(b, text).extra = b.extra
<1> DEFINE left == b.length - Len(b.out)
<1>1. b.overflowed \in BOOLEAN
  BY DEF PassBuffers
<1>2. ~b.overflowed
  BY CheckMemCpyFits
<1>3. CASE left < Len(text)
  <2> DEFINE c == [b EXCEPT !.overflowed = TRUE, !.extra = Len(text) - left]
  <2>1. CheckMemCpy(b, text) = c
    BY <1>2, <1>3 DEF CheckMemCpy
  <2>2. c.overflowed = TRUE
    BY DEF PassBuffers
  <2> QED
    BY <2>1, <2>2
<1>4. CASE ~(left < Len(text))
  <2> DEFINE c == [b EXCEPT !.out = b.out \o text]
  <2>1. CheckMemCpy(b, text) = c
    BY <1>2, <1>4 DEF CheckMemCpy
  <2>2. c.out = b.out \o text /\ c.extra = b.extra
    BY DEF PassBuffers
  <2> HIDE DEF c
  <2> QED
    BY <1>2, <2>1, <2>2
<1> QED
  BY <1>3, <1>4

LEMMA RewindText ==
  ASSUME buf \in PassBuffers, mark.offset \in Nat, mark.offset <= Len(buf.out)
  PROVE  /\ Rewind(buf) \in PassBuffers /\ Rewind(buf).out = TextBefore
         /\ Rewind(buf).overflowed = buf.overflowed /\ Rewind(buf).extra = buf.extra
         /\ TextBefore \in Seq(Tokens) /\ Len(TextBefore) = mark.offset
<1>1. /\ Rewind(buf) \in PassBuffers /\ Rewind(buf).overflowed = buf.overflowed
      /\ Len(Rewind(buf).out) = mark.offset
  BY RewindFits
<1>2. Rewind(buf).out = TextBefore /\ Rewind(buf).extra = buf.extra
  BY DEF Rewind, PassBuffers, TextBefore
<1>3. Rewind(buf).out \in Seq(Tokens)
  BY <1>1 DEF PassBuffers
<1> QED
  BY <1>1, <1>2, <1>3

(* A match that is found is written after the text before it.              *)
LEMMA MatchedText ==
  ASSUME TypeOK, HeapInv, pc = "match", Matched, ~buf'.overflowed
  PROVE  /\ ~buf.overflowed /\ pc' = "case" /\ at' = at /\ subs' = subs + 1
         /\ TextBefore' = buf.out \o Kept(pos, at)
         /\ buf'.out = TextBefore' \o Inserted(at, input.replacement)
<1> DEFINE before == CheckMemCpy(buf, Kept(pos, at))
           after == CheckMemCpy(before, Inserted(at, input.replacement))
<1>1. pc \in InPass
  BY DEF InPass, Passes
<1>2. Kept(pos, at) \in Seq(Tokens) /\ Inserted(at, input.replacement) \in Seq(Tokens)
  BY <1>1, PassTypes, InputIsTyped, KeptText, InsertedText
<1>3. buf \in PassBuffers /\ before \in PassBuffers
  BY <1>1, <1>2, PassTypes, CheckMemCpyFits
<1>4. /\ buf' = after /\ mark' = [offset |-> Len(before.out), extra |-> before.extra]
      /\ ~after.overflowed => pc' = "case"
      /\ at' = at /\ subs' = subs + 1
  BY DEF Matched, Write
<1>5. ~before.overflowed => ~buf.overflowed /\ before.out = buf.out \o Kept(pos, at)
  BY <1>2, <1>3, CheckMemCpyWrites
<1> HIDE DEF before
<1>6. ~before.overflowed /\ after.out = before.out \o Inserted(at, input.replacement)
  BY <1>2, <1>3, <1>4, CheckMemCpyWrites
<1> HIDE DEF after
<1>7. mark'.offset = Len(before.out) /\ before.out \in Seq(Tokens)
  BY <1>3, <1>4 DEF PassBuffers
<1>8. SubSeq(after.out, 1, Len(before.out)) = before.out
  BY <1>2, <1>6, <1>7, PrefixOfJoined
<1>9. TextBefore' = before.out
  BY <1>4, <1>7, <1>8 DEF TextBefore
<1> QED
  BY <1>4, <1>5, <1>6, <1>9

(* Texts and places of a pass.                                             *)
LEMMA PassTexts ==
  ASSUME TextInv, pc \in Working
  PROVE  /\ TypeOK /\ HeapInv /\ pc \in InPass
         /\ pos \in Nat /\ at \in Nat /\ pos <= at /\ subs \in Nat
         /\ Width \in Nat /\ Width >= 1
         /\ input.length \in Nat /\ input.start \in Nat /\ input.start <= input.length
         /\ input.start <= pos /\ Tidy
         /\ buf \in PassBuffers /\ buf.out \in Seq(Tokens) /\ buf.extra \in Nat
         /\ pc \in {"case", "callout"} =>
              /\ mark.offset \in Nat /\ mark.offset <= Len(buf.out) /\ mark.extra \in Nat
              /\ at + Width <= input.length /\ mark.extra <= buf.extra
<1>1. TypeOK /\ HeapInv /\ Paced /\ WithinBudget /\ Inv
  BY DEF TextInv, Inv, SizeInv
<1>2. input.start <= input.length /\ pc \in InPass
  BY <1>1, StartAssumption DEF TypeOK, InPass, Passes, Working, Searching
<1>3. /\ pos \in Nat /\ at \in Nat /\ subs \in Nat /\ buf \in PassBuffers /\ buf.extra \in Nat
      /\ mark.offset \in Nat /\ mark.extra \in Nat
      /\ pc \in {"case", "callout"} => mark.offset <= Len(buf.out)
  BY <1>1, <1>2, PassTypes
<1>4. buf.out \in Seq(Tokens)
  BY <1>3 DEF PassBuffers
<1>5. /\ input.length \in Nat /\ input.start \in Nat /\ Width \in Nat /\ Width >= 1
  BY <1>1, InputIsTyped
<1>6. pos <= at /\ input.start <= pos /\ Tidy
  BY <1>1 DEF Paced
<1>7. pc \in {"case", "callout"} => at + Width <= input.length /\ mark.extra <= buf.extra
  BY <1>1 DEF WithinBudget
<1> QED
  BY <1>1, <1>2, <1>3, <1>4, <1>5, <1>6, <1>7

-----------------------------------------------------------------------------
(* The steps of a pass.                                                    *)

LEMMA LogsOnlyGrow ==
  ASSUME Inv, ~input.faulty, [Next]_vars
  PROVE  LogsGrow /\ input' = input
<1>1. matchLog' = matchLog \/ Extends(matchLog', matchLog)
  BY LogsFrame, RunMatchFacts
<1>2. substLog' = substLog \/ Extends(substLog', substLog)
  BY LogsFrame, RunSubstFacts
<1> QED
  BY <1>1, <1>2, LogsFrame DEF LogsGrow

(* Nothing is answered after an answer that aborts.                        *)
LEMMA NoAbortBefore ==
  ASSUME NEW log, Len(log) \in Nat, NEW longer, Later(longer, log),
         NEW k \in Nat, k < Len(longer), NEW i \in 1..Len(log), i <= k
  PROVE  log[i][2] # "Abort"
<1>1. Len(longer) \in Nat /\ (log[i][2] = "Abort" => i = Len(longer))
  BY AnswerStays
<1> QED
  BY <1>1

LEMMA ForeseenTexts ==
  ASSUME TypeOK, NEW m, NEW s, NEW lengths, NEW rest, Foreseen(m, s, lengths, rest)
  PROVE  /\ \A p \in 0..input.length :
              rest[p] \in Seq(Tokens) /\ rest[p] = TextAt(rest, m, s, lengths, p)
         /\ m \in AnswerLogs /\ s \in AnswerLogs /\ LengthsTyped(lengths)
         /\ ~Threw(m) /\ ~Threw(s)
         /\ ~input.matchCallout => m = << >>
         /\ ~input.substCallout => s = << >>
BY DEF Foreseen, Future, Explains, Later

(* What there is to show of the text after a step.                         *)
LEMMA ToldAfter ==
  ASSUME input' = input, NEW rest,
         ~buf'.overflowed =>
           /\ pc' = "match" =>
                /\ AbortPassed' => WholeText(rest) = buf'.out \o Kept(pos', input.length)
                /\ ~AbortPassed' => WholeText(rest) = buf'.out \o (Kept(pos', at') \o rest[at'])
           /\ pc' \in {"case", "callout"} /\ ~AbortPassed' =>
                WholeText(rest) = TextBefore' \o rest[at']
           /\ pc' = "tail" => WholeText(rest) = buf'.out \o Kept(pos', input.length),
         pc' \in {"returned", "managed"} /\ rc' >= 0 =>
           /\ WholeText(rest) = SubSeq(buf'.out, 1, outputLength')
           /\ rc' = 0 => WholeText(rest) = Kept(0, input.length)
  PROVE  Told(rest)'
<1>1. /\ WholeText(rest)' = WholeText(rest)
      /\ Kept(pos, input.length)' = Kept(pos', input.length)
      /\ Kept(pos, at)' = Kept(pos', at')
      /\ Kept(0, input.length)' = Kept(0, input.length)
  BY DEF WholeText, Kept
<1>2. ~buf'.overflowed => WrittenSoFar(rest)'
  BY <1>1 DEF WrittenSoFar, Ahead
<1>3. pc' \in {"returned", "managed"} /\ rc' >= 0 => WrittenOut(rest)'
  BY <1>1 DEF WrittenOut
<1> QED
  BY <1>2, <1>3 DEF Told

LEMMA TriedText ==
  ASSUME TextInv, Tried, NEW m, NEW s, NEW lengths, NEW rest, Foreseen(m, s, lengths, rest)'
  PROVE  Told(rest)'
<1> DEFINE k == matchQueue.replayed
<1>1. /\ pc = "match" /\ at + Width <= input.length
      /\ input' = input /\ UNCHANGED <<pos, global, substQueue, substLog>>
      /\ ~input.matchCallout => Matched /\ UNCHANGED <<matchQueue, matchLog>>
  BY TriedFacts DEF TextInv, driver
<1>2. input.matchCallout =>
        /\ k \in 0..Len(matchLog) /\ matchQueue'.replayed = k + 1 /\ k + 1 <= Len(matchLog')
        /\ k < Len(matchLog) => matchLog' = matchLog
        /\ at = matchLog'[k + 1][1]
        /\ matchLog'[k + 1][2] = "Pass" => Matched
        /\ matchLog'[k + 1][2] # "Pass" =>
             /\ UNCHANGED <<rc, buf, mark, subs, outputLength>>
             /\ \/ pc' = "match" /\ at' = at + 1
                \/ pc' = "tail" /\ at' = at /\ matchLog'[k + 1][2] # "Fail"
  BY TriedFacts DEF TextInv
<1>3. pc \in Working
  BY <1>1 DEF Working, Searching
<1>4. /\ TypeOK /\ HeapInv /\ pos \in Nat /\ at \in Nat /\ pos <= at
      /\ Width \in Nat /\ Width >= 1 /\ input.length \in Nat
      /\ buf.out \in Seq(Tokens) /\ matchLog \in AnswerLogs
      /\ at \in 0..input.length /\ at <= input.length
  <2>1. TypeOK /\ at \in Nat /\ Width \in Nat /\ input.length \in Nat
    BY <1>3, PassTexts
  <2>2. at \in 0..input.length /\ at <= input.length
    BY <1>1, <2>1
  <2> QED
    BY <1>3, <2>2, PassTexts DEF TypeOK
<1>5. LogsGrow
  BY LogsOnlyGrow DEF TextInv, Next, Tried
<1>6. SettledKept
  <2>1. caseLen' = caseLen
    BY DEF Tried, MatchWithoutCallout, ReplayMatchCallout, RunMatchCallout, history
  <2>2. pc' # "callout" /\ at' \in {at, at + 1}
    BY <1>1, <1>2 DEF Matched, Write
  <2>3. \A p \in Nat : p < at => p < at'
    BY <1>4, <2>2
  <2> QED
    BY <1>1, <2>1, <2>2, <2>3 DEF SettledKept, Settled
<1>7. /\ Foreseen(m, s, lengths, rest) /\ Later(m, matchLog')
  BY <1>1, <1>4, <1>5, <1>6, FutureBack
<1>8. ~buf.overflowed => WrittenSoFar(rest)
  BY <1>7 DEF TextInv, FutureInv, Told
<1>9. /\ \A p \in 0..input.length :
           rest[p] \in Seq(Tokens) /\ rest[p] = TextAt(rest, m, s, lengths, p)
      /\ Later(m, matchLog) /\ m \in AnswerLogs
  BY <1>4, <1>7, ForeseenTexts DEF Foreseen, Future
<1>10. SubstAborted' <=> SubstAborted
  BY <1>1 DEF SubstAborted
<1>11. input.matchCallout =>
         /\ AnswerAt(m, at) = matchLog'[k + 1][2]
         /\ matchLog'[k + 1][2] \in {"Pass", "Fail", "Abort"}
         /\ ~MatchAborted
         /\ matchLog'[k + 1][2] # "Abort" => ~MatchAborted'
         /\ matchLog'[k + 1][2] = "Abort" => MatchAborted'
  <2> SUFFICES ASSUME input.matchCallout
               PROVE  /\ AnswerAt(m, at) = matchLog'[k + 1][2]
                      /\ matchLog'[k + 1][2] \in {"Pass", "Fail", "Abort"}
                      /\ ~MatchAborted
                      /\ matchLog'[k + 1][2] # "Abort" => ~MatchAborted'
                      /\ matchLog'[k + 1][2] = "Abort" => MatchAborted'
    OBVIOUS
  <2>1. Len(matchLog) \in Nat /\ Len(matchLog') \in Nat /\ k \in Nat
    <3>1. Len(matchLog) \in Nat
      BY <1>4, LogEntries
    <3> QED
      BY <1>2, <1>5, <3>1 DEF LogsGrow, Extends
  <2>2. k + 1 \in 1..Len(matchLog')
    BY <1>2, <2>1
  <2>3. /\ AnswerAt(m, matchLog'[k + 1][1]) = matchLog'[k + 1][2]
        /\ matchLog'[k + 1][2] \in {"Pass", "Fail", "Abort"}
        /\ k + 1 <= Len(m) /\ Len(m) \in Nat
    BY <1>7, <2>1, <2>2, AnswerStays
  <2>4. k < Len(m)
    BY <2>1, <2>3
  <2>5. \A i \in 1..Len(matchLog) : i <= k => matchLog[i][2] # "Abort"
    BY <1>9, <2>1, <2>4, NoAbortBefore
  <2>6. \A i \in 1..Len(matchLog') : i <= k => matchLog'[i][2] # "Abort"
    BY <1>7, <2>1, <2>4, NoAbortBefore
  <2>7. ~MatchAborted
    BY <2>5 DEF MatchAborted
  <2>8. matchLog'[k + 1][2] # "Abort" => ~MatchAborted'
    <3> SUFFICES ASSUME NEW i \in 1..Len(matchLog'), i <= k + 1, matchLog'[k + 1][2] # "Abort"
                 PROVE  matchLog'[i][2] # "Abort"
      BY <1>2 DEF MatchAborted
    <3>1. i <= k \/ i = k + 1
      BY <2>1
    <3> QED
      BY <2>6, <3>1
  <2>9. matchLog'[k + 1][2] = "Abort" => MatchAborted'
    BY <1>2, <2>1, <2>2 DEF MatchAborted
  <2> QED
    BY <1>2, <2>3, <2>7, <2>8, <2>9
<1> HIDE DEF k
<1> DEFINE whole == WholeText(rest)
<1>12. ~buf.overflowed =>
         /\ AbortPassed => whole = buf.out \o Kept(pos, input.length)
         /\ ~AbortPassed => whole = buf.out \o (Kept(pos, at) \o rest[at])
  BY <1>1, <1>8 DEF WrittenSoFar, Ahead
<1> HIDE DEF whole
<1>13. CASE Matched
  <2>1. AbortPassed => AbortPassed'
    BY <1>1, <1>10, <1>11 DEF AbortPassed, MatchAborted
  <2>2. ~buf'.overflowed /\ ~AbortPassed' => whole = TextBefore' \o rest[at']
    <3> SUFFICES ASSUME ~buf'.overflowed, ~AbortPassed'
                 PROVE  whole = TextBefore' \o rest[at']
      OBVIOUS
    <3>1. ~buf.overflowed /\ at' = at /\ TextBefore' = buf.out \o Kept(pos, at)
      BY <1>1, <1>4, <1>13, MatchedText
    <3>2. whole = buf.out \o (Kept(pos, at) \o rest[at])
      BY <1>12, <2>1, <3>1
    <3>3. Kept(pos, at) \in Seq(Tokens) /\ rest[at] \in Seq(Tokens)
      BY <1>4, <1>9, KeptText
    <3> QED
      BY <1>4, <3>1, <3>2, <3>3, JoinedAgain
  <2>3. pc' \in {"case", "returned"} /\ (pc' = "returned" => rc' = PCRE2_ERROR_NOMEMORY)
    BY <1>13 DEF Matched, Write
  <2>4. pc' = "returned" => ~(rc' >= 0)
    BY <2>3 DEF PCRE2_ERROR_NOMEMORY
  <2> QED
    BY <1>1, <2>2, <2>3, <2>4, ToldAfter DEF whole
<1>14. CASE ~Matched
  <2> DEFINE answer == matchLog'[k + 1][2]
  <2>1. /\ input.matchCallout /\ answer \in {"Fail", "Abort"} /\ AnswerAt(m, at) = answer
        /\ UNCHANGED <<rc, buf, mark, subs, outputLength, pos>>
        /\ \/ pc' = "match" /\ at' = at + 1
           \/ pc' = "tail" /\ at' = at /\ answer # "Fail"
        /\ AbortPassed <=> SubstAborted
        /\ answer # "Abort" => (AbortPassed' <=> SubstAborted)
        /\ answer = "Abort" => AbortPassed'
    BY <1>1, <1>2, <1>10, <1>11, <1>14 DEF AbortPassed
  <2> HIDE DEF answer
  <2>2. rest[at] = TextAt(rest, m, s, lengths, at)
    BY <1>4, <1>9
  <2>3. CASE answer = "Abort"
    <3>1. rest[at] = Kept(at, input.length)
      BY <1>4, <2>1, <2>2, <2>3, TextLeft
    <3>2. Kept(pos, at) \o Kept(at, input.length) = Kept(pos, input.length)
      BY <1>4, KeptJoins
    <3>3. ~buf'.overflowed => whole = buf'.out \o Kept(pos', input.length)
      BY <1>12, <2>1, <3>1, <3>2
    <3> QED
      BY <1>1, <2>1, <2>3, <3>3, ToldAfter DEF whole
  <2>4. CASE answer = "Fail"
    <3>1. rest[at] = Kept(at, at + 1) \o rest[at + 1]
      BY <1>1, <1>4, <2>1, <2>2, <2>4, TextRejected
    <3>2. at + 1 \in 0..input.length /\ at + 1 \in Nat /\ at <= at + 1
      BY <1>1, <1>4
    <3>3. /\ Kept(pos, at) \in Seq(Tokens) /\ Kept(at, at + 1) \in Seq(Tokens)
          /\ rest[at + 1] \in Seq(Tokens)
      BY <1>4, <1>9, <3>2, KeptText
    <3>4. Kept(pos, at) \o rest[at] = Kept(pos, at + 1) \o rest[at + 1]
      <4>1. Kept(pos, at) \o Kept(at, at + 1) = Kept(pos, at + 1)
        BY <1>4, <3>2, KeptJoins
      <4>2. (Kept(pos, at) \o Kept(at, at + 1)) \o rest[at + 1]
              = Kept(pos, at) \o (Kept(at, at + 1) \o rest[at + 1])
        BY <3>3, JoinedAgain
      <4> QED
        BY <3>1, <4>1, <4>2
    <3>5. pc' = "match" /\ at' = at + 1
      BY <2>1, <2>4
    <3>6. ~buf'.overflowed =>
            /\ AbortPassed' => whole = buf'.out \o Kept(pos', input.length)
            /\ ~AbortPassed' => whole = buf'.out \o (Kept(pos', at') \o rest[at'])
      BY <1>12, <2>1, <2>4, <3>4, <3>5
    <3> QED
      BY <1>1, <3>5, <3>6, ToldAfter DEF whole
  <2> QED
    BY <2>1, <2>3, <2>4
<1> QED
  BY <1>13, <1>14

LEMMA TriedPlaces ==
  ASSUME TextInv, Tried
  PROVE  InsertedHere' /\ InSubject'
<1>1. /\ pc = "match" /\ at + Width <= input.length /\ input' = input /\ pos' = pos
      /\ \/ Matched
         \/ /\ UNCHANGED <<buf, mark, subs>>
            /\ (pc' = "match" /\ at' = at + 1) \/ pc' = "tail"
  BY TriedFacts DEF TextInv, driver
<1>2. caseLen' = caseLen
  BY DEF Tried, MatchWithoutCallout, ReplayMatchCallout, RunMatchCallout, history
<1>3. pc \in Working
  BY <1>1 DEF Working, Searching
<1>4. /\ TypeOK /\ HeapInv /\ pos \in Nat /\ at \in Nat /\ pos <= at /\ subs \in Nat
      /\ Width \in Nat /\ Width >= 1 /\ input.length \in Nat
  BY <1>3, PassTexts
<1>5. /\ LengthsTyped(caseLen)' /\ (input'.replacement = 0 => DOMAIN caseLen' = {})
  BY <1>1, <1>2 DEF TextInv, InsertedHere, LengthsTyped
<1>6. CASE Matched
  <2>1. pc' \in {"case", "returned"} /\ subs' = subs + 1
    BY <1>6 DEF Matched, Write
  <2>2. ~buf'.overflowed =>
          at' = at /\ buf'.out = TextBefore' \o Inserted(at, input.replacement)
    BY <1>1, <1>4, <1>6, MatchedText
  <2>3. subs' >= 1
    BY <1>4, <2>1
  <2> QED
    BY <1>1, <1>5, <2>1, <2>2, <2>3 DEF InsertedHere, InSubject
<1>7. CASE ~Matched
  <2>1. /\ UNCHANGED <<buf, mark, subs>>
        /\ (pc' = "match" /\ at' = at + 1) \/ pc' = "tail"
    BY <1>1, <1>7
  <2>2. at + 1 <= input.length /\ pos <= input.length
    BY <1>1, <1>4
  <2>3. subs = 0 => pos = input.start /\ (~buf.overflowed => buf.out = Kept(0, input.start))
    BY <1>1 DEF TextInv, InSubject
  <2>4. Kept(0, input.start)' = Kept(0, input.start)
    BY <1>1 DEF Kept
  <2> QED
    BY <1>1, <1>5, <2>1, <2>2, <2>3, <2>4 DEF InsertedHere, InSubject
<1> QED
  BY <1>6, <1>7

LEMMA NoMatchText ==
  ASSUME TextInv, NoMatch
  PROVE  /\ InsertedHere' /\ InSubject'
         /\ \A m, s, lengths, rest : Foreseen(m, s, lengths, rest)' => Told(rest)'
<1>1. /\ pc = "match" /\ ~(at + Width <= input.length) /\ pc' = "tail"
      /\ UNCHANGED <<input, buf, mark, pos, at, subs, matchQueue, substQueue, matchLog, substLog,
                     caseLen>>
  BY DEF NoMatch, CanMatch, driver, engine, queues, history
<1>2. pc \in Working
  BY <1>1 DEF Working, Searching
<1>3. /\ TypeOK /\ pos \in Nat /\ at \in Nat /\ pos <= at /\ at <= input.length
      /\ Width \in Nat /\ input.length \in Nat
  BY <1>1, <1>2, PassTexts DEF TextInv, InSubject
<1>4. /\ at + Width > input.length /\ pos <= input.length /\ at \in 0..input.length
  BY <1>1, <1>3
<1>5. InsertedHere' /\ InSubject'
  <2>1. Kept(0, input.start)' = Kept(0, input.start) /\ (LengthsTyped(caseLen)' <=> LengthsTyped(caseLen))
    BY <1>1 DEF Kept, LengthsTyped
  <2> QED
    BY <1>1, <1>4, <2>1 DEF TextInv, InsertedHere, InSubject
<1>6. ASSUME NEW m, NEW s, NEW lengths, NEW rest, Foreseen(m, s, lengths, rest)'
      PROVE  Told(rest)'
  <2>1. LogsGrow /\ SettledKept
    BY <1>1 DEF LogsGrow, SettledKept, Settled
  <2>2. Foreseen(m, s, lengths, rest)
    BY <1>1, <1>3, <1>6, <2>1, FutureBack
  <2>3. ~buf.overflowed => WrittenSoFar(rest)
    BY <2>2 DEF TextInv, FutureInv, Told
  <2>4. rest[at] = Kept(at, input.length)
    <3>1. rest[at] = TextAt(rest, m, s, lengths, at)
      BY <1>3, <1>4, <2>2, ForeseenTexts
    <3> QED
      BY <1>3, <1>4, <3>1, TextLeft
  <2>5. Kept(pos, at) \o Kept(at, input.length) = Kept(pos, input.length)
    BY <1>3, KeptJoins
  <2>6. ~buf'.overflowed => WholeText(rest) = buf'.out \o Kept(pos', input.length)
    BY <1>1, <2>3, <2>4, <2>5 DEF WrittenSoFar, Ahead
  <2> QED
    BY <1>1, <2>6, ToldAfter
<1> QED
  BY <1>5, <1>6

(* What is inserted before the case callout is the replacement.            *)
LEMMA ReplacementInserted ==
  ASSUME TextInv, pc = "case", ~buf.overflowed
  PROVE  InsertedLength(buf) = input.replacement
<1>1. pc \in Working
  BY DEF Working, Searching
<1>2. /\ TypeOK /\ at \in Nat /\ buf \in PassBuffers /\ buf.extra \in Nat /\ Tidy
      /\ mark.offset \in Nat /\ mark.offset <= Len(buf.out) /\ mark.extra \in Nat
      /\ mark.extra <= buf.extra
  BY <1>1, PassTexts
<1>3. buf.extra = 0
  BY <1>2 DEF Tidy
<1>4. mark.extra = 0
  BY <1>2, <1>3
<1>5. TextBefore \in Seq(Tokens) /\ Len(TextBefore) = mark.offset
  BY <1>2, RewindText
<1>6. /\ Inserted(at, input.replacement) \in Seq(Tokens)
      /\ Len(Inserted(at, input.replacement)) = input.replacement /\ input.replacement \in Nat
  <2>1. input \in InputType
    BY <1>2, SubstituteAssumption DEF TypeOK
  <2> QED
    BY <1>2, <2>1, InsertedLengths, InputIsTyped DEF Insertion
<1>7. Len(buf.out) = Len(TextBefore) + Len(Inserted(at, input.replacement))
  <2>1. buf.out = TextBefore \o Inserted(at, input.replacement)
    BY DEF TextInv, InsertedHere
  <2> QED
    BY <1>5, <1>6, <2>1, ConcatProperties
<1> QED
  BY <1>2, <1>3, <1>4, <1>5, <1>6, <1>7 DEF InsertedLength

LEMMA CasedText ==
  ASSUME TextInv, Cased
  PROVE  /\ InsertedHere' /\ InSubject'
         /\ \A m, s, lengths, rest : Foreseen(m, s, lengths, rest)' => Told(rest)'
<1>1. /\ pc = "case" /\ pc \in Working
      /\ UNCHANGED <<input, mark, pos, at, subs, matchQueue, substQueue, matchLog, substLog>>
  BY DEF Cased, SkipForceCase, GuessCase, RunCaseCallout, driver, engine, queues, history,
         Working, Searching
<1>2. /\ TypeOK /\ at \in Nat /\ buf \in PassBuffers
      /\ mark.offset \in Nat /\ mark.offset <= Len(buf.out)
      /\ Rewind(buf) \in PassBuffers /\ Rewind(buf).out = TextBefore
      /\ TextBefore \in Seq(Tokens) /\ Len(TextBefore) = mark.offset
  BY <1>1, PassTexts, RewindText
<1>3. /\ LengthsTyped(caseLen) /\ (input.replacement = 0 => DOMAIN caseLen = {})
      /\ subs >= 1
      /\ ~buf.overflowed => buf.out = TextBefore \o Inserted(at, input.replacement)
  BY <1>1 DEF TextInv, InsertedHere
<1>4. LogsGrow /\ (AbortPassed' <=> AbortPassed)
  BY <1>1 DEF LogsGrow, AbortPassed, MatchAborted, SubstAborted
<1>5. ASSUME NEW m, NEW s, NEW lengths, NEW rest, Foreseen(m, s, lengths, rest)', SettledKept
      PROVE  ~buf.overflowed /\ ~AbortPassed => WholeText(rest) = TextBefore \o rest[at]
  <2>1. Foreseen(m, s, lengths, rest)
    BY <1>1, <1>2, <1>4, <1>5, FutureBack
  <2> QED
    BY <1>1, <2>1 DEF TextInv, FutureInv, Told, WrittenSoFar
<1>6. CASE buf'.overflowed /\ pc' = "callout" /\ caseLen' = caseLen
  <2>1. InsertedHere' /\ InSubject'
    BY <1>1, <1>3, <1>6 DEF InsertedHere, InSubject, LengthsTyped
  <2> QED
    BY <1>1, <1>6, <2>1, ToldAfter
<1>7. CASE pc' = "callout" /\ buf' = buf /\ caseLen' = caseLen /\ ~buf.overflowed
           /\ (~input.caseCallout \/ InsertedLength(buf) = 0)
  <2>1. TextBefore' = TextBefore
    BY <1>1, <1>7 DEF TextBefore
  <2>2. ReplacementAt(at, caseLen)' = Inserted(at, input.replacement)
    <3>1. input.replacement = InsertedLength(buf)
      BY <1>1, <1>7, ReplacementInserted
    <3>2. ~(input.caseCallout /\ at \in DOMAIN caseLen)
      BY <1>3, <1>7, <3>1
    <3> QED
      BY <1>1, <1>7, <3>2 DEF ReplacementAt
  <2>3. InsertedHere' /\ InSubject'
    BY <1>1, <1>3, <1>7, <2>1, <2>2 DEF InsertedHere, InSubject, LengthsTyped
  <2>4. SettledKept
    BY <1>1, <1>2, <1>7 DEF SettledKept, Settled
  <2>5. ASSUME NEW m, NEW s, NEW lengths, NEW rest, Foreseen(m, s, lengths, rest)'
        PROVE  Told(rest)'
    <3>1. ~buf.overflowed /\ ~AbortPassed => WholeText(rest) = TextBefore \o rest[at]
      BY <1>5, <2>4, <2>5
    <3> QED
      BY <1>1, <1>4, <1>7, <2>1, <3>1, ToldAfter
  <2> QED
    BY <2>3, <2>5
<1>8. ASSUME NEW n \in CaseLengths,
             buf' = CheckMemCpy(Rewind(buf), Inserted(at, n)),
             caseLen' = [p \in DOMAIN caseLen \cup {at} |-> IF p = at THEN n ELSE caseLen[p]],
             pc' = "callout", input.caseCallout, InsertedLength(buf) > 0, ~buf.overflowed
      PROVE  /\ InsertedHere' /\ InSubject'
             /\ \A m, s, lengths, rest : Foreseen(m, s, lengths, rest)' => Told(rest)'
  <2>1. n \in Nat /\ Inserted(at, n) \in Seq(Tokens)
    BY <1>2, SubstituteAssumption, InsertedText
  <2>2. ~buf'.overflowed => buf'.out = TextBefore \o Inserted(at, n)
    BY <1>2, <1>8, <2>1, CheckMemCpyWrites
  <2>3. ~buf'.overflowed => TextBefore' = TextBefore
    <3> SUFFICES ASSUME ~buf'.overflowed PROVE TextBefore' = TextBefore
      OBVIOUS
    <3>1. SubSeq(TextBefore \o Inserted(at, n), 1, Len(TextBefore)) = TextBefore
      BY <1>2, <2>1, PrefixOfJoined
    <3>2. TextBefore' = SubSeq(buf'.out, 1, mark.offset)
      BY <1>1 DEF TextBefore
    <3> HIDE DEF TextBefore
    <3> QED
      BY <1>2, <2>2, <3>1, <3>2
  <2>4. /\ DOMAIN caseLen' = DOMAIN caseLen \cup {at} /\ caseLen'[at] = n
        /\ \A p \in DOMAIN caseLen : p # at => caseLen'[p] = caseLen[p]
    BY <1>8
  <2>5. LengthsTyped(caseLen)'
    BY <1>3, <2>1, <2>4 DEF LengthsTyped
  <2>6. input.replacement # 0
    <3>1. input.replacement = InsertedLength(buf)
      BY <1>1, <1>8, ReplacementInserted
    <3> QED
      BY <1>8, <3>1
  <2>7. ReplacementAt(at, caseLen)' = Inserted(at, n)
    BY <1>1, <1>8, <2>4 DEF ReplacementAt
  <2>8. InsertedHere' /\ InSubject'
    BY <1>1, <1>3, <1>8, <2>2, <2>3, <2>5, <2>6, <2>7 DEF InsertedHere, InSubject
  <2>9. SettledKept
    <3>1. \A p \in Nat : Settled(p) => p < at /\ p # at
      BY <1>1, <1>2 DEF Settled
    <3>2. \A p \in Nat : p < at => p <= at
      BY <1>2
    <3> QED
      BY <1>1, <1>8, <2>4, <3>1, <3>2 DEF SettledKept, Settled
  <2>10. ASSUME NEW m, NEW s, NEW lengths, NEW rest, Foreseen(m, s, lengths, rest)'
         PROVE  Told(rest)'
    <3>1. ~buf.overflowed /\ ~AbortPassed => WholeText(rest) = TextBefore \o rest[at]
      BY <1>5, <2>9, <2>10
    <3> QED
      BY <1>1, <1>4, <1>8, <2>3, <3>1, ToldAfter
  <2> QED
    BY <2>8, <2>10
<1>9. CASE pc' = "returned" /\ rc' = PCRE2_ERROR_REPLACECASE /\ caseLen' = caseLen
  <2>1. InsertedHere' /\ InSubject'
    BY <1>1, <1>3, <1>9 DEF InsertedHere, InSubject, LengthsTyped
  <2>2. ~(rc' >= 0)
    BY <1>9 DEF PCRE2_ERROR_REPLACECASE
  <2> QED
    BY <1>1, <1>9, <2>1, <2>2, ToldAfter
<1>10. CASE SkipForceCase
  BY <1>6, <1>7, <1>10 DEF SkipForceCase, engine, history
<1>11. CASE GuessCase
  <2>1. buf' = [buf EXCEPT !.extra = buf.extra + PessimisticCaseInflation(InsertedLength(buf))]
    BY <1>11 DEF GuessCase
  <2>2. buf.overflowed /\ pc' = "callout" /\ caseLen' = caseLen
    BY <1>11 DEF GuessCase, history
  <2>3. buf'.overflowed
    BY <1>2, <2>1, <2>2 DEF PassBuffers
  <2> QED
    BY <1>6, <2>2, <2>3
<1>12. CASE RunCaseCallout
  <2>1. CASE \E n \in CaseLengths :
               /\ buf' = CheckMemCpy(Rewind(buf), Inserted(at, n))
               /\ caseLen' = [p \in DOMAIN caseLen \cup {at} |-> IF p = at THEN n ELSE caseLen[p]]
               /\ pc' = "callout"
    BY <1>8, <1>12, <2>1 DEF RunCaseCallout
  <2>2. CASE pc' = "returned" /\ rc' = PCRE2_ERROR_REPLACECASE /\ caseLen' = caseLen
    BY <1>9, <2>2
  <2> QED
    BY <1>12, <2>1, <2>2 DEF RunCaseCallout
<1> QED
  BY <1>10, <1>11, <1>12 DEF Cased

LEMMA AnsweredPlaces ==
  ASSUME TextInv, Answered
  PROVE  /\ InsertedHere' /\ InSubject'
         /\ input' = input /\ caseLen' = caseLen /\ pc = "callout"
         /\ buf.overflowed => buf'.overflowed
<1>1. /\ pc = "callout" /\ pos' = at + Width /\ at' = at + Width /\ pc' \in {"match", "tail"}
      /\ input' = input /\ subs' = subs
  BY AnsweredFacts DEF TextInv, AnswersInv, driver
<1>2. caseLen' = caseLen
  BY DEF Answered, SkipSubstCallout, AssumeWorstCase, ReplaySubstCallout, RunSubstCallout,
         AfterSubstCallout, NextMatch
<1>3. pc \in Working
  BY <1>1 DEF Working, Searching
<1>4. /\ TypeOK /\ HeapInv /\ at + Width <= input.length /\ subs \in Nat /\ subs >= 1
  BY <1>1, <1>3, PassTexts DEF TextInv, InsertedHere
<1>5. buf.overflowed => buf'.overflowed
  BY <1>4, AnsweredStep DEF PassStep, BufferStep
<1>6. InsertedHere'
  BY <1>1, <1>2 DEF TextInv, InsertedHere, LengthsTyped
<1>7. InSubject'
  BY <1>1, <1>4 DEF InSubject
<1> QED
  BY <1>1, <1>2, <1>5, <1>6, <1>7

(* The text at a match, from what the answers stand for.                   *)
LEMMA TextHere ==
  ASSUME TypeOK, at \in Nat, at + Width <= input.length, NEW m, NEW s, NEW lengths, NEW rest,
         LengthsSettled(lengths), pc = "callout", AnswerAt(m, at) = "Pass",
         AnswerAt(s, at) # "Abort", rest[at] = TextAt(rest, m, s, lengths, at)
  PROVE  rest[at] = (IF AnswerAt(s, at) = "Pass" THEN ReplacementAt(at, caseLen)
                     ELSE Kept(at, at + Width)) \o TextAfter(rest, at)
<1>1. ReplacementAt(at, lengths) = ReplacementAt(at, caseLen)
  <2>1. Settled(at)
    BY DEF Settled
  <2>2. /\ at \in DOMAIN lengths <=> at \in DOMAIN caseLen
        /\ at \in DOMAIN caseLen => lengths[at] = caseLen[at]
    BY <2>1 DEF LengthsSettled
  <2> QED
    BY <2>2 DEF ReplacementAt
<1>2. TextAt(rest, m, s, lengths, at) =
        (IF AnswerAt(s, at) = "Pass" THEN ReplacementAt(at, lengths) ELSE Kept(at, at + Width))
          \o TextAfter(rest, at)
  BY TextMatched
<1> QED
  BY <1>1, <1>2

LEMMA AnsweredText ==
  ASSUME TextInv, Answered, NEW m, NEW s, NEW lengths, NEW rest, Foreseen(m, s, lengths, rest)'
  PROVE  Told(rest)'
<1> DEFINE r == matchQueue.replayed
           q == substQueue.replayed
           next == at + Width
<1>1. /\ pc = "callout" /\ pos' = next /\ at' = next
      /\ pc' \in {"match", "tail"} /\ (pc' = "match" => global)
      /\ UNCHANGED <<mark, matchQueue, matchLog>>
      /\ ~input.substCallout =>
           buf' = buf /\ (global => pc' = "match") /\ UNCHANGED <<substQueue, substLog>>
      /\ input.substCallout /\ ~buf.overflowed => SubstAnswered
  BY AnsweredFacts DEF TextInv, AnswersInv
<1>2. input' = input /\ caseLen' = caseLen /\ (buf.overflowed => buf'.overflowed)
  BY AnsweredPlaces
<1>3. pc \in Working
  BY <1>1 DEF Working, Searching
<1>4. /\ TypeOK /\ HeapInv /\ at \in Nat /\ next <= input.length /\ next \in Nat /\ at <= next
      /\ Width \in Nat /\ Width >= 1 /\ input.length \in Nat
      /\ at \in 0..input.length /\ next \in 0..input.length
      /\ buf \in PassBuffers /\ mark.offset \in Nat /\ mark.offset <= Len(buf.out)
  <2>1. /\ TypeOK /\ HeapInv /\ at \in Nat /\ next <= input.length
        /\ Width \in Nat /\ Width >= 1 /\ input.length \in Nat
        /\ buf \in PassBuffers /\ mark.offset \in Nat /\ mark.offset <= Len(buf.out)
    BY <1>1, <1>3, PassTexts
  <2> QED
    BY <2>1
<1>5. LogsGrow
  BY LogsOnlyGrow DEF TextInv, Next, Answered
<1>6. SettledKept
  <2>1. \A p \in Nat : p <= at => p < next
    BY <1>4
  <2> QED
    BY <1>1, <1>2, <2>1 DEF SettledKept, Settled
<1>7. Foreseen(m, s, lengths, rest) /\ Later(m, matchLog') /\ Later(s, substLog')
  BY <1>2, <1>4, <1>5, <1>6, FutureBack
<1>8. /\ \A p \in 0..input.length :
           rest[p] \in Seq(Tokens) /\ rest[p] = TextAt(rest, m, s, lengths, p)
      /\ Later(m, matchLog) /\ Later(s, substLog) /\ LengthsSettled(lengths)
      /\ ~input.matchCallout => m = << >>
      /\ ~input.substCallout => s = << >>
  BY <1>4, <1>7, ForeseenTexts DEF Foreseen, Future
<1>9. /\ matchLog \in AnswerLogs /\ substLog \in AnswerLogs /\ Len(matchLog) \in Nat
      /\ Len(substLog) \in Nat /\ r \in Nat /\ q \in Nat
  BY <1>4, LogEntries DEF TypeOK, ReplayQueues
<1>10. MatchLogInv /\ MatchCursor /\ SubstLogInv /\ GlobalKept
  BY DEF TextInv, Inv, ReplayInv, AnswersInv
<1>11. AnswerAt(m, at) = "Pass" /\ ~MatchAborted
  <2>1. CASE input.matchCallout
    <3>1. r <= Len(matchLog) /\ r >= 1 /\ matchLog[r][1] = at /\ matchLog[r][2] = "Pass"
      BY <1>1, <1>10, <2>1 DEF MatchCursor, Searching
    <3>2. r \in 1..Len(matchLog)
      BY <1>9, <3>1
    <3>3. AnswerAt(m, at) = "Pass" /\ r <= Len(m) /\ Len(m) \in Nat
      BY <1>8, <1>9, <3>1, <3>2, AnswerStays
    <3>4. ASSUME NEW i \in 1..Len(matchLog), i <= r, matchLog[i][2] = "Abort"
          PROVE  FALSE
      <4>1. i = Len(m)
        BY <1>8, <1>9, <3>4, AnswerStays
      <4>2. i = r
        BY <1>9, <3>3, <3>4, <4>1
      <4> QED
        BY <3>1, <3>4, <4>2
    <3> QED
      BY <3>3, <3>4 DEF MatchAborted
  <2>2. CASE ~input.matchCallout
    <3>1. m = << >> /\ matchLog = << >>
      BY <1>8, <1>10, <2>2 DEF MatchLogInv
    <3>2. 1..Len(matchLog) = {}
      BY <3>1
    <3> QED
      BY <3>1, <3>2, NothingAnswered DEF MatchAborted
  <2> QED
    BY <2>1, <2>2
<1> HIDE DEF r
<1> SUFFICES ASSUME ~buf'.overflowed
             PROVE  Told(rest)'
  BY <1>1, <1>2, ToldAfter
<1>12. ~buf.overflowed
  BY <1>2
<1> DEFINE answer == AnswerAt(s, at)
           text == IF answer = "Pass" THEN ReplacementAt(at, caseLen) ELSE Kept(at, next)
<1>13. /\ TextBefore \in Seq(Tokens) /\ Rewind(buf) \in PassBuffers
       /\ Rewind(buf).out = TextBefore
       /\ buf.out = TextBefore \o ReplacementAt(at, caseLen)
       /\ Kept(at, next) \in Seq(Tokens) /\ ReplacementAt(at, caseLen) \in Seq(Tokens)
  <2>1. LengthsTyped(caseLen) /\ buf.out = TextBefore \o ReplacementAt(at, caseLen)
    BY <1>1, <1>12 DEF TextInv, InsertedHere
  <2>2. Kept(at, next) \in Seq(Tokens) /\ ReplacementAt(at, caseLen) \in Seq(Tokens)
    BY <1>4, <2>1, KeptText, ReplacedText
  <2> QED
    BY <1>4, <2>1, <2>2, RewindText
<1>14. /\ ~SubstAborted /\ answer \in {"Pass", "Fail", "Abort"}
       /\ answer \in {"Pass", "Fail"} => ~SubstAborted' /\ (global => pc' = "match")
       /\ answer = "Abort" => SubstAborted'
       /\ buf'.out = TextBefore \o text
  <2>1. CASE ~input.substCallout
    <3>1. s = << >> /\ substLog = << >> /\ buf' = buf /\ substLog' = substLog
      BY <1>1, <1>8, <1>10, <2>1 DEF SubstLogInv
    <3>2. 1..Len(substLog) = {}
      BY <3>1
    <3>3. answer = "Pass"
      BY <3>1, NothingAnswered
    <3> QED
      BY <1>1, <1>13, <2>1, <3>1, <3>2, <3>3 DEF SubstAborted
  <2>2. CASE input.substCallout
    <3>1. /\ q + 1 <= Len(substLog') /\ substQueue'.replayed = q + 1
          /\ substLog'[q + 1][1] = at
          /\ substLog'[q + 1][2] \in {"Pass", "Fail"} /\ global => pc' = "match"
          /\ buf' = IF substLog'[q + 1][2] = "Pass" THEN buf
                    ELSE CheckMemCpy(Rewind(buf), Kept(at, next))
      BY <1>1, <1>12, <2>2 DEF SubstAnswered
    <3>2. Len(substLog') \in Nat
      BY <1>5, <1>9 DEF LogsGrow, Extends
    <3>3. q + 1 \in 1..Len(substLog')
      BY <1>9, <3>1, <3>2
    <3>4. /\ AnswerAt(s, substLog'[q + 1][1]) = substLog'[q + 1][2]
          /\ substLog'[q + 1][2] \in {"Pass", "Fail", "Abort"}
          /\ q + 1 <= Len(s) /\ Len(s) \in Nat
      BY <1>7, <3>2, <3>3, AnswerStays
    <3>5. answer = substLog'[q + 1][2] /\ q < Len(s)
      BY <1>9, <3>1, <3>4
    <3> HIDE DEF answer
    <3>6. \A i \in 1..Len(substLog) : i <= q => substLog[i][2] # "Abort"
      BY <1>8, <1>9, <3>5, NoAbortBefore
    <3>7. \A i \in 1..Len(substLog') : i <= q => substLog'[i][2] # "Abort"
      BY <1>7, <1>9, <3>2, <3>5, NoAbortBefore
    <3>8. answer # "Abort" => ~SubstAborted'
      <4> SUFFICES ASSUME NEW i \in 1..Len(substLog'), i <= q + 1, answer # "Abort"
                   PROVE  substLog'[i][2] # "Abort"
        BY <3>1 DEF SubstAborted
      <4>1. i <= q \/ i = q + 1
        BY <1>9, <3>2
      <4> QED
        BY <3>5, <3>7, <4>1
    <3>9. answer = "Abort" => SubstAborted'
      <4>1. q + 1 <= substQueue'.replayed
        BY <1>9, <3>1
      <4> DEFINE i == q + 1
      <4>2. i \in 1..Len(substLog') /\ i <= substQueue'.replayed /\ substLog'[i][2] = answer
        BY <3>3, <3>5, <4>1
      <4> HIDE DEF i
      <4> QED
        BY <4>2 DEF SubstAborted
    <3>10. buf'.out = TextBefore \o text
      <4>1. CASE answer = "Pass"
        BY <1>13, <3>1, <3>5, <4>1
      <4>2. CASE answer # "Pass"
        <5>1. buf' = CheckMemCpy(Rewind(buf), Kept(at, next))
          BY <3>1, <3>5, <4>2
        <5> QED
          BY <1>13, <4>2, <5>1, CheckMemCpyWrites
      <4> QED
        BY <4>1, <4>2
    <3> QED
      BY <3>1, <3>4, <3>5, <3>6, <3>8, <3>9, <3>10 DEF SubstAborted
  <2> QED
    BY <2>1, <2>2
<1> HIDE DEF q
<1>15. ~MatchAborted'
  BY <1>1, <1>11 DEF MatchAborted
<1> DEFINE whole == WholeText(rest)
           left == Kept(next, input.length)
<1>16. whole = TextBefore \o rest[at]
  <2>1. Told(rest)
    BY <1>7 DEF TextInv, FutureInv
  <2> QED
    BY <1>1, <1>11, <1>12, <1>14, <2>1 DEF Told, WrittenSoFar, AbortPassed
<1>17. /\ text \in Seq(Tokens) /\ left \in Seq(Tokens) /\ rest[next] \in Seq(Tokens)
      /\ TextBefore \in Seq(Tokens)
  BY <1>4, <1>8, <1>13, KeptText
<1>18. buf'.out = TextBefore \o text
  BY <1>14
<1>19. rest[at] = TextAt(rest, m, s, lengths, at)
  BY <1>4, <1>8
<1> HIDE DEF whole
<1>20. CASE answer = "Abort"
  <2>1. rest[at] = Kept(at, input.length)
    BY <1>4, <1>11, <1>19, <1>20, TextStopped
  <2>2. Kept(at, next) \o left = Kept(at, input.length)
    <3> HIDE DEF next
    <3> QED
      BY <1>4, KeptJoins
  <2>3. text = Kept(at, next)
    BY <1>20
  <2> HIDE DEF text, left, answer
  <2>4. buf'.out \o left = TextBefore \o (text \o left)
    BY <1>17, <1>18, JoinedAgain
  <2>5. whole = buf'.out \o left
    BY <1>16, <2>1, <2>2, <2>3, <2>4
  <2> QED
    BY <1>1, <1>2, <1>14, <1>20, <2>5, ToldAfter DEF whole, left, AbortPassed
<1>21. CASE answer # "Abort"
  <2>1. rest[at] = text \o TextAfter(rest, at)
    BY <1>1, <1>4, <1>8, <1>11, <1>19, <1>21, TextHere
  <2>2. global = input.global
    BY <1>1, <1>10 DEF GlobalKept, Searching
  <2>3. /\ pc' = "match" => TextAfter(rest, at) = rest[next]
        /\ pc' = "tail" => TextAfter(rest, at) = left
    BY <1>1, <1>14, <1>21, <2>2 DEF TextAfter
  <2> HIDE DEF text, answer, left
  <2>4. /\ buf'.out \o rest[next] = TextBefore \o (text \o rest[next])
        /\ buf'.out \o left = TextBefore \o (text \o left)
    <3>1. buf'.out \o rest[next] = TextBefore \o (text \o rest[next])
      <4> DEFINE beyond == rest[next]
      <4>1. beyond \in Seq(Tokens)
        BY <1>17
      <4> HIDE DEF beyond
      <4>2. buf'.out \o beyond = TextBefore \o (text \o beyond)
        <5>1. TextBefore \in Seq(Tokens) /\ text \in Seq(Tokens)
          BY <1>17
        <5>2. (TextBefore \o text) \o beyond = TextBefore \o (text \o beyond)
          BY <4>1, <5>1, JoinedAgain
        <5> QED
          BY <1>18, <5>2
      <4> QED
        BY <4>2 DEF beyond
    <3>2. buf'.out \o left = TextBefore \o (text \o left)
      BY <1>17, <1>18, JoinedAgain
    <3> QED
      BY <3>1, <3>2
  <2>5. pc' = "tail" => whole = buf'.out \o left
    BY <1>16, <2>1, <2>3, <2>4
  <2>6. pc' = "match" => whole = buf'.out \o (Kept(next, next) \o rest[next])
    <3>1. Kept(next, next) \o rest[next] = rest[next]
      BY <1>4, <1>17, NothingKept, ConcatEmptySeq
    <3> QED
      BY <1>16, <2>1, <2>3, <2>4, <3>1
  <2>7. ~AbortPassed'
    BY <1>14, <1>15, <1>21 DEF AbortPassed
  <2> QED
    BY <1>1, <1>2, <2>5, <2>6, <2>7, ToldAfter DEF whole, left
<1> QED
  BY <1>20, <1>21

LEMMA FinishText ==
  ASSUME TextInv, FinishPass
  PROVE  /\ InsertedHere' /\ InSubject'
         /\ \A m, s, lengths, rest : Foreseen(m, s, lengths, rest)' => Told(rest)'
<1> DEFINE text == Kept(pos, input.length)
           body == CheckMemCpy(buf, text)
           b == CheckMemCpy(body, Terminator)
<1>1. /\ pc = "tail" /\ pc' = "returned" /\ buf' = b
      /\ UNCHANGED <<input, mark, pos, at, subs, matchQueue, substQueue, matchLog, substLog, caseLen>>
      /\ \/ ~b.overflowed /\ rc' = subs /\ outputLength' = Len(b.out) - 1
         \/ b.overflowed /\ rc' = PCRE2_ERROR_NOMEMORY
  BY DEF FinishPass, driver, queues, history
<1>2. pc \in Working
  BY <1>1 DEF Working, Searching
<1>3. /\ TypeOK /\ pos \in Nat /\ subs \in Nat /\ buf \in PassBuffers
      /\ input.length \in Nat /\ input.start \in Nat /\ input.start <= input.length
      /\ buf.out \in Seq(Tokens)
  BY <1>2, PassTexts
<1>4. pos <= input.length /\
      (subs = 0 => pos = input.start /\ (~buf.overflowed => buf.out = Kept(0, input.start)))
  BY <1>1 DEF TextInv, InSubject
<1>5. text \in Seq(Tokens) /\ Terminator \in Seq(Tokens) /\ Len(Terminator) = 1
  BY <1>3, KeptText, TerminatorText
<1> HIDE DEF text
<1>6. InsertedHere' /\ InSubject'
  <2>1. LengthsTyped(caseLen)' <=> LengthsTyped(caseLen)
    BY <1>1 DEF LengthsTyped
  <2> QED
    BY <1>1, <2>1 DEF TextInv, InsertedHere, InSubject
<1>7. body \in PassBuffers
  BY <1>3, <1>5, CheckMemCpyFits
<1>8. LogsGrow /\ SettledKept
  BY <1>1 DEF LogsGrow, SettledKept, Settled
<1>9. ~body.overflowed => ~buf.overflowed /\ body.out = buf.out \o text
  BY <1>3, <1>5, CheckMemCpyWrites
<1> HIDE DEF body
<1>10. ~b.overflowed => ~body.overflowed /\ b.out = body.out \o Terminator
  BY <1>5, <1>7, CheckMemCpyWrites
<1>11. b \in PassBuffers
  BY <1>5, <1>7, CheckMemCpyFits
<1> HIDE DEF b
<1>12. body.out \in Seq(Tokens) /\ Len(body.out) \in Nat
  BY <1>7, LenProperties DEF PassBuffers
<1>13. ~b.overflowed => SubSeq(b.out, 1, Len(b.out) - 1) = body.out
  <2> SUFFICES ASSUME ~b.overflowed
               PROVE  SubSeq(b.out, 1, Len(b.out) - 1) = body.out
    OBVIOUS
  <2>1. b.out = body.out \o Terminator
    BY <1>10
  <2>2. Len(body.out \o Terminator) = Len(body.out) + Len(Terminator)
    BY <1>5, <1>12, ConcatProperties
  <2>3. Len(b.out) - 1 = Len(body.out)
    BY <1>5, <1>12, <2>1, <2>2
  <2>4. SubSeq(body.out \o Terminator, 1, Len(body.out)) = body.out
    BY <1>5, <1>12, PrefixOfJoined
  <2> QED
    BY <2>1, <2>3, <2>4
<1>14. ASSUME NEW m, NEW s, NEW lengths, NEW rest, Foreseen(m, s, lengths, rest)'
       PROVE  Told(rest)'
  <2>1. Foreseen(m, s, lengths, rest)
    BY <1>1, <1>3, <1>8, <1>14, FutureBack
  <2>2. ~buf.overflowed => WholeText(rest) = buf.out \o text
    BY <1>1, <2>1 DEF TextInv, FutureInv, Told, WrittenSoFar, text
  <2>3. rc' >= 0 => ~b.overflowed /\ rc' = subs /\ outputLength' = Len(b.out) - 1
    BY <1>1 DEF PCRE2_ERROR_NOMEMORY
  <2>4. ~b.overflowed => WholeText(rest) = SubSeq(b.out, 1, Len(b.out) - 1)
    BY <1>9, <1>10, <1>13, <2>2
  <2>5. ~b.overflowed /\ subs = 0 => WholeText(rest) = Kept(0, input.length)
    <3> SUFFICES ASSUME ~b.overflowed, subs = 0
                 PROVE  WholeText(rest) = Kept(0, input.length)
      OBVIOUS
    <3>1. buf.out = Kept(0, input.start) /\ text = Kept(input.start, input.length)
      BY <1>4, <1>9, <1>10 DEF text
    <3>2. Kept(0, input.start) \o Kept(input.start, input.length) = Kept(0, input.length)
      <4>1. /\ input.length \in Nat /\ input.start \in Nat /\ input.start <= input.length
            /\ 0 \in Nat /\ 0 <= input.start
        BY <1>3
      <4> QED
        BY <4>1, KeptJoins
    <3> QED
      BY <1>9, <1>10, <2>2, <3>1, <3>2
  <2> QED
    BY <1>1, <2>3, <2>4, <2>5, ToldAfter
<1> QED
  BY <1>6, <1>14

(* A pass that begins has had no answer.                                   *)
LEMMA CallText ==
  ASSUME TextInv, CallSubstitute
  PROVE  /\ InsertedHere' /\ InSubject'
         /\ \A m, s, lengths, rest : Foreseen(m, s, lengths, rest)' => Told(rest)'
<1> DEFINE text == Kept(0, input.start)
           b == CheckMemCpy(EmptyBuffer(outputLength), text)
<1>1. /\ pc = "call" /\ buf' = b
      /\ pos' = input.start /\ at' = input.start /\ subs' = 0
      /\ UNCHANGED <<input, matchLog, substLog, caseLen>>
      /\ matchQueue' = StartReplay(matchQueue) /\ substQueue' = StartReplay(substQueue)
      /\ pc' = "match" \/ (pc' = "returned" /\ rc' = PCRE2_ERROR_NOMEMORY)
  BY DEF CallSubstitute, Write, history
<1>2. /\ TypeOK /\ input \in Inputs /\ outputLength \in Nat
      /\ matchQueue \in ReplayQueues /\ substQueue \in ReplayQueues
      /\ matchLog \in AnswerLogs /\ substLog \in AnswerLogs
  BY DEF TextInv, Inv, TypeOK
<1>3. input.length \in Nat /\ input.start \in Nat /\ input.start <= input.length
  BY <1>2, InputIsTyped, StartAssumption
<1>4. matchQueue'.replayed = 0 /\ substQueue'.replayed = 0
  BY <1>1, <1>2 DEF StartReplay, ReplayQueues
<1>5. ~AbortPassed'
  <2>1. Len(matchLog) \in Nat /\ Len(substLog) \in Nat
    BY <1>2, LogEntries
  <2>2. /\ \A i \in 1..Len(matchLog) : ~(i <= 0)
        /\ \A i \in 1..Len(substLog) : ~(i <= 0)
    BY <2>1
  <2> QED
    BY <1>1, <1>4, <2>2 DEF AbortPassed, MatchAborted, SubstAborted
<1>6. text \in Seq(Tokens)
  BY <1>3, KeptText
<1>7. EmptyBuffer(outputLength) \in PassBuffers /\ EmptyBuffer(outputLength).out = << >>
  BY <1>2, EmptySeq DEF EmptyBuffer, PassBuffers
<1> HIDE DEF text
<1>8. ~b.overflowed => b.out = << >> \o text
  BY <1>6, <1>7, CheckMemCpyWrites
<1> HIDE DEF b
<1>9. << >> \o text = text
  BY <1>6, ConcatEmptySeq
<1>10. InsertedHere' /\ InSubject'
  <2>1. /\ LengthsTyped(caseLen)' <=> LengthsTyped(caseLen)
        /\ Kept(0, input.start)' = text
    BY <1>1 DEF LengthsTyped, Kept, text
  <2> QED
    BY <1>1, <1>3, <1>8, <1>9, <2>1 DEF TextInv, InsertedHere, InSubject
<1>11. ASSUME NEW m, NEW s, NEW lengths, NEW rest, Foreseen(m, s, lengths, rest)'
       PROVE  Told(rest)'
  <2>1. rest[input.start] \in Seq(Tokens)
    <3>1. Explains(rest, m, s, lengths)'
      BY <1>11 DEF Foreseen
    <3>2. rest \in [0..input.length -> Seq(Tokens)] /\ input.start \in 0..input.length
      BY <1>1, <1>3, <3>1 DEF Explains
    <3> QED
      BY <3>2
  <2>2. Kept(input.start, input.start) \o rest[input.start] = rest[input.start]
    BY <1>3, <2>1, NothingKept, ConcatEmptySeq
  <2>3. ~b.overflowed =>
          WholeText(rest) = b.out \o (Kept(input.start, input.start) \o rest[input.start])
    BY <1>8, <1>9, <2>2 DEF WholeText, text
  <2>4. pc' = "returned" => ~(rc' >= 0)
    BY <1>1 DEF PCRE2_ERROR_NOMEMORY
  <2> QED
    BY <1>1, <1>5, <2>3, <2>4, ToldAfter
<1> QED
  BY <1>10, <1>11

(* The driver takes nothing from the text of a pass that has succeeded.    *)
LEMMA DriverText ==
  ASSUME TextInv, DriverStep
  PROVE  /\ InsertedHere' /\ InSubject'
         /\ \A m, s, lengths, rest : Foreseen(m, s, lengths, rest)' => Told(rest)'
<1>1. TypeOK
  BY DEF TextInv, Inv
<1>2. /\ pc' \in {"call", "managed", "done"}
      /\ UNCHANGED <<input, buf, mark, pos, at, subs, global, rc, matchQueue, substQueue,
                     matchLog, substLog>>
      /\ pc' = "done" => Return
  BY <1>1, DriverStepFrame
<1>3. caseLen' = caseLen
  BY DEF DriverStep, Succeeded, Failed, AllocateExact, AllocateLarger, Return, history
<1>4. pc' = "managed" => Succeeded \/ rc < 0
  BY DEF DriverStep, Succeeded, Failed, AllocateExact, AllocateLarger, Return, CanRetry,
         PCRE2_ERROR_NOMEMORY
<1>5. InsertedHere' /\ InSubject'
  <2>1. LengthsTyped(caseLen)' <=> LengthsTyped(caseLen)
    BY <1>3 DEF LengthsTyped
  <2> QED
    BY <1>2, <1>3, <2>1 DEF TextInv, InsertedHere, InSubject
<1>6. ASSUME NEW m, NEW s, NEW lengths, NEW rest, Foreseen(m, s, lengths, rest)'
      PROVE  Told(rest)'
  <2>1. CASE pc' = "managed" /\ rc >= 0
    <3>1. Succeeded /\ rc \in Int
      BY <1>1, <1>4, <2>1 DEF TypeOK
    <3>2. pc = "returned" /\ outputLength' = outputLength
      BY <3>1 DEF Succeeded
    <3>3. LogsGrow /\ SettledKept
      BY <1>2, <1>3, <2>1 DEF LogsGrow, SettledKept, Settled
    <3>4. Foreseen(m, s, lengths, rest)
      BY <1>1, <1>2, <1>6, <3>3, FutureBack
    <3>5. WrittenOut(rest)
      BY <2>1, <3>2, <3>4 DEF TextInv, FutureInv, Told
    <3> QED
      BY <1>2, <2>1, <3>2, <3>5, ToldAfter DEF WrittenOut
  <2>2. CASE ~(pc' = "managed" /\ rc >= 0)
    BY <1>2, <2>2, ToldAfter
  <2> QED
    BY <2>1, <2>2
<1> QED
  BY <1>5, <1>6

-----------------------------------------------------------------------------
(* The text the caller gets.                                               *)

LEMMA ReturnedText ==
  ASSUME TextInv, Return
  PROVE  ResultAsDocumented'
<1> SUFFICES ASSUME outcome'.kind = "string", NothingAfterAbort'
             PROVE  outcome'.text = Documented'
  BY DEF ResultAsDocumented
<1>1. /\ pc = "managed" /\ outcome' = Outcome
      /\ UNCHANGED <<input, matchLog, substLog, caseLen>>
  BY DEF Return, queues, history
<1>2. TypeOK /\ ExnInv /\ MatchLogInv /\ SubstLogInv /\ LengthsTyped(caseLen)
  BY DEF TextInv, Inv, ReplayInv, InsertedHere
<1>3. ~exn /\ ~(rc < 0)
  BY <1>1 DEF Outcome
<1>4. outcome'.text = IF rc = 0 THEN Kept(0, input.length) ELSE SubSeq(buf.out, 1, outputLength)
  BY <1>1, <1>3 DEF Outcome
<1>5. rc >= 0 /\ matchLog \in AnswerLogs /\ substLog \in AnswerLogs
  BY <1>2, <1>3 DEF TypeOK
<1>6. Later(matchLog, matchLog) /\ Later(substLog, substLog)
  <2>1. /\ \A i \in 1..Len(matchLog) : matchLog[i][2] = "Abort" => i = Len(matchLog)
        /\ \A i \in 1..Len(substLog) : substLog[i][2] = "Abort" => i = Len(substLog)
    BY <1>1 DEF NothingAfterAbort
  <2>2. Len(matchLog) \in Nat /\ Len(substLog) \in Nat
    BY <1>5, LogEntries
  <2>3. Len(matchLog) <= Len(matchLog) /\ Len(substLog) <= Len(substLog)
    BY <2>2
  <2>4. ~Threw(matchLog) /\ ~Threw(substLog)
    BY <1>2, <1>3 DEF ExnInv
  <2> QED
    BY <1>2, <1>5, <2>1, <2>3, <2>4 DEF Later, MatchLogInv, SubstLogInv
<1> DEFINE rest == TextFrom(matchLog, substLog, caseLen)
<1>7. Explains(rest, matchLog, substLog, caseLen)
  <2>1. Answerable(matchLog, substLog, caseLen)
    BY <1>2, <1>5, <1>6 DEF Answerable, Later
  <2> QED
    BY <1>2, <2>1, TextFromExplains
<1> HIDE DEF rest
<1>8. Foreseen(matchLog, substLog, caseLen, rest)
  BY <1>2, <1>6, <1>7 DEF Foreseen, Future, LengthsSettled, MatchLogInv, SubstLogInv
<1>9. WrittenOut(rest)
  BY <1>1, <1>5, <1>8 DEF TextInv, FutureInv, Told
<1>10. outcome'.text = WholeText(rest)
  BY <1>4, <1>9 DEF WrittenOut
<1>11. Documented' = Documented
  BY <1>1 DEF Documented, TextFrom, TextAt, ReplacementAt, Kept
<1>12. Documented = WholeText(rest)
  BY DEF Documented, WholeText, rest
<1> QED
  BY <1>10, <1>11, <1>12

ResultInv ==
  ~input.faulty =>
    /\ AnswersInv /\ SizeInv
    /\ InsertedHere /\ InSubject /\ FutureInv
    /\ ResultAsDocumented

LEMMA ResultInit == Init => ResultInv
<1> SUFFICES ASSUME Init
             PROVE  ResultInv
  OBVIOUS
<1>1. pc = "call" /\ caseLen = << >>
  BY DEF Init
<1>2. AnswersInv /\ SizeInv
  BY PassesInit, SizeInit
<1>3. DOMAIN caseLen = {}
  BY <1>1
<1>4. InsertedHere
  BY <1>1, <1>3 DEF InsertedHere, LengthsTyped
<1>5. InSubject /\ FutureInv /\ ResultAsDocumented
  BY <1>1 DEF InSubject, FutureInv, Told, WrittenSoFar, ResultAsDocumented
<1> QED
  BY <1>2, <1>4, <1>5 DEF ResultInv

LEMMA EngineGoesOn ==
  ASSUME EngineStep
  PROVE  pc' # "done"
<1>1. CASE Tried
  BY <1>1 DEF Tried, MatchWithoutCallout, ReplayMatchCallout, RunMatchCallout, AfterMatchCallout,
              Matched, Write, CanMatch
<1>2. CASE NoMatch \/ SearchFails \/ FinishPass
  BY <1>2 DEF NoMatch, SearchFails, FinishPass
<1>3. CASE Cased
  BY <1>3 DEF Cased, SkipForceCase, GuessCase, RunCaseCallout
<1>4. CASE Answered
  BY <1>4 DEF Answered, SkipSubstCallout, AssumeWorstCase, ReplaySubstCallout, RunSubstCallout,
              AfterSubstCallout, NextMatch
<1> QED
  BY <1>1, <1>2, <1>3, <1>4 DEF EngineStep

LEMMA EngineTexts ==
  ASSUME TextInv, EngineStep
  PROVE  InsertedHere' /\ InSubject' /\ FutureInv'
<1>1. CASE Tried
  <2>1. \A m, s, lengths, rest : Foreseen(m, s, lengths, rest)' => Told(rest)'
    BY <1>1, TriedText
  <2>2. FutureInv'
    BY <2>1 DEF FutureInv
  <2> QED
    BY <1>1, <2>2, TriedPlaces
<1>2. CASE NoMatch
  <2>1. \A m, s, lengths, rest : Foreseen(m, s, lengths, rest)' => Told(rest)'
    BY <1>2, NoMatchText
  <2>2. FutureInv'
    BY <2>1 DEF FutureInv
  <2> QED
    BY <1>2, <2>2, NoMatchText
<1>3. CASE SearchFails
  BY <1>3 DEF SearchFails, TextInv
<1>4. CASE Cased
  <2>1. \A m, s, lengths, rest : Foreseen(m, s, lengths, rest)' => Told(rest)'
    BY <1>4, CasedText
  <2>2. FutureInv'
    BY <2>1 DEF FutureInv
  <2> QED
    BY <1>4, <2>2, CasedText
<1>5. CASE Answered
  <2>1. \A m, s, lengths, rest : Foreseen(m, s, lengths, rest)' => Told(rest)'
    BY <1>5, AnsweredText
  <2>2. FutureInv'
    BY <2>1 DEF FutureInv
  <2> QED
    BY <1>5, <2>2, AnsweredPlaces
<1>6. CASE FinishPass
  <2>1. \A m, s, lengths, rest : Foreseen(m, s, lengths, rest)' => Told(rest)'
    BY <1>6, FinishText
  <2>2. FutureInv'
    BY <2>1 DEF FutureInv
  <2> QED
    BY <1>6, <2>2, FinishText
<1> QED
  BY <1>1, <1>2, <1>3, <1>4, <1>5, <1>6 DEF EngineStep

LEMMA ResultStep == Inv /\ ResultInv /\ [Next]_vars => ResultInv'
<1> SUFFICES ASSUME Inv, ResultInv, [Next]_vars, ~input'.faulty
             PROVE  /\ AnswersInv' /\ SizeInv'
                    /\ InsertedHere' /\ InSubject' /\ FutureInv'
                    /\ ResultAsDocumented'
  BY DEF ResultInv
<1>1. input' = input
  BY LogsFrame
<1>2. TextInv /\ ResultAsDocumented
  BY <1>1 DEF ResultInv, TextInv
<1>3. AnswersInv' /\ SizeInv'
  BY <1>2, AnswersStep, SizeStep DEF TextInv
<1>4. CASE UNCHANGED vars
  <2>1. /\ input' = input /\ pc' = pc /\ caseLen' = caseLen /\ subs' = subs /\ buf' = buf
        /\ mark' = mark /\ pos' = pos /\ at' = at /\ rc' = rc /\ outputLength' = outputLength
        /\ matchLog' = matchLog /\ substLog' = substLog
        /\ matchQueue' = matchQueue /\ substQueue' = substQueue /\ outcome' = outcome
    BY <1>4 DEF vars
  <2>2. InsertedHere'
    BY <1>2, <2>1 DEF TextInv, InsertedHere, LengthsTyped, TextBefore, ReplacementAt
  <2>3. InSubject'
    BY <1>2, <2>1 DEF TextInv, InSubject, Kept
  <2>4. FutureInv'
    <3> SUFFICES ASSUME NEW m, NEW s, NEW lengths, NEW rest, Foreseen(m, s, lengths, rest)'
                 PROVE  Told(rest)'
      BY DEF FutureInv
    <3>1. LogsGrow /\ SettledKept
      BY <2>1 DEF LogsGrow, SettledKept, Settled
    <3>2. Foreseen(m, s, lengths, rest)
      BY <1>2, <2>1, <3>1, FutureBack DEF TextInv, Inv
    <3>3. Told(rest)
      BY <1>2, <3>2 DEF TextInv, FutureInv
    <3> QED
      BY <2>1, <3>3 DEF Told, WrittenSoFar, WrittenOut, Ahead, AbortPassed, MatchAborted,
                        SubstAborted, WholeText, TextBefore, Kept
  <2>5. ResultAsDocumented'
    <3>1. UNCHANGED <<input, matchLog, substLog, caseLen>>
      BY <2>1
    <3>2. NothingAfterAbort' <=> NothingAfterAbort
      BY <3>1 DEF NothingAfterAbort
    <3>3. Documented' = Documented
      BY <3>1 DEF Documented, TextFrom, TextAt, ReplacementAt, Kept
    <3> QED
      BY <1>2, <2>1, <3>2, <3>3 DEF ResultAsDocumented
  <2> QED
    BY <1>3, <2>2, <2>3, <2>4, <2>5
<1>5. CASE CallSubstitute
  <2>1. InsertedHere' /\ InSubject'
    BY <1>2, <1>5, CallText
  <2>2. \A m, s, lengths, rest : Foreseen(m, s, lengths, rest)' => Told(rest)'
    BY <1>2, <1>5, CallText
  <2>3. FutureInv'
    BY <2>2 DEF FutureInv
  <2>4. pc' # "done"
    BY <1>5 DEF CallSubstitute, Write
  <2> QED
    BY <1>3, <2>1, <2>3, <2>4 DEF ResultAsDocumented
<1>6. CASE EngineStep
  <2>1. InsertedHere' /\ InSubject' /\ FutureInv'
    BY <1>2, <1>6, EngineTexts
  <2>2. pc' # "done"
    BY <1>6, EngineGoesOn
  <2> QED
    BY <1>3, <2>1, <2>2 DEF ResultAsDocumented
<1>7. CASE DriverStep
  <2>1. InsertedHere' /\ InSubject'
    BY <1>2, <1>7, DriverText
  <2>2. \A m, s, lengths, rest : Foreseen(m, s, lengths, rest)' => Told(rest)'
    BY <1>2, <1>7, DriverText
  <2>3. FutureInv'
    BY <2>2 DEF FutureInv
  <2>4. pc' = "done" => Return
    BY <1>2, <1>7, DriverStepFrame DEF TextInv, Inv
  <2>5. CASE Return
    BY <1>2, <1>3, <2>1, <2>3, <2>5, ReturnedText
  <2>6. CASE ~Return
    BY <1>3, <2>1, <2>3, <2>4, <2>6 DEF ResultAsDocumented
  <2> QED
    BY <2>5, <2>6
<1> QED
  BY <1>4, <1>5, <1>6, <1>7 DEF Next, EngineStep, DriverStep, Tried, Cased, Answered, Done

(* The string the caller of Substitute gets is the subject with the        *)
(* replacements the callouts let pass, and depends on what they answered   *)
(* alone: not on the number of passes, on the buffer a pass was given, on  *)
(* what was rewound, nor on the answers that were replayed. It is so when  *)
(* nothing fails and no callout has run after one that aborted.            *)
THEOREM SubstituteResultAsDocumented == Spec => []ResultAsDocumented
<1>1. Inv /\ ResultInv => ResultAsDocumented
  BY DEF ResultInv, ResultAsDocumented
<1> QED
  BY <1>1, ResultInit, ResultStep, Invariance, PTL DEF Spec

=============================================================================
