-------------------------- MODULE MatchIterationProofs --------------------------
(***************************************************************************)
(* Proofs about MatchIteration, for a subject of any length and every set  *)
(* of patterns: its types and, for patterns that do not use \K in a        *)
(* lookaround, the order of the matches handed out.                        *)
(***************************************************************************)
EXTENDS MatchIteration, SequenceTheorems, TLAPS

Lookaroundless == \A p \in Patterns : WellBehaved(p)

(* A loop body runs on a match. *)
TypeInv ==
  /\ TypeOK
  /\ pattern \in Patterns
  /\ pc = "handling" => match # NoMatchYet /\ stage = "running"

(* The match a search continues from is the last one handed out (as long   *)
(* as the history has room), and none of them ends before it begins.       *)
LastInv ==
  /\ stage = "new" => found = << >>
  /\ match # NoMatchYet =>
       /\ found # << >>
       /\ Len(found) < MaxFound => match = found[Len(found)]

(* Rank grows with every match. *)
Rank(m) == 2 * m.end + (IF m.index = m.end THEN 2 ELSE 1)

RankInv == found # << >> => Len(found) <= Rank(found[Len(found)])

ForwardInv == \A i \in 1..Len(found) : found[i].index <= found[i].end

OrderInv == TypeInv /\ LastInv /\ ForwardInv /\ RankInv /\ Sorted

-----------------------------------------------------------------------------
(* What a search returns is one of the pattern's matches, from a position  *)
(* not before the start of the search, and not rejected there.             *)
LEMMA SearchFinds ==
  ASSUME NEW p \in Patterns, NEW from \in Int, NEW notEmpty \in BOOLEAN,
         NEW m \in Search(p, from, notEmpty)
  PROVE  /\ m \in MatchType
         /\ from <= m.from
         /\ ~Rejected(m, from, notEmpty)
         /\ WellBehaved(p) => m.from <= m.index /\ m.index <= m.end
<1>1. PICK a \in Successes(p, from, notEmpty) : m = p[a[1]][a[2]]
  BY DEF Search
<1>2. PICK x \in DOMAIN p : a \in {x} \X DOMAIN p[x]
  BY <1>1 DEF Successes
<1>3. a[1] = x /\ a[2] \in DOMAIN p[x]
  BY <1>2
<1>4. a[1] >= from /\ ~Rejected(p[a[1]][a[2]], from, notEmpty)
  BY <1>1 DEF Successes
<1>5. x \in 0..Length
      /\ p[x] \in Seq([from : {x}, index : 0..Length, end : 0..Length])
  BY <1>2, IterationAssumption
<1>6. m \in [from : {x}, index : 0..Length, end : 0..Length]
  <2> DEFINE S == [from : {x}, index : 0..Length, end : 0..Length]
             matches == p[x]
             i == a[2]
  <2>1. matches \in Seq(S) /\ i \in DOMAIN matches
    BY <1>3, <1>5
  <2>2. m = matches[i]
    BY <1>1, <1>3
  <2> HIDE DEF S, matches, i
  <2>3. i \in 1..Len(matches)
    BY <2>1, LenProperties
  <2>4. m \in S
    BY <2>1, <2>2, <2>3, ElementOfSeq
  <2> QED BY <2>4 DEF S
<1>7. m \in MatchType /\ m.from = x
  BY <1>5, <1>6 DEF MatchType
<1>8. WellBehaved(p) => x <= m.index /\ m.index <= m.end
  BY <1>1, <1>2, <1>3 DEF WellBehaved
<1> QED
  BY <1>1, <1>3, <1>4, <1>5, <1>7, <1>8

LEMMA NextStart ==
  ASSUME NEW m \in MatchType
  PROVE  /\ m # NoMatchYet
         /\ StartOfNextMatch(m) \in 0..Length
         /\ NotEmptyAtStart(m) \in BOOLEAN
BY IterationAssumption DEF MatchType, NoMatchYet, Match, StartOfNextMatch, NotEmptyAtStart

(* A kept piece runs between two offsets of the subject. *)
LEMMA KeepType ==
  ASSUME NEW s \in Seq((0..Length) \X (0..Length)),
         NEW from \in 0..Length, NEW to \in 0..Length
  PROVE  Append(s, <<from, to>>) \in Seq((0..Length) \X (0..Length))
BY AppendProperties

-----------------------------------------------------------------------------
LEMMA InitType == Init => TypeInv
<1> SUFFICES ASSUME Init PROVE TypeInv
  OBVIOUS
<1>1. /\ DOMAIN pattern = 0..Length /\ api \in Apis /\ start \in Starts
      /\ pattern \in Patterns
  BY IterationAssumption DEF Init
<1>2. count \in Int
  BY IterationAssumption DEF Init
<1>3. position \in 0..Length /\ failures \in 0..MaxFailures
  BY IterationAssumption DEF Init
<1>4. found \in Seq(MatchType) /\ pieces \in Seq((0..Length) \X (0..Length))
  BY DEF Init
<1>5. pc \in Places /\ pc # "handling" /\ match = NoMatchYet
      /\ vector \in BOOLEAN /\ stage \in {"new", "running", "ended"}
  BY DEF Init, Places
<1> QED
  BY <1>1, <1>2, <1>3, <1>4, <1>5 DEF TypeInv, TypeOK

LEMMA FoundType ==
  ASSUME TypeInv, NEW m \in MatchType, Found(m)
  PROVE  TypeInv'
<1> USE DEF TypeInv, TypeOK, Found, given
<1>1. m # NoMatchYet
  BY NextStart
<1>2. found' \in Seq(MatchType)
  BY AppendProperties
<1> QED
  BY <1>1, <1>2 DEF Places

LEMMA NotFoundType ==
  ASSUME TypeInv, NotFound
  PROVE  TypeInv'
<1> USE DEF TypeInv, TypeOK, NotFound, given
<1>1. pieces' \in Seq((0..Length) \X (0..Length))
  <2>1. Length \in 0..Length
    BY IterationAssumption
  <2> QED BY <2>1, KeepType DEF KeepRest, Keep
<1> QED
  BY <1>1 DEF Places

LEMMA SearchType ==
  ASSUME TypeInv, NEW from \in Int, NEW notEmpty \in BOOLEAN,
         SearchFrom(from, notEmpty)
  PROVE  TypeInv'
<1>1. ASSUME NEW m \in Search(pattern, from, notEmpty), Found(m)
      PROVE  TypeInv'
  <2>1. m \in MatchType
    BY <1>1, SearchFinds DEF TypeInv
  <2> QED BY <1>1, <2>1, FoundType
<1>2. CASE NotFound
  BY <1>2, NotFoundType
<1>3. CASE /\ failures < MaxFailures
           /\ failures' = failures + 1
           /\ stage' = IF IsStringApi THEN "ended" ELSE "running"
           /\ vector' = (vector /\ api = "BufferMatches")
           /\ pc' = "threw"
           /\ UNCHANGED <<given, match, found, position, pieces, count>>
  <2>1. vector' \in BOOLEAN
    BY <1>3
  <2>2. failures' \in 0..MaxFailures
    BY <1>3, IterationAssumption DEF TypeInv, TypeOK
  <2> QED BY <1>3, <2>1, <2>2 DEF TypeInv, TypeOK, given, Places
<1> QED
  BY <1>1, <1>2, <1>3 DEF SearchFrom

LEMMA StepType == TypeInv /\ [Next]_vars => TypeInv'
<1> SUFFICES ASSUME TypeInv, [Next]_vars PROVE TypeInv'
  OBVIOUS
<1> USE DEF given, Places
<1>1. CASE Nothing
  <2>1. Length \in 0..Length
    BY IterationAssumption
  <2>2. pieces' \in Seq((0..Length) \X (0..Length))
    BY <1>1, <2>1, KeepType DEF Nothing, KeepRest, Keep, TypeInv, TypeOK
  <2> QED BY <1>1, <2>2 DEF Nothing, TypeInv, TypeOK
<1>2. CASE HandOut
  BY <1>2 DEF HandOut, TypeInv, TypeOK
<1>3. CASE KeepPiece
  <2>1. match \in MatchType /\ match.index \in 0..Length
    BY <1>3 DEF KeepPiece, TypeInv, TypeOK, MatchType
  <2>2. StartOfNextMatch(match) \in 0..Length /\ Length \in 0..Length
    BY <2>1, NextStart, IterationAssumption
  <2>3. Keep(position, match.index) \in Seq((0..Length) \X (0..Length))
    BY <2>1, KeepType DEF Keep, TypeInv, TypeOK
  <2>4. Keep(position, match.index) \o <<<<StartOfNextMatch(match), Length>>>>
          \in Seq((0..Length) \X (0..Length))
    BY <2>2, <2>3, ConcatProperties
  <2>5. /\ position' \in 0..Length
        /\ pieces' \in Seq((0..Length) \X (0..Length))
        /\ count' \in Int
    <3>1. /\ position \in 0..Length /\ count \in Int
          /\ pieces \in Seq((0..Length) \X (0..Length))
      BY DEF TypeInv, TypeOK
    <3>2. CASE /\ pc' = "gaveUp" /\ UNCHANGED <<position, pieces, count>>
      BY <3>1, <3>2
    <3>3. CASE /\ position' = StartOfNextMatch(match)
               /\ count' = count - 1
               /\ \/ pieces' = Keep(position, match.index)
                  \/ pieces' = Keep(position, match.index)
                                 \o <<<<StartOfNextMatch(match), Length>>>>
      <4>1. position' \in 0..Length
        BY <2>2, <3>3
      <4>2. count' \in Int
        BY <3>1, <3>3
      <4>3. pieces' \in Seq((0..Length) \X (0..Length))
        BY <2>3, <2>4, <3>3, Zenon
      <4> QED BY <4>1, <4>2, <4>3
    <3> QED BY <1>3, <3>2, <3>3 DEF KeepPiece
  <2>6. pc' \in {"gaveUp", "done", "moving"}
    BY <1>3 DEF KeepPiece
  <2> QED BY <1>3, <2>5, <2>6 DEF KeepPiece, TypeInv, TypeOK
<1>4. CASE FirstMatch
  <2>1. start \in Int
    BY IterationAssumption DEF TypeInv, TypeOK
  <2> QED BY <1>4, <2>1, SearchType DEF FirstMatch
<1>5. CASE NextMatch
  <2>1. match \in MatchType
    BY <1>5 DEF NextMatch, TypeInv, TypeOK
  <2>2. StartOfNextMatch(match) \in Int /\ NotEmptyAtStart(match) \in BOOLEAN
    BY <2>1, NextStart, IterationAssumption
  <2> QED BY <1>5, <2>2, SearchType DEF NextMatch
<1>6. CASE NextMatchWithoutMatch
  <2>1. failures' \in 0..MaxFailures
    BY <1>6, IterationAssumption DEF NextMatchWithoutMatch, TypeInv, TypeOK
  <2> QED BY <1>6, <2>1 DEF NextMatchWithoutMatch, TypeInv, TypeOK
<1>7. CASE MoveEnded
  BY <1>7 DEF MoveEnded, TypeInv, TypeOK
<1>8. CASE CallAgain
  BY <1>8 DEF CallAgain, TypeInv, TypeOK
<1>9. CASE Done \/ UNCHANGED vars
  BY <1>9 DEF Done, vars, TypeInv, TypeOK
<1> QED
  BY <1>1, <1>2, <1>3, <1>4, <1>5, <1>6, <1>7, <1>8, <1>9 DEF Next

(* Every state of an enumeration is well typed: the offsets that Replace   *)
(* and Split cut the subject at are inside it, whatever the pattern does.  *)
THEOREM IterationTypeOK == Spec => []TypeOK
<1>1. Init => TypeInv
  BY InitType
<1>2. TypeInv /\ [Next]_vars => TypeInv'
  BY StepType
<1>3. TypeInv => TypeOK
  BY DEF TypeInv
<1> QED
  BY <1>1, <1>2, <1>3, PTL DEF Spec

-----------------------------------------------------------------------------
(* A match that a search reports after the last one begins where that one  *)
(* ends or later, and differs from every match before: a nonempty match is *)
(* left behind, an empty one is rejected by PCRE2_NOTEMPTY_ATSTART.        *)
LEMMA NextIsLater ==
  ASSUME OrderInv, Lookaroundless, NEW m \in MatchType,
         found # << >>, Len(found) < MaxFound,
         match = found[Len(found)], match \in MatchType,
         StartOfNextMatch(match) <= m.from,
         ~Rejected(m, StartOfNextMatch(match), NotEmptyAtStart(match)),
         m.from <= m.index, m.index <= m.end
  PROVE  /\ \A i \in 1..Len(found) : found[i].end <= m.index /\ found[i] # m
         /\ Rank(match) < Rank(m)
<1> DEFINE last == Len(found)
<1>1. /\ found \in Seq(MatchType) /\ Len(found) \in Nat
      /\ \A i \in 1..Len(found) : found[i] \in MatchType
  BY ElementOfSeq, LenProperties DEF OrderInv, TypeInv, TypeOK
<1>2. last \in 1..Len(found)
  BY <1>1, EmptySeq
<1>3. match.index <= match.end
  BY <1>2 DEF OrderInv, ForwardInv
<1>4. StartOfNextMatch(match) = match.end
  BY <1>3 DEF StartOfNextMatch, MatchType
<1>r. Rank(match) < Rank(m)
  <2>1. /\ match.index \in Int /\ match.end \in Int
        /\ m.from \in Int /\ m.index \in Int /\ m.end \in Int
    BY DEF MatchType
  <2>2. match.end <= m.index /\ m.index <= m.end
    BY <1>4, <2>1
  <2>3. match.end < m.end \/ match.index # match.end
    <3> SUFFICES ASSUME match.end = m.end, match.index = match.end PROVE FALSE
      BY <2>1, <2>2
    <3>1. m.index = match.end /\ MatchLength(match) = 0
      BY <2>1, <2>2 DEF MatchLength
    <3> QED BY <1>4, <3>1 DEF Rejected, NotEmptyAtStart
  <2> QED BY <2>1, <2>2, <2>3 DEF Rank
<1> SUFFICES ASSUME NEW i \in 1..Len(found)
             PROVE  found[i].end <= m.index /\ found[i] # m
  BY <1>r
<1> HIDE DEF last
<1>5. i = last \/ found[i].end <= match.index
  <2>1. i = last \/ i < last
    BY <1>1 DEF last
  <2> QED BY <1>2, <2>1 DEF OrderInv, Sorted, last
<1>6. /\ found[i].index \in Int /\ found[i].end \in Int
      /\ match.index \in Int /\ match.end \in Int
      /\ m.from \in Int /\ m.index \in Int /\ m.end \in Int
  BY <1>1 DEF MatchType
<1>7. i = last => found[i] = match
  BY DEF last
<1>8. found[i].end <= m.index
  BY <1>3, <1>4, <1>5, <1>6, <1>7
<1>9. found[i] # m
  <2> SUFFICES ASSUME found[i] = m PROVE FALSE
    OBVIOUS
  <2>1. m.index = m.end
    BY <1>6, <1>8
  <2>2. CASE i = last
    <3>1. match = m /\ MatchLength(match) = 0
      BY <1>6, <1>7, <2>1, <2>2 DEF MatchLength
    <3> QED BY <1>4, <2>1, <3>1 DEF Rejected, NotEmptyAtStart
  <2>3. CASE i # last
    <3>1. m.end <= match.index
      BY <1>5, <2>3
    <3>2. match.index = match.end /\ m.index = match.end
      BY <1>3, <1>4, <1>6, <2>1, <3>1
    <3>3. MatchLength(match) = 0
      BY <1>6, <3>2 DEF MatchLength
    <3> QED BY <1>4, <2>1, <3>2, <3>3 DEF Rejected, NotEmptyAtStart
  <2> QED BY <2>2, <2>3
<1> QED
  BY <1>8, <1>9

(* Recording a match that comes after all the others keeps them in order.  *)
LEMMA AppendSorted ==
  ASSUME OrderInv, NEW m \in MatchType, m.index <= m.end,
         found' = Append(found, m),
         \A i \in 1..Len(found) : found[i].end <= m.index /\ found[i] # m,
         found # << >> => Rank(found[Len(found)]) < Rank(m)
  PROVE  /\ Sorted' /\ ForwardInv' /\ RankInv'
         /\ found' # << >> /\ found'[Len(found')] = m
<1>1. found \in Seq(MatchType) /\ Len(found) \in Nat
  BY LenProperties DEF OrderInv, TypeInv, TypeOK
<1>2. /\ Len(found') = Len(found) + 1
      /\ found'[Len(found) + 1] = m
      /\ \A i \in 1..Len(found) : found'[i] = found[i]
  BY <1>1, AppendProperties
<1>3. Sorted'
  <2> SUFFICES ASSUME NEW i \in 1..Len(found'), NEW j \in 1..Len(found'), i < j
               PROVE  found'[i].end <= found'[j].index /\ found'[i] # found'[j]
    BY DEF Sorted
  <2>1. i \in 1..Len(found) /\ found'[i] = found[i]
    BY <1>1, <1>2
  <2>2. CASE j \in 1..Len(found)
    BY <1>2, <2>1, <2>2 DEF OrderInv, Sorted
  <2>3. CASE j = Len(found) + 1
    BY <1>2, <2>1, <2>3
  <2> QED BY <1>1, <1>2, <2>2, <2>3
<1>4. ForwardInv'
  <2> SUFFICES ASSUME NEW i \in 1..Len(found')
               PROVE  found'[i].index <= found'[i].end
    BY DEF ForwardInv
  <2>1. i \in 1..Len(found) \/ i = Len(found) + 1
    BY <1>1, <1>2
  <2> QED BY <1>2, <2>1 DEF OrderInv, ForwardInv
<1>5. found' # << >>
  BY <1>1, AppendProperties
<1>6. RankInv'
  <2>1. found'[Len(found')] = m
    BY <1>2
  <2>2. Rank(m) \in Int /\ Rank(m) >= 1
    BY IterationAssumption DEF MatchType, Rank
  <2>3. CASE found = << >>
    BY <1>2, <2>1, <2>2, <2>3 DEF RankInv
  <2>4. CASE found # << >>
    <3>1. found[Len(found)] \in MatchType
      BY <1>1, <2>4, ElementOfSeq, EmptySeq
    <3>2. Rank(found[Len(found)]) \in Int
      BY <3>1 DEF MatchType, Rank
    <3>3. Len(found) <= Rank(found[Len(found)])
      BY <2>4 DEF OrderInv, RankInv
    <3> QED BY <1>1, <1>2, <2>1, <2>2, <2>4, <3>2, <3>3 DEF RankInv
  <2> QED BY <2>3, <2>4
<1> QED
  BY <1>2, <1>3, <1>4, <1>5, <1>6

LEMMA SearchOrder ==
  ASSUME OrderInv, Lookaroundless, NEW from \in Int, NEW notEmpty \in BOOLEAN,
         SearchFrom(from, notEmpty),
         \/ found = << >>
         \/ /\ match # NoMatchYet
            /\ from = StartOfNextMatch(match)
            /\ notEmpty = NotEmptyAtStart(match)
  PROVE  (LastInv /\ ForwardInv /\ RankInv /\ Sorted)'
<1> USE DEF OrderInv
<1>1. ASSUME NEW m \in Search(pattern, from, notEmpty), Found(m)
      PROVE  (LastInv /\ ForwardInv /\ RankInv /\ Sorted)'
  <2>1. /\ m \in MatchType /\ m # NoMatchYet
        /\ from <= m.from /\ ~Rejected(m, from, notEmpty)
        /\ m.from <= m.index /\ m.index <= m.end
    BY <1>1, SearchFinds, NextStart DEF TypeInv, Lookaroundless
  <2>2. match' = m /\ stage' = "running"
    BY <1>1 DEF Found
  <2>3. CASE Len(found) < MaxFound
    <3>1. found' = Append(found, m)
      BY <1>1, <2>3 DEF Found
    <3>2. /\ \A i \in 1..Len(found) : found[i].end <= m.index /\ found[i] # m
          /\ found # << >> => Rank(found[Len(found)]) < Rank(m)
      <4>1. CASE found = << >>
        BY <4>1
      <4>2. CASE found # << >>
        <5>1. match # NoMatchYet /\ match \in MatchType
              /\ match = found[Len(found)]
          BY <2>3, <4>2 DEF LastInv, TypeInv, TypeOK
        <5> QED BY <2>1, <2>3, <4>2, <5>1, NextIsLater
      <4> QED BY <4>1, <4>2
    <3>3. /\ Sorted' /\ ForwardInv' /\ RankInv' /\ found' # << >>
          /\ found'[Len(found')] = m
      BY <2>1, <3>1, <3>2, AppendSorted
    <3> QED BY <2>2, <3>3 DEF LastInv
  <2>4. CASE ~(Len(found) < MaxFound)
    <3>1. found' = found
      BY <1>1, <2>4 DEF Found
    <3>2. found # << >>
      <4>1. MaxFound > 0
        BY IterationAssumption DEF MaxFound
      <4> QED BY <2>4, <4>1, EmptySeq
    <3> QED BY <2>2, <2>4, <3>1, <3>2 DEF LastInv, ForwardInv, RankInv, Sorted
  <2> QED BY <2>3, <2>4
<1>2. CASE NotFound
  BY <1>2 DEF NotFound, LastInv, ForwardInv, RankInv, Sorted
<1>3. CASE /\ stage' = IF IsStringApi THEN "ended" ELSE "running"
           /\ UNCHANGED <<match, found>>
  BY <1>3 DEF LastInv, ForwardInv, RankInv, Sorted
<1> QED
  BY <1>1, <1>2, <1>3 DEF SearchFrom

LEMMA InitOrder == Init => OrderInv
<1> SUFFICES ASSUME Init PROVE OrderInv
  OBVIOUS
<1>1. found = << >> /\ match = NoMatchYet /\ Len(found) = 0
  BY DEF Init
<1> QED
  BY <1>1, InitType DEF OrderInv, LastInv, ForwardInv, RankInv, Sorted

LEMMA StepOrder ==
  ASSUME Lookaroundless
  PROVE  OrderInv /\ [Next]_vars => OrderInv'
<1> SUFFICES ASSUME OrderInv, [Next]_vars
             PROVE  (LastInv /\ ForwardInv /\ RankInv /\ Sorted)'
  BY StepType DEF OrderInv
<1> USE DEF OrderInv
<1>1. CASE FirstMatch
  <2>1. start \in Int /\ found = << >>
    BY <1>1, IterationAssumption DEF FirstMatch, LastInv, TypeInv, TypeOK
  <2> QED BY <1>1, <2>1, SearchOrder DEF FirstMatch
<1>2. CASE NextMatch
  <2>1. match \in MatchType /\ match # NoMatchYet
    BY <1>2 DEF NextMatch, TypeInv, TypeOK
  <2>2. StartOfNextMatch(match) \in Int /\ NotEmptyAtStart(match) \in BOOLEAN
    BY <2>1, NextStart, IterationAssumption
  <2> QED BY <1>2, <2>1, <2>2, SearchOrder DEF NextMatch
<1>3. CASE UNCHANGED <<stage, match, found>>
  BY <1>3 DEF LastInv, ForwardInv, RankInv, Sorted
<1>4. CASE \/ Nothing \/ HandOut \/ KeepPiece \/ NextMatchWithoutMatch
           \/ MoveEnded \/ CallAgain \/ Done \/ UNCHANGED vars
  BY <1>3, <1>4 DEF Nothing, HandOut, KeepPiece, NextMatchWithoutMatch,
                    MoveEnded, CallAgain, Done, vars
<1> QED
  BY <1>1, <1>2, <1>4 DEF Next

(* Unless the pattern is allowed to use \K in a lookaround, the matches    *)
(* handed out are sorted, never overlap and are never the same twice.      *)
THEOREM IterationSorted ==
  ASSUME Lookaroundless
  PROVE  Spec => []Sorted
<1>1. Init => OrderInv
  BY InitOrder
<1>2. OrderInv /\ [Next]_vars => OrderInv'
  BY StepOrder
<1>3. OrderInv => Sorted
  BY DEF OrderInv
<1> QED
  BY <1>1, <1>2, <1>3, PTL DEF Spec

LEMMA OrderBounds ==
  ASSUME OrderInv
  PROVE  FewMatches
<1>1. found \in Seq(MatchType) /\ Len(found) \in Nat
  BY LenProperties DEF OrderInv, TypeInv, TypeOK
<1>2. CASE found = << >>
  BY <1>2, IterationAssumption DEF FewMatches
<1>3. CASE found # << >>
  <2>1. found[Len(found)] \in MatchType
    BY <1>1, <1>3, ElementOfSeq, EmptySeq
  <2>2. Rank(found[Len(found)]) <= 2 * (Length + 1)
    BY <2>1, IterationAssumption DEF MatchType, Rank
  <2>3. Rank(found[Len(found)]) \in Int
    BY <2>1 DEF MatchType, Rank
  <2>4. Len(found) <= Rank(found[Len(found)])
    BY <1>3 DEF OrderInv, RankInv
  <2> QED BY <1>1, <2>2, <2>3, <2>4, IterationAssumption DEF FewMatches
<1> QED
  BY <1>2, <1>3

(* For the same patterns, the enumeration cannot go on for ever: a subject *)
(* of n code units has at most 2(n + 1) matches.                           *)
THEOREM IterationFewMatches ==
  ASSUME Lookaroundless
  PROVE  Spec => []FewMatches
<1>1. Init => OrderInv
  BY InitOrder
<1>2. OrderInv /\ [Next]_vars => OrderInv'
  BY StepOrder
<1>3. OrderInv => FewMatches
  BY OrderBounds
<1> QED
  BY <1>1, <1>2, <1>3, PTL DEF Spec

-----------------------------------------------------------------------------
(* The history is never cut. *)
LEMMA HistoryComplete ==
  ASSUME OrderInv
  PROVE  Len(found) < MaxFound
<1>1. Len(found) \in Nat /\ Len(found) <= 2 * (Length + 1)
  BY OrderBounds, LenProperties DEF FewMatches, OrderInv, TypeInv, TypeOK
<1> QED
  BY <1>1, IterationAssumption DEF MaxFound

(* The variables of NextMatchLoop, named. *)
LoopOffset == IF found = << >> THEN start ELSE StartOfNextMatch(found[Len(found)])

LoopNotEmpty ==
  IF found = << >> THEN FALSE ELSE NotEmptyAtStart(found[Len(found)])

LoopMore ==
  /\ ~(stage = "ended" /\ pc = "done")
  /\ ~(found # << >> /\ IsLast(found[Len(found)]))

LEMMA SameSearch ==
  ASSUME NEW p, NEW from, NEW notEmpty
  PROVE  Loop!Search(p, from, notEmpty) = Search(p, from, notEmpty)
BY DEF Search, Successes, Rejected, Precedes,
       Loop!Search, Loop!Successes, Loop!Rejected, Loop!Precedes

(* A search made by an iterator is one of the loop's, from the same offset *)
(* with the same option.                                                   *)
LEMMA SearchInLoop ==
  ASSUME OrderInv, Lookaroundless, SearchFrom(LoopOffset, LoopNotEmpty),
         LoopOffset \in Int, LoopNotEmpty \in BOOLEAN,
         pc = "moving",
         found = << >> \/ found[Len(found)] \in MatchType
  PROVE  [Loop!Next]_(Loop!vars)
<1>1. ASSUME NEW m \in Search(pattern, LoopOffset, LoopNotEmpty), Found(m)
      PROVE  Loop!Find
  <2>1. /\ m \in MatchType /\ LoopOffset <= m.from
        /\ ~Rejected(m, LoopOffset, LoopNotEmpty)
        /\ m.from <= m.index /\ m.index <= m.end
    BY <1>1, SearchFinds DEF OrderInv, TypeInv, Lookaroundless
  <2>2. found' = Append(found, m) /\ pattern' = pattern /\ stage' = "running"
        /\ start' = start
    BY <1>1, HistoryComplete DEF Found, given
  <2>3. found' # << >> /\ found'[Len(found')] = m
    <3>1. found \in Seq(MatchType)
      BY DEF OrderInv, TypeInv, TypeOK
    <3>2. /\ Append(found, m) # << >>
          /\ Len(Append(found, m)) = Len(found) + 1
          /\ Append(found, m)[Len(found) + 1] = m
      BY <2>1, <3>1, AppendProperties
    <3> QED BY <2>2, <3>2
  <2>4. LoopMore
    <3>1. SUFFICES ASSUME found # << >>, IsLast(found[Len(found)]) PROVE FALSE
      BY DEF LoopMore
    <3>2. found[Len(found)].index = found[Len(found)].end
          /\ found[Len(found)].end = Length
      BY <3>1, IterationAssumption DEF IsLast, MatchType
    <3>3. LoopOffset = Length /\ LoopNotEmpty
      BY <3>1, <3>2, IterationAssumption
      DEF LoopOffset, LoopNotEmpty, StartOfNextMatch, NotEmptyAtStart, MatchLength
    <3>4. m.index = Length /\ m.end = Length
      BY <2>1, <3>3, IterationAssumption DEF MatchType
    <3> QED BY <2>1, <3>3, <3>4 DEF Rejected
  <2>5. StartOfNextMatch(m) = m.end
    BY <2>1 DEF StartOfNextMatch, MatchType
  <2>6. NotEmptyAtStart(m) = (m.index = m.end)
    BY <2>1 DEF NotEmptyAtStart, MatchLength, MatchType
  <2>7. ~(m.index # LoopOffset /\ m.end = LoopOffset)
    BY <2>1 DEF MatchType
  <2>8. LoopMore' = ~(m.index = m.end /\ m.index >= Length)
    BY <2>1, <2>2, <2>3 DEF LoopMore, IsLast
  <2>9. LoopOffset' = m.end /\ LoopNotEmpty' = (m.index = m.end)
    BY <2>3, <2>5, <2>6 DEF LoopOffset, LoopNotEmpty
  <2>10. Loop!NextMatch(m, LoopOffset)
    <3>1. /\ LoopMore' = ~(m.index = m.end /\ m.index >= Length)
          /\ LoopOffset' = m.end
          /\ LoopNotEmpty' = (m.index = m.end)
      BY <2>8, <2>9
    <3> QED BY <2>7, <3>1 DEF Loop!NextMatch, LoopMore, LoopOffset, LoopNotEmpty
  <2>11. m \in Loop!Search(pattern, LoopOffset, LoopNotEmpty)
    BY <1>1, SameSearch
  <2> QED
    BY <2>2, <2>4, <2>10, <2>11 DEF Loop!Find, LoopMore, LoopOffset, LoopNotEmpty
<1>2. CASE NotFound /\ Successes(pattern, LoopOffset, LoopNotEmpty) = {}
  <2>1. /\ found' = found /\ start' = start /\ pattern' = pattern
        /\ stage' = "ended" /\ pc' = "done"
    BY <1>2 DEF NotFound, given
  <2>2. LoopOffset' = LoopOffset /\ LoopNotEmpty' = LoopNotEmpty /\ ~LoopMore'
    BY <2>1 DEF LoopOffset, LoopNotEmpty, LoopMore
  <2>3. CASE LoopMore
    <3>1. Loop!Search(pattern, LoopOffset, LoopNotEmpty) = {}
      BY <1>2, SameSearch DEF Search
    <3>2. Loop!NoMatch
      BY <2>1, <2>2, <2>3, <3>1
      DEF Loop!NoMatch, LoopOffset, LoopNotEmpty, LoopMore
    <3> QED BY <3>2 DEF Loop!Next
  <2>4. CASE ~LoopMore
    <3>1. LoopMore' = LoopMore
      BY <2>2, <2>4 DEF LoopMore
    <3>2. UNCHANGED Loop!vars
      BY <2>1, <2>2, <3>1 DEF Loop!vars, LoopOffset, LoopNotEmpty, LoopMore
    <3> QED BY <3>2
  <2> QED BY <2>3, <2>4
<1>3. CASE /\ stage' = IF IsStringApi THEN "ended" ELSE "running"
           /\ pc' = "threw"
           /\ UNCHANGED <<given, found>>
  <2>1. UNCHANGED Loop!vars
    BY <1>3 DEF Loop!vars, given
  <2> QED BY <2>1
<1>4. CASE \E m \in Search(pattern, LoopOffset, LoopNotEmpty) : Found(m)
  BY <1>1, <1>4 DEF Loop!Next
<1> QED
  BY <1>2, <1>3, <1>4 DEF SearchFrom

LEMMA InitLoop == Init => Loop!Init
BY DEF Init, Loop!Init

LEMMA StepLoop ==
  ASSUME Lookaroundless, OrderInv, [Next]_vars
  PROVE  [Loop!Next]_(Loop!vars)
<1>1. CASE FirstMatch
  <2>1. found = << >> /\ LoopOffset = start /\ LoopNotEmpty = FALSE
    BY <1>1 DEF FirstMatch, OrderInv, LastInv, LoopOffset, LoopNotEmpty
  <2>2. start \in Int
    BY IterationAssumption DEF OrderInv, TypeInv, TypeOK
  <2> QED BY <1>1, <2>1, <2>2, SearchInLoop DEF FirstMatch
<1>2. CASE NextMatch
  <2>1. /\ found # << >> /\ match = found[Len(found)] /\ match \in MatchType
    BY <1>2, HistoryComplete DEF NextMatch, OrderInv, LastInv, TypeInv, TypeOK
  <2>2. /\ LoopOffset = StartOfNextMatch(match)
        /\ LoopNotEmpty = NotEmptyAtStart(match)
    BY <2>1 DEF LoopOffset, LoopNotEmpty
  <2>3. LoopOffset \in Int /\ LoopNotEmpty \in BOOLEAN
    BY <2>1, <2>2, NextStart, IterationAssumption
  <2> QED BY <1>2, <2>1, <2>2, <2>3, SearchInLoop DEF NextMatch
<1>3. CASE /\ UNCHANGED <<pattern, found, start>>
           /\ (stage = "ended" /\ pc = "done")' = (stage = "ended" /\ pc = "done")
  <2>1. UNCHANGED Loop!vars
    BY <1>3 DEF Loop!vars
  <2> QED BY <2>1
<1>4. CASE Nothing
  BY <1>3, <1>4 DEF Nothing, given
<1>5. CASE HandOut
  BY <1>3, <1>5 DEF HandOut, given
<1>6. CASE KeepPiece
  <2>1. pc = "handling" /\ stage = "running" /\ stage' = stage
    BY <1>6 DEF KeepPiece, OrderInv, TypeInv
  <2> QED BY <1>3, <1>6, <2>1 DEF KeepPiece, given
<1>7. CASE NextMatchWithoutMatch
  BY <1>3, <1>7 DEF NextMatchWithoutMatch, given
<1>8. CASE MoveEnded
  BY <1>3, <1>8 DEF MoveEnded, given
<1>9. CASE CallAgain
  BY <1>3, <1>9 DEF CallAgain, given
<1>10. CASE Done \/ UNCHANGED vars
  BY <1>3, <1>10 DEF Done, vars
<1> QED
  BY <1>1, <1>2, <1>4, <1>5, <1>6, <1>7, <1>8, <1>9, <1>10 DEF Next

(* For the same patterns, every enumeration, Replace and Split included,   *)
(* makes the searches of PCRE2's own loop, although it never calls         *)
(* pcre2_next_match.                                                       *)
THEOREM IterationImplementsLoop ==
  ASSUME Lookaroundless
  PROVE  Spec => ImplementsLoop
<1>1. Init => OrderInv
  BY InitOrder
<1>2. OrderInv /\ [Next]_vars => OrderInv'
  BY StepOrder
<1>3. OrderInv /\ [Next]_vars => [Loop!Next]_(Loop!vars)
  BY StepLoop
<1>4. Init => Loop!Init
  BY InitLoop
<1> QED
  BY <1>1, <1>2, <1>3, <1>4, PTL DEF Spec, ImplementsLoop, Loop!Spec

-----------------------------------------------------------------------------
(* Nothing is missed: every position before the next start at which the    *)
(* pattern matches is covered.                                             *)

Covered(p) == \E i \in 1..Len(found) : Covers(found[i], p)

CoverInv ==
  /\ stage # "ended" =>
       \A p \in start..Length : p < LoopOffset /\ pattern[p] # << >> => Covered(p)
  /\ NothingMissed

(* An attempt that does not succeed is one that is rejected at the start.  *)
LEMMA NoSuccess ==
  ASSUME TypeInv, Lookaroundless, NEW from \in Int, NEW notEmpty \in BOOLEAN,
         NEW p \in 0..Length, from <= p, pattern[p] # << >>,
         \A a \in Successes(pattern, from, notEmpty) : a[1] # p
  PROVE  notEmpty /\ p = from
<1> DEFINE S == [from : {p}, index : 0..Length, end : 0..Length]
           matches == pattern[p]
<1>1. DOMAIN pattern = 0..Length /\ matches \in Seq(S) /\ WellBehaved(pattern)
  BY IterationAssumption DEF TypeInv, Lookaroundless
<1>2. matches # << >> /\ WellBehaved(pattern)
  BY <1>1
<1>3. 1 \in DOMAIN matches /\ matches[1] \in S
  <2> HIDE DEF S, matches
  <2> QED
    BY <1>1, <1>2, EmptySeq, LenProperties, ElementOfSeq
<1>4. Rejected(matches[1], from, notEmpty)
  <2> SUFFICES ASSUME ~Rejected(matches[1], from, notEmpty) PROVE FALSE
    OBVIOUS
  <2>1. <<p, 1>> \in UNION {{q} \X DOMAIN pattern[q] : q \in DOMAIN pattern}
    BY <1>1, <1>3
  <2>2. <<p, 1>> \in Successes(pattern, from, notEmpty)
    BY <2>1 DEF Successes
  <2> QED
    BY <2>2
<1>5. p <= matches[1].index
  BY <1>1, <1>3 DEF WellBehaved
<1> QED
  BY <1>3, <1>4, <1>5 DEF Rejected

(* A search leaves no position before its match where it could have        *)
(* succeeded.                                                              *)
LEMMA SearchIsLeftmost ==
  ASSUME TypeInv, NEW from \in Int, NEW notEmpty \in BOOLEAN,
         NEW m \in Search(pattern, from, notEmpty), NEW p \in 0..Length, p < m.from
  PROVE  \A a \in Successes(pattern, from, notEmpty) : a[1] # p
<1>1. PICK b \in Successes(pattern, from, notEmpty) :
        /\ \A c \in Successes(pattern, from, notEmpty) : Precedes(b, c)
        /\ m = pattern[b[1]][b[2]]
  BY DEF Search
<1>2. PICK x \in 0..Length : b \in {x} \X DOMAIN pattern[x]
  BY <1>1 DEF Successes, TypeInv, TypeOK
<1>3. m.from = x
  <2> DEFINE S == [from : {x}, index : 0..Length, end : 0..Length]
             matches == pattern[x]
             i == b[2]
  <2>1. matches \in Seq(S) /\ i \in DOMAIN matches /\ m = matches[i]
    BY <1>1, <1>2, IterationAssumption DEF TypeInv
  <2> HIDE DEF S, matches, i
  <2>2. m \in S
    BY <2>1, LenProperties, ElementOfSeq
  <2> QED
    BY <2>2 DEF S
<1>4. b[1] = x
  BY <1>2
<1> SUFFICES ASSUME NEW a \in Successes(pattern, from, notEmpty), a[1] = p PROVE FALSE
  OBVIOUS
<1>5. b[1] < a[1] \/ b[1] = a[1]
  BY <1>1 DEF Precedes
<1> QED
  BY <1>2, <1>3, <1>4, <1>5

(* An empty match covers the start of the next search, which rejects it.   *)
LEMMA StartIsCovered ==
  ASSUME OrderInv, LoopNotEmpty
  PROVE  Covered(LoopOffset)
<1> DEFINE n == Len(found)
           last == found[n]
<1>1. found # << >> /\ NotEmptyAtStart(last) /\ LoopOffset = StartOfNextMatch(last)
  BY DEF LoopNotEmpty, LoopOffset
<1>2. n \in 1..n /\ last \in MatchType
  BY <1>1, EmptySeq, LenProperties, ElementOfSeq DEF OrderInv, TypeInv, TypeOK
<1>3. last.index <= last.end
  BY <1>2 DEF OrderInv, ForwardInv
<1>4. last.index \in Int /\ last.end \in Int
  BY <1>2 DEF MatchType
<1>5. last.index = last.end /\ LoopOffset = last.end
  BY <1>1, <1>3, <1>4 DEF NotEmptyAtStart, MatchLength, StartOfNextMatch
<1>6. Covers(last, LoopOffset)
  BY <1>5 DEF Covers
<1> QED
  BY <1>2, <1>6 DEF Covered

LEMMA SearchCovers ==
  ASSUME OrderInv, CoverInv, Lookaroundless, SearchFrom(LoopOffset, LoopNotEmpty),
         stage # "ended", LoopOffset \in Int, LoopNotEmpty \in BOOLEAN
  PROVE  CoverInv'
<1>0. Length \in Nat /\ start \in 0..Length /\ TypeInv
  BY IterationAssumption DEF OrderInv, TypeInv, TypeOK
<1>1. ASSUME NEW m \in Search(pattern, LoopOffset, LoopNotEmpty), Found(m)
      PROVE  CoverInv'
  <2>1. m \in MatchType /\ LoopOffset <= m.from /\ m.from <= m.index /\ m.index <= m.end
    BY <1>0, <1>1, SearchFinds DEF TypeInv, Lookaroundless
  <2>2. /\ found' = Append(found, m) /\ found \in Seq(MatchType)
        /\ UNCHANGED given /\ stage' = "running"
    BY <1>0, <1>1, HistoryComplete DEF Found, TypeInv, TypeOK
  <2>3. /\ Len(found') = Len(found) + 1 /\ Len(found) \in Nat
        /\ found'[Len(found) + 1] = m /\ found' # << >>
        /\ \A i \in 1..Len(found) : found'[i] = found[i]
    BY <2>1, <2>2, AppendProperties, LenProperties
  <2>4. LoopOffset' = m.end
    BY <2>1, <2>3 DEF LoopOffset, StartOfNextMatch, MatchType
  <2>5. ASSUME NEW p, Covered(p)
        PROVE  Covered(p)'
    <3>1. PICK i \in 1..Len(found) : Covers(found[i], p)
      BY <2>5 DEF Covered
    <3>2. i \in 1..Len(found') /\ found'[i] = found[i]
      BY <2>3
    <3> QED
      BY <3>1, <3>2 DEF Covered, Covers
  <2>6. ASSUME NEW p \in start..Length, p < m.end, pattern[p] # << >>
        PROVE  Covered(p)'
    <3>1. p \in 0..Length
      BY <1>0
    <3>2. CASE p < LoopOffset
      <4>1. Covered(p)
        BY <2>6, <3>2 DEF CoverInv
      <4> QED
        BY <4>1, <2>5
    <3>3. CASE LoopOffset <= p /\ p < m.from
      <4>1. \A a \in Successes(pattern, LoopOffset, LoopNotEmpty) : a[1] # p
        BY <1>0, <3>1, <3>3, SearchIsLeftmost
      <4>2. LoopNotEmpty /\ p = LoopOffset
        BY <1>0, <2>6, <3>1, <3>3, <4>1, NoSuccess
      <4> QED
        BY <2>5, <4>2, StartIsCovered
    <3>4. CASE m.from <= p
      <4>1. Covers(m, p)
        BY <2>6, <3>4 DEF Covers
      <4>2. Len(found) + 1 \in 1..Len(found')
        BY <2>3
      <4> QED
        BY <2>3, <4>1, <4>2 DEF Covered, Covers
    <3> QED
      BY <2>1, <3>1, <3>2, <3>3, <3>4 DEF MatchType
  <2> QED
    BY <2>2, <2>4, <2>6 DEF CoverInv, NothingMissed, given
<1>2. CASE NotFound /\ Successes(pattern, LoopOffset, LoopNotEmpty) = {}
  <2>1. ASSUME NEW p \in start..Length, pattern[p] # << >>
        PROVE  Covered(p)
    <3>1. p \in 0..Length
      BY <1>0
    <3>2. CASE p < LoopOffset
      BY <2>1, <3>2 DEF CoverInv
    <3>3. CASE LoopOffset <= p
      <4>1. LoopNotEmpty /\ p = LoopOffset
        BY <1>0, <1>2, <2>1, <3>1, <3>3, NoSuccess
      <4> QED
        BY <4>1, StartIsCovered
    <3> QED
      BY <3>1, <3>2, <3>3
  <2>2. UNCHANGED given /\ found' = found /\ stage' = "ended"
    BY <1>2 DEF NotFound
  <2> QED
    BY <2>1, <2>2 DEF CoverInv, NothingMissed, Covered, given
<1>3. CASE /\ pc' = "threw"
           /\ UNCHANGED <<given, found>>
  <2>1. LoopOffset' = LoopOffset
    BY <1>3 DEF LoopOffset, given
  <2> QED
    BY <1>3, <2>1 DEF CoverInv, NothingMissed, Covered, given
<1> QED
  BY <1>1, <1>2, <1>3 DEF SearchFrom

LEMMA StepCover ==
  ASSUME Lookaroundless, OrderInv, CoverInv, [Next]_vars
  PROVE  CoverInv'
<1>1. CASE FirstMatch
  <2>1. found = << >> /\ LoopOffset = start /\ LoopNotEmpty = FALSE
    BY <1>1 DEF FirstMatch, OrderInv, LastInv, LoopOffset, LoopNotEmpty
  <2>2. start \in Int
    BY IterationAssumption DEF OrderInv, TypeInv, TypeOK
  <2> QED BY <1>1, <2>1, <2>2, SearchCovers DEF FirstMatch
<1>2. CASE NextMatch
  <2>1. /\ found # << >> /\ match = found[Len(found)] /\ match \in MatchType
    BY <1>2, HistoryComplete DEF NextMatch, OrderInv, LastInv, TypeInv, TypeOK
  <2>2. /\ LoopOffset = StartOfNextMatch(match)
        /\ LoopNotEmpty = NotEmptyAtStart(match)
    BY <2>1 DEF LoopOffset, LoopNotEmpty
  <2>3. LoopOffset \in Int /\ LoopNotEmpty \in BOOLEAN
    BY <2>1, <2>2, NextStart, IterationAssumption
  <2> QED BY <1>2, <2>1, <2>2, <2>3, SearchCovers DEF NextMatch
<1>3. CASE /\ UNCHANGED <<pattern, found, start, stage>>
           /\ stage = "ended" /\ pc' = "done" => pc = "done"
  <2>1. LoopOffset' = LoopOffset
    BY <1>3 DEF LoopOffset
  <2> QED BY <1>3, <2>1 DEF CoverInv, NothingMissed, Covered
<1>4. CASE KeepPiece
  <2>1. stage = "running"
    BY <1>4 DEF KeepPiece, OrderInv, TypeInv
  <2> QED BY <1>3, <1>4, <2>1 DEF KeepPiece, given
<1>5. CASE \/ Nothing \/ HandOut \/ NextMatchWithoutMatch
           \/ MoveEnded \/ CallAgain \/ Done \/ UNCHANGED vars
  BY <1>3, <1>5 DEF Nothing, HandOut, NextMatchWithoutMatch, MoveEnded, CallAgain, Done,
                    vars, given
<1> QED
  BY <1>1, <1>2, <1>4, <1>5 DEF Next

(* For the same patterns, an enumeration that ends, also after searches    *)
(* that threw, has skipped no position where the pattern can match.        *)
THEOREM IterationNothingMissed ==
  ASSUME Lookaroundless
  PROVE  Spec => []NothingMissed
<1>1. Init => OrderInv
  BY InitOrder
<1>2. OrderInv /\ [Next]_vars => OrderInv'
  BY StepOrder
<1>3. Init => CoverInv
  BY IterationAssumption DEF Init, CoverInv, NothingMissed, LoopOffset
<1>4. OrderInv /\ CoverInv /\ [Next]_vars => CoverInv'
  BY StepCover
<1>5. CoverInv => NothingMissed
  BY DEF CoverInv
<1> QED
  BY <1>1, <1>2, <1>3, <1>4, <1>5, PTL DEF Spec

-----------------------------------------------------------------------------
(* Replace and Split: the pieces kept and the matches between them.        *)

Offsets == 0..Length

Kept(ps, x) == {i \in 1..Len(ps) : In(x, ps[i][1], ps[i][2])}

Matched(ms, n, x) == {i \in 1..n : In(x, ms[i].index, ms[i].end)}

InOne(A, B) == A = {} /\ \E i \in B : B = {i}

(* The pieces and the first n matches share out what is before a bound,    *)
(* and reach no further.                                                   *)
SharedOut(ps, ms, n, bound) ==
  \A x \in 0..(Length - 1) :
    LET kept == Kept(ps, x)
        matched == Matched(ms, n, x)
    IN IF x < bound THEN InOne(matched, kept) \/ InOne(kept, matched)
       ELSE kept = {} /\ matched = {}

(* One match is still to be handled in a loop body, none elsewhere.        *)
PieceInv ==
  Consumes =>
    /\ pc \in {"moving", "handling"} => SharedOut(pieces, found, Len(pieces), position)
    /\ pc = "moving" =>
         /\ Len(pieces) = Len(found)
         /\ position = IF found = << >> THEN 0 ELSE LoopOffset
    /\ pc = "handling" =>
         /\ Len(found) = Len(pieces) + 1
         /\ match = found[Len(found)] /\ position <= match.index
    /\ SubjectAccountedFor

LEMMA AddKept ==
  ASSUME NEW ps \in Seq(Offsets \X Offsets), NEW ms, NEW n \in Nat,
         NEW b \in Offsets, NEW c \in Offsets, b <= c, SharedOut(ps, ms, n, b)
  PROVE  SharedOut(Append(ps, <<b, c>>), ms, n, c)
<1> DEFINE qs == Append(ps, <<b, c>>)
           k == Len(ps)
<1>1. /\ Len(qs) = k + 1 /\ k \in Nat /\ qs[k + 1] = <<b, c>>
      /\ \A i \in 1..k : qs[i] = ps[i]
  BY AppendProperties, LenProperties
<1> SUFFICES ASSUME NEW x \in 0..(Length - 1)
             PROVE  IF x < c THEN \/ InOne(Matched(ms, n, x), Kept(qs, x))
                                  \/ InOne(Kept(qs, x), Matched(ms, n, x))
                    ELSE Kept(qs, x) = {} /\ Matched(ms, n, x) = {}
  BY DEF SharedOut
<1> HIDE DEF qs
<1>2. Kept(qs, x) = IF b <= x /\ x < c THEN Kept(ps, x) \cup {k + 1} ELSE Kept(ps, x)
  BY <1>1 DEF Kept, In
<1>3. /\ x < b => \/ InOne(Matched(ms, n, x), Kept(ps, x))
                  \/ InOne(Kept(ps, x), Matched(ms, n, x))
      /\ ~(x < b) => Kept(ps, x) = {} /\ Matched(ms, n, x) = {}
  BY DEF SharedOut
<1>4. x \in Int /\ b \in Int /\ c \in Int
  BY IterationAssumption DEF Offsets
<1>5. CASE x < b
  BY <1>2, <1>3, <1>4, <1>5
<1>6. CASE b <= x /\ x < c
  <2>1. Kept(qs, x) = {k + 1} /\ Matched(ms, n, x) = {}
    BY <1>2, <1>3, <1>4, <1>6
  <2> QED
    BY <1>6, <2>1 DEF InOne
<1>7. CASE ~(x < c)
  BY <1>2, <1>3, <1>4, <1>7
<1> QED
  BY <1>4, <1>5, <1>6, <1>7

LEMMA AddMatched ==
  ASSUME NEW ps, NEW ms \in Seq(MatchType), NEW n \in Nat, n + 1 <= Len(ms),
         ms[n + 1].index <= ms[n + 1].end, SharedOut(ps, ms, n, ms[n + 1].index)
  PROVE  SharedOut(ps, ms, n + 1, ms[n + 1].end)
<1> DEFINE b == ms[n + 1].index
           c == ms[n + 1].end
<1>1. b \in Offsets /\ c \in Offsets /\ b <= c
  <2>1. n + 1 \in 1..Len(ms)
    BY LenProperties
  <2>2. ms[n + 1] \in MatchType
    BY <2>1, ElementOfSeq
  <2> QED
    BY <2>2 DEF MatchType, Offsets
<1> SUFFICES ASSUME NEW x \in 0..(Length - 1)
             PROVE  IF x < c THEN \/ InOne(Matched(ms, n + 1, x), Kept(ps, x))
                                  \/ InOne(Kept(ps, x), Matched(ms, n + 1, x))
                    ELSE Kept(ps, x) = {} /\ Matched(ms, n + 1, x) = {}
  BY DEF SharedOut
<1>2. Matched(ms, n + 1, x) =
        IF b <= x /\ x < c THEN Matched(ms, n, x) \cup {n + 1} ELSE Matched(ms, n, x)
  BY DEF Matched, In
<1>3. /\ x < b => \/ InOne(Matched(ms, n, x), Kept(ps, x))
                  \/ InOne(Kept(ps, x), Matched(ms, n, x))
      /\ ~(x < b) => Kept(ps, x) = {} /\ Matched(ms, n, x) = {}
  BY DEF SharedOut
<1> HIDE DEF b, c
<1>4. x \in Int /\ b \in Int /\ c \in Int
  BY <1>1, IterationAssumption DEF Offsets
<1>5. CASE x < b
  BY <1>1, <1>2, <1>3, <1>4, <1>5
<1>6. CASE b <= x /\ x < c
  <2>1. Matched(ms, n + 1, x) = {n + 1} /\ Kept(ps, x) = {}
    BY <1>2, <1>3, <1>4, <1>6
  <2> QED
    BY <1>6, <2>1 DEF InOne
<1>7. CASE ~(x < c)
  BY <1>1, <1>2, <1>3, <1>4, <1>7
<1> QED
  BY <1>4, <1>5, <1>6, <1>7

(* What is shared out up to the end of the subject is accounted for.       *)
LEMMA SharedOutToTheEnd ==
  ASSUME NEW ps, NEW ms, NEW n, SharedOut(ps, ms, n, Length), NEW x \in 0..(Length - 1)
  PROVE  \/ Matched(ms, n, x) = {} /\ \E i \in Kept(ps, x) : Kept(ps, x) = {i}
         \/ Kept(ps, x) = {} /\ \E i \in Matched(ms, n, x) : Matched(ms, n, x) = {i}
<1>1. x < Length
  BY IterationAssumption
<1> QED
  BY <1>1 DEF SharedOut, InOne

(* The subject is kept to its end when there is no match left.             *)
LEMMA RestIsShared ==
  ASSUME OrderInv, PieceInv, Consumes, pc = "moving", pieces' = KeepRest,
         UNCHANGED found
  PROVE  SubjectAccountedFor'
<1>1. /\ SharedOut(pieces, found, Len(found), position) /\ Len(found) \in Nat
      /\ pieces \in Seq(Offsets \X Offsets) /\ position \in Offsets
  BY LenProperties DEF PieceInv, OrderInv, TypeInv, TypeOK, Offsets
<1>2. Length \in Offsets /\ position <= Length
  BY <1>1, IterationAssumption DEF Offsets
<1>3. pieces' = Append(pieces, <<position, Length>>)
  BY DEF KeepRest, Keep
<1>4. SharedOut(pieces', found', Len(found'), Length)
  BY <1>1, <1>2, <1>3, AddKept
<1> QED
  BY <1>4, SharedOutToTheEnd DEF SubjectAccountedFor, Kept, Matched

LEMMA SearchPieces ==
  ASSUME OrderInv, PieceInv, Lookaroundless, SearchFrom(LoopOffset, LoopNotEmpty),
         pc = "moving", LoopOffset \in Int, LoopNotEmpty \in BOOLEAN
  PROVE  PieceInv'
<1> SUFFICES ASSUME Consumes' PROVE PieceInv'
  BY DEF PieceInv
<1>0. Consumes
  BY DEF SearchFrom, Found, NotFound, given, Consumes
<1>1. ASSUME NEW m \in Search(pattern, LoopOffset, LoopNotEmpty), Found(m)
      PROVE  PieceInv'
  <2>1. m \in MatchType /\ LoopOffset <= m.from /\ m.from <= m.index
    BY <1>1, SearchFinds DEF OrderInv, TypeInv, Lookaroundless
  <2>2. /\ found' = Append(found, m) /\ found \in Seq(MatchType)
        /\ match' = m /\ pc' = "handling" /\ UNCHANGED <<position, pieces>>
    BY <1>1, HistoryComplete DEF Found, OrderInv, TypeInv, TypeOK
  <2>3. /\ Len(found') = Len(found) + 1 /\ Len(found) \in Nat
        /\ found'[Len(found) + 1] = m
        /\ \A i \in 1..Len(found) : found'[i] = found[i]
    BY <2>1, <2>2, AppendProperties, LenProperties
  <2>4. /\ Len(pieces) = Len(found) /\ SharedOut(pieces, found, Len(found), position)
        /\ position = IF found = << >> THEN 0 ELSE LoopOffset
    BY <1>0 DEF PieceInv
  <2>5. position <= m.index
    BY <2>1, <2>4 DEF MatchType
  <2>6. \A x \in 0..(Length - 1) :
          Matched(found', Len(found), x) = Matched(found, Len(found), x)
    BY <2>3 DEF Matched
  <2>7. SharedOut(pieces', found', Len(pieces'), position')
    BY <2>2, <2>4, <2>6 DEF SharedOut
  <2> QED
    BY <2>2, <2>3, <2>4, <2>5, <2>7 DEF PieceInv, SubjectAccountedFor
<1>2. CASE NotFound
  <2>1. pieces' = KeepRest /\ UNCHANGED found /\ pc' = "done"
    BY <1>2 DEF NotFound
  <2> QED
    BY <1>0, <2>1, RestIsShared DEF PieceInv
<1>3. CASE pc' = "threw"
  BY <1>3 DEF PieceInv, SubjectAccountedFor
<1> QED
  BY <1>1, <1>2, <1>3 DEF SearchFrom

LEMMA PieceStep ==
  ASSUME OrderInv, PieceInv, KeepPiece
  PROVE  PieceInv'
<1> DEFINE n == Len(pieces)
           ps == Keep(position, match.index)
<1>1. Consumes /\ pc = "handling" /\ UNCHANGED <<given, found, match>>
  BY DEF KeepPiece
<1>2. /\ SharedOut(pieces, found, n, position) /\ position <= match.index
      /\ Len(found) = n + 1 /\ match = found[n + 1] /\ n \in Nat
      /\ found \in Seq(MatchType) /\ match \in MatchType
      /\ pieces \in Seq(Offsets \X Offsets) /\ position \in Offsets
  BY <1>1, LenProperties DEF PieceInv, OrderInv, TypeInv, TypeOK, Offsets
<1>3. match.index \in Offsets /\ match.end \in Offsets /\ match.index <= match.end
  <2>1. n + 1 \in 1..Len(found)
    BY <1>2
  <2> QED
    BY <1>2, <2>1 DEF OrderInv, ForwardInv, MatchType, Offsets
<1>4. StartOfNextMatch(match) = match.end
  BY <1>3, IterationAssumption DEF StartOfNextMatch, Offsets
<1>5. /\ ps = Append(pieces, <<position, match.index>>)
      /\ ps \in Seq(Offsets \X Offsets) /\ Len(ps) = n + 1
  BY <1>2, <1>3, AppendProperties DEF Keep
<1> HIDE DEF ps
<1>6. SharedOut(ps, found, n, match.index)
  BY <1>2, <1>3, <1>5, AddKept
<1>7. SharedOut(ps, found, n + 1, match.end)
  <2>1. /\ n + 1 <= Len(found) /\ found[n + 1].index <= found[n + 1].end
        /\ SharedOut(ps, found, n, found[n + 1].index)
    BY <1>2, <1>3, <1>6
  <2>2. SharedOut(ps, found, n + 1, found[n + 1].end)
    BY <1>2, <2>1, AddMatched
  <2> QED
    BY <1>2, <2>2
<1>8. CASE pc' = "gaveUp"
  BY <1>8 DEF PieceInv, SubjectAccountedFor
<1>9. CASE pc' = "moving" /\ pieces' = ps /\ position' = match.end
  <2>1. SharedOut(pieces', found', Len(pieces'), position')
    BY <1>1, <1>5, <1>7, <1>9
  <2>2. LoopOffset' = match.end /\ found # << >>
    BY <1>1, <1>2, <1>4, EmptySeq DEF LoopOffset, given, StartOfNextMatch
  <2> QED
    BY <1>1, <1>2, <1>5, <1>9, <2>1, <2>2 DEF PieceInv, SubjectAccountedFor
<1>10. CASE pc' = "done" /\ pieces' = ps \o <<<<match.end, Length>>>>
  <2>1. pieces' = Append(ps, <<match.end, Length>>)
    BY <1>5, <1>10
  <2>2. Length \in Offsets /\ match.end <= Length
    BY <1>3, IterationAssumption DEF Offsets
  <2>3. SharedOut(pieces', found', Len(found'), Length)
    <3>1. n + 1 \in Nat
      BY <1>2
    <3>2. SharedOut(Append(ps, <<match.end, Length>>), found, n + 1, Length)
      BY <1>3, <1>5, <1>7, <2>2, <3>1, AddKept
    <3> QED
      BY <1>1, <1>2, <2>1, <3>2
  <2>4. SubjectAccountedFor'
    BY <2>3, SharedOutToTheEnd DEF SubjectAccountedFor, Kept, Matched
  <2> QED
    BY <1>10, <2>4 DEF PieceInv
<1> QED
  BY <1>4, <1>8, <1>9, <1>10 DEF KeepPiece, ps

LEMMA StepPieces ==
  ASSUME Lookaroundless, OrderInv, PieceInv, [Next]_vars
  PROVE  PieceInv'
<1>1. CASE FirstMatch
  <2>1. found = << >> /\ LoopOffset = start /\ LoopNotEmpty = FALSE /\ pc = "moving"
    BY <1>1 DEF FirstMatch, OrderInv, LastInv, LoopOffset, LoopNotEmpty
  <2>2. start \in Int
    BY IterationAssumption DEF OrderInv, TypeInv, TypeOK
  <2> QED BY <1>1, <2>1, <2>2, SearchPieces DEF FirstMatch
<1>2. CASE NextMatch
  <2>1. /\ found # << >> /\ match = found[Len(found)] /\ match \in MatchType
        /\ pc = "moving"
    BY <1>2, HistoryComplete DEF NextMatch, OrderInv, LastInv, TypeInv, TypeOK
  <2>2. /\ LoopOffset = StartOfNextMatch(match)
        /\ LoopNotEmpty = NotEmptyAtStart(match)
    BY <2>1 DEF LoopOffset, LoopNotEmpty
  <2>3. LoopOffset \in Int /\ LoopNotEmpty \in BOOLEAN
    BY <2>1, <2>2, NextStart, IterationAssumption
  <2> QED BY <1>2, <2>1, <2>2, <2>3, SearchPieces DEF NextMatch
<1>3. CASE Nothing
  BY <1>3, RestIsShared DEF Nothing, PieceInv
<1>4. CASE KeepPiece
  BY <1>4, PieceStep
<1>5. CASE HandOut \/ (CallAgain /\ ~Consumes)
  BY <1>5 DEF HandOut, CallAgain, PieceInv, Consumes, given
<1>6. CASE NextMatchWithoutMatch \/ MoveEnded \/ (CallAgain /\ Consumes)
  BY <1>6 DEF NextMatchWithoutMatch, MoveEnded, CallAgain, PieceInv, SubjectAccountedFor
<1>7. CASE UNCHANGED vars
  BY <1>7 DEF vars, PieceInv, SubjectAccountedFor, LoopOffset, Consumes
<1> QED
  BY <1>1, <1>2, <1>3, <1>4, <1>5, <1>6, <1>7 DEF Next, Done

(* For the same patterns, Replace and Split keep each character of the     *)
(* subject once, or find it in one match.                                  *)
THEOREM IterationSubjectAccountedFor ==
  ASSUME Lookaroundless
  PROVE  Spec => []SubjectAccountedFor
<1>1. Init => OrderInv
  BY InitOrder
<1>2. OrderInv /\ [Next]_vars => OrderInv'
  BY StepOrder
<1>3. Init => PieceInv
  BY IterationAssumption DEF Init, PieceInv, SubjectAccountedFor, SharedOut, Kept, Matched
<1>4. OrderInv /\ PieceInv /\ [Next]_vars => PieceInv'
  BY StepPieces
<1>5. PieceInv => SubjectAccountedFor
  BY DEF PieceInv, SubjectAccountedFor
<1> QED
  BY <1>1, <1>2, <1>3, <1>4, <1>5, PTL DEF Spec
=============================================================================
