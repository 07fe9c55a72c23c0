------------------------------- MODULE MatchGroups -------------------------------
(***************************************************************************)
(* Reading the groups of a match: PcreMatch and PcreGroup, with PcreRefMatch *)
(* and PcreRefGroup.  Both hold the result code and the output vector of   *)
(* pcre2_match and make a group out of them when it is asked for.          *)
(*                                                                         *)
(* What a pattern has captured is a function from group numbers to pairs   *)
(* of offsets; group 0 is the match.                                       *)
(***************************************************************************)
EXTENDS Integers, Sequences

CONSTANTS
  CaptureCount,
  CaptureNames   \* a function from names to sequences of group numbers

ASSUME MatchGroupsAssumption ==
  /\ CaptureCount \in Nat
  /\ \A name \in DOMAIN CaptureNames :
       CaptureNames[name] \in Seq(1..CaptureCount) \ {<< >>}

PCRE2_ERROR_NOMATCH == -1
PCRE2_ERROR_PARTIAL == -2

Groups == 0..CaptureCount

UnsetPair == <<-1, -1>>    \* PCRE2_UNSET, read as an int

(* What a match may have captured: the match itself is always set.         *)
Captures == {c \in [Groups -> {UnsetPair} \cup (Nat \X Nat)] : c[0] # UnsetPair}

Captured(c) == {i \in Groups : c[i] # UnsetPair}

-----------------------------------------------------------------------------
(* What PCRE2 reports: the code is one more than the highest group that is *)
(* set, and the pairs of the groups that are not are unset.                *)
CaptureTop(c) ==
  CHOOSE n \in 1..(CaptureCount + 1) :
    /\ n = 1 \/ c[n - 1] # UnsetPair
    /\ \A i \in n..CaptureCount : c[i] = UnsetPair

OutputVector(c, pairs) == [j \in 1..(2 * pairs) |-> c[(j - 1) \div 2][1 + ((j - 1) % 2)]]

RealMatch(c) ==
  [resultCode |-> CaptureTop(c), oVector |-> OutputVector(c, CaptureCount + 1)]

(* A partial match sets the first pair and leaves the others as they were. *)
PartialMatch(c) ==
  [resultCode |-> PCRE2_ERROR_PARTIAL, oVector |-> OutputVector(c, CaptureCount + 1)]

NoMatch == [resultCode |-> PCRE2_ERROR_NOMATCH, oVector |-> << >>]

(* PcreCallout: the vector is as long as what has been captured so far.    *)
CalloutMatch(c) ==
  LET oVector == OutputVector(c, CaptureTop(c)) IN
  [resultCode |-> Len(oVector) \div 2, oVector |-> oVector]

-----------------------------------------------------------------------------
(* PcreGroup.  GetGroup's null is Undefined.                               *)

Group(start, end) == [defined |-> TRUE, index |-> start, endIndex |-> end]

Empty     == Group(-1, -1)
Undefined == [defined |-> FALSE, index |-> -1, endIndex |-> -1]

Success(g) == g.index >= 0

GroupLength(g) == IF g.endIndex > g.index THEN g.endIndex - g.index ELSE 0

IsAvailable_Always(m, index) == TRUE                           \* mutant

IsAvailable(m, index) ==
  index < m.resultCode \/ (m.resultCode = PCRE2_ERROR_PARTIAL /\ index = 0)

CreateGroup(m, index) ==
  IF /\ IsAvailable(m, index)
     /\ 2 * index < Len(m.oVector)
     /\ m.oVector[2 * index + 1] >= 0
  THEN Group(m.oVector[2 * index + 1], m.oVector[2 * index + 2])
  ELSE Empty

GetGroup(m, index) ==
  IF index \notin Groups THEN Undefined
  ELSE IF m.oVector = << >> THEN Empty
  ELSE CreateGroup(m, index)

(* Several groups may have one name: the first that is set is returned.    *)
GetNamedGroup(m, name) ==
  IF name \notin DOMAIN CaptureNames THEN Undefined
  ELSE LET indexes == CaptureNames[name]
           set == {i \in 1..Len(indexes) : Success(GetGroup(m, indexes[i]))} IN
       IF Len(indexes) = 1 THEN GetGroup(m, indexes[1])
       ELSE IF set = {} THEN Empty
       ELSE GetGroup(m, indexes[CHOOSE i \in set : \A j \in set : i <= j])

-----------------------------------------------------------------------------
(* PcreRefGroup, whose offsets are stored plus one: 0 is an undefined      *)
(* group, so that the default value of the structure is one.               *)

RefEmpty     == [index |-> -1, endIndex |-> -1]
RefUndefined == [index |-> 0, endIndex |-> 0]

RefGroup(start, end) ==
  [index |-> IF start >= 0 THEN start + 1 ELSE -1,
   endIndex |-> IF end >= 0 THEN end + 1 ELSE -1]

RefGetGroup(m, index) ==
  IF index \notin Groups THEN RefUndefined
  ELSE IF /\ IsAvailable(m, index)
          /\ 2 * index < Len(m.oVector)
          /\ m.oVector[2 * index + 1] >= 0
  THEN RefGroup(m.oVector[2 * index + 1], m.oVector[2 * index + 2])
  ELSE RefEmpty

(* What the members of PcreRefGroup show. *)
Shown(r) ==
  [defined |-> r.index # 0,
   index |-> IF r.index > 0 THEN r.index - 1 ELSE -1,
   endIndex |-> IF r.endIndex > 0 THEN r.endIndex - 1 ELSE -1]
=============================================================================
