---------------------------- MODULE CalloutInfoProofs ----------------------------
(***************************************************************************)
(* Proofs about the lazy table of callouts, for any number of threads and  *)
(* lookups and all patterns.                                               *)
(***************************************************************************)
EXTENDS CalloutInfo, SequenceTheorems, TLAPS

(* The first n callouts, those a thread has gone through. *)
Prefix(s, n) == {s[i] : i \in 1..n}

(* They are at different positions. *)
DistinctTo(s, n) ==
  \A i, j \in 1..n : s[i].position = s[j].position => i = j

(* A thread that fills its table has not published it, so that no reader   *)
(* has it; a published table is complete, and is never filled again.  What *)
(* is in a table is at different positions.                                *)
TableInv ==
  /\ \A t \in Threads : pc[t] = "fill" =>
       /\ t # published
       /\ table[t] = Prefix(callouts, filled[t]) /\ DistinctTo(callouts, filled[t])
  /\ \A t \in Threads : pc[t] = "lookup" => published # "none"
  /\ published # "none" =>
       /\ table[published] = Prefix(callouts, Len(callouts))
       /\ DistinctTo(callouts, Len(callouts))

Inv == TypeOK /\ TableInv /\ LookupsAgree

LEMMA CalloutsType ==
  ASSUME TypeOK
  PROVE  /\ callouts \in Seq([position : Nat, number : Nat])
         /\ Len(callouts) \in Nat
         /\ \A i \in 1..Len(callouts) : callouts[i] \in Callouts
         /\ Prefix(callouts, Len(callouts)) = Callouts
         /\ DistinctTo(callouts, Len(callouts)) = ArePositionsDistinct(callouts)
<1>1. callouts \in Seq([position : Nat, number : Nat]) /\ Len(callouts) \in Nat
  BY CalloutAssumption, LenProperties DEF TypeOK
<1> QED
  BY <1>1 DEF Callouts, Prefix, DistinctTo, ArePositionsDistinct

LEMMA InitInv == Init => Inv
<1> SUFFICES ASSUME Init PROVE Inv
  OBVIOUS
<1>1. Len(callouts) \in Nat
  BY CalloutAssumption, LenProperties DEF Init
<1>2. TypeOK
  BY <1>1, CalloutAssumption DEF Init, TypeOK
<1> QED
  BY <1>2 DEF Init, Inv, TableInv, LookupsAgree

LEMMA StepInv ==
  ASSUME Inv, [Next]_vars
  PROVE  Inv'
<1> USE DEF Inv
<1> "none" \notin Threads
  BY CalloutAssumption
<1>1. ASSUME NEW t \in Threads, Begin(t)
      PROVE  Inv'
  <2>1. PICK p \in Positions(callouts) \cup {0} : wanted' = [wanted EXCEPT ![t] = p]
    BY <1>1 DEF Begin
  <2>2. Callouts' = Callouts
    BY <1>1 DEF Begin, Callouts
  <2>3. TypeOK'
    <3>1. calls[t] - 1 \in 0..MaxCalls
      BY <1>1, CalloutAssumption DEF Begin, TypeOK
    <3> QED
      BY <1>1, <2>1, <2>2, <3>1 DEF Begin, TypeOK, Answers
  <2>4. TableInv'
    BY <1>1, <2>2 DEF Begin, TypeOK, TableInv
  <2>5. LookupsAgree'
    BY <1>1, <2>1, <2>2 DEF Begin, TypeOK, LookupsAgree
  <2> QED
    BY <2>3, <2>4, <2>5
<1>2. ASSUME NEW t \in Threads, Check(t)
      PROVE  Inv'
  <2>1. Callouts' = Callouts /\ Len(callouts) \in Nat
    BY <1>2, CalloutsType DEF Check, Callouts
  <2>2. CASE published = "none"
    <3>1. /\ table' = [table EXCEPT ![t] = {}] /\ filled' = [filled EXCEPT ![t] = 0]
          /\ pc' = [pc EXCEPT ![t] = "fill"]
          /\ UNCHANGED <<callouts, published, wanted, answer, calls>>
      BY <1>2, <2>2 DEF Check
    <3>2. TypeOK'
      <4>1. 0 \in 0..Len(callouts) /\ {} \in SUBSET Callouts
        BY <2>1
      <4> QED
        BY <2>1, <3>1, <4>1 DEF TypeOK, Answers
    <3>3. TableInv'
      <4>1. /\ Prefix(callouts, 0) = {} /\ DistinctTo(callouts, 0)
            /\ t # published
        BY <2>2 DEF Prefix, DistinctTo
      <4> QED
        BY <2>2, <3>1, <4>1 DEF TypeOK, TableInv
    <3>4. LookupsAgree'
      BY <2>1, <3>1 DEF LookupsAgree
    <3> QED
      BY <3>2, <3>3, <3>4
  <2>3. CASE published # "none"
    <3>1. /\ pc' = [pc EXCEPT ![t] = "lookup"]
          /\ UNCHANGED <<table, filled, callouts, published, wanted, answer, calls>>
      BY <1>2, <2>3 DEF Check
    <3>2. TypeOK'
      BY <2>1, <3>1 DEF TypeOK, Answers
    <3>3. TableInv'
      BY <2>1, <2>3, <3>1 DEF TypeOK, TableInv
    <3>4. LookupsAgree'
      BY <2>1, <3>1 DEF LookupsAgree
    <3> QED
      BY <3>2, <3>3, <3>4
  <2> QED
    BY <2>2, <2>3
<1>3. ASSUME NEW t \in Threads, Add(t)
      PROVE  Inv'
  <2> DEFINE info == callouts[filled[t] + 1]
  <2>1. filled[t] + 1 \in 1..Len(callouts) /\ info \in Callouts
    BY <1>3, CalloutsType DEF Add, TypeOK
  <2>2. UNCHANGED <<callouts, published, wanted, calls>> /\ Callouts' = Callouts
    BY <1>3 DEF Add, Callouts
  <2>3. CASE /\ \E item \in table[t] : item.position = info.position
             /\ UNCHANGED <<table, filled>> /\ pc' = [pc EXCEPT ![t] = "idle"]
             /\ answer' = [answer EXCEPT ![t] = <<ArgumentException>>]
    <3>1. TypeOK'
      BY <2>2, <2>3 DEF TypeOK, Answers
    <3>2. TableInv'
      BY <2>2, <2>3 DEF TypeOK, TableInv
    <3>3. ~ArePositionsDistinct(callouts)
      <4>1. PICK i \in 1..filled[t] : callouts[i].position = info.position
        BY <1>3, <2>3 DEF Add, TableInv, Prefix
      <4>2. /\ i \in 1..Len(callouts) /\ filled[t] + 1 \in 1..Len(callouts)
            /\ i # filled[t] + 1
        <5>1. filled[t] \in 0..Len(callouts) /\ Len(callouts) \in Nat
          BY CalloutsType DEF TypeOK
        <5> HIDE DEF info
        <5> QED
          BY <2>1, <5>1
      <4> QED
        BY <4>1, <4>2 DEF ArePositionsDistinct
    <3>4. LookupsAgree'
      BY <2>2, <2>3, <3>3 DEF TypeOK, LookupsAgree
    <3> QED
      BY <3>1, <3>2, <3>4
  <2>4. CASE /\ \A item \in table[t] : item.position # info.position
             /\ table' = [table EXCEPT ![t] = @ \cup {info}]
             /\ filled' = [filled EXCEPT ![t] = @ + 1]
             /\ UNCHANGED <<answer, pc>>
    <3>1. TypeOK'
      BY <2>1, <2>2, <2>4, CalloutsType DEF TypeOK, Answers
    <3>2. /\ filled[t] \in Nat
          /\ Prefix(callouts, filled[t] + 1) = Prefix(callouts, filled[t]) \cup {info}
      BY <2>1, CalloutsType DEF TypeOK, Prefix
    <3>3. DistinctTo(callouts, filled[t] + 1)
      <4> SUFFICES ASSUME NEW i \in 1..(filled[t] + 1), NEW j \in 1..(filled[t] + 1),
                          callouts[i].position = callouts[j].position
                   PROVE  i = j
        BY DEF DistinctTo
      <4>1. /\ table[t] = Prefix(callouts, filled[t])
            /\ DistinctTo(callouts, filled[t])
        BY <1>3 DEF Add, TableInv
      <4>2. \A k \in 1..filled[t] : callouts[k].position # info.position
        BY <2>4, <4>1 DEF Prefix
      <4>3. i \in 1..filled[t] \/ i = filled[t] + 1
        BY <3>2
      <4>4. j \in 1..filled[t] \/ j = filled[t] + 1
        BY <3>2
      <4> QED
        BY <4>1, <4>2, <4>3, <4>4 DEF DistinctTo
    <3>4. TableInv'
      BY <1>3, <2>2, <2>4, <3>2, <3>3 DEF Add, TypeOK, TableInv
    <3>5. LookupsAgree'
      BY <2>2, <2>4 DEF LookupsAgree
    <3> QED
      BY <3>1, <3>4, <3>5
  <2> QED
    BY <1>3, <2>3, <2>4 DEF Add
<1>4. ASSUME NEW t \in Threads, Publish(t)
      PROVE  Inv'
  <2>1. Callouts' = Callouts /\ table[t] = Callouts
    BY <1>4 DEF Publish, TableInv, Prefix, Callouts
  <2>2. TypeOK'
    BY <1>4, <2>1 DEF Publish, TypeOK, Positions, Answers
  <2>3. TableInv'
    BY <1>4, <2>1 DEF Publish, TypeOK, TableInv
  <2>4. LookupsAgree'
    BY <1>4, <2>1 DEF Publish, LookupsAgree
  <2> QED
    BY <2>2, <2>3, <2>4
<1>5. ASSUME NEW t \in Threads, Find(t)
      PROVE  Inv'
  <2> DEFINE found == Lookup(Callouts, wanted[t])
  <2>1. Callouts' = Callouts
    BY <1>5 DEF Find, Callouts
  <2>2. answer' = [answer EXCEPT ![t] = <<found>>] /\ ArePositionsDistinct(callouts)
    BY <1>5, CalloutsType DEF Find, TableInv
  <2>3. found \in Answers
    BY DEF Lookup, Answers
  <2> HIDE DEF found
  <2>4. TypeOK'
    BY <1>5, <2>1, <2>2, <2>3 DEF Find, TypeOK, Positions, Answers
  <2>5. TableInv'
    BY <1>5, <2>1 DEF Find, TypeOK, TableInv
  <2>6. LookupsAgree'
    BY <1>5, <2>1, <2>2 DEF Find, TypeOK, LookupsAgree, found
  <2> QED
    BY <2>4, <2>5, <2>6
<1>6. CASE UNCHANGED vars
  <2>1. Callouts' = Callouts
    BY <1>6 DEF vars, Callouts
  <2> QED
    BY <1>6, <2>1 DEF vars, TypeOK, TableInv, LookupsAgree, Answers
<1> QED
  BY <1>1, <1>2, <1>3, <1>4, <1>5, <1>6 DEF Next, Step, Done

LEMMA Invariance == Spec => []Inv
<1> QED
  BY InitInv, StepInv, PTL DEF Spec

(* The state stays in its type. *)
THEOREM CalloutInfoTypeOK == Spec => []TypeOK
BY Invariance, PTL DEF Inv

(* However many threads fill and publish a table of their own, a lookup    *)
(* answers as a scan of the pattern would; for a pattern that lists a      *)
(* position twice every lookup throws.                                     *)
THEOREM CalloutInfoLookupsAgree == Spec => []LookupsAgree
BY Invariance, PTL DEF Inv
=============================================================================
