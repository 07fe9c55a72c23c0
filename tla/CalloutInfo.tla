------------------------------ MODULE CalloutInfo ------------------------------
(***************************************************************************)
(* The table of the callouts of a pattern, by position, that InternalRegex *)
(* fills the first time it is needed.  Threads share the regex and take no *)
(* lock: several of them may fill a table of their own, and publish it.    *)
(***************************************************************************)
EXTENDS Integers, Sequences

CONSTANTS
  Threads,
  Patterns,     \* what pcre2_callout_enumerate reports of the patterns:
                \* sequences of records [position, number]
  NoCallout,    \* the null PcreCalloutInfo
  ArgumentException,
  MaxCalls      \* bound: lookups made by each thread

ASSUME CalloutAssumption ==
  /\ Threads \cap {"none"} = {}
  /\ \A s \in Patterns : s \in Seq([position : Nat, number : Nat])
  /\ MaxCalls \in Nat

VARIABLES
  callouts,    \* the callouts of the pattern (constant after Init)
  published,   \* _calloutInfoByPatternPosition: the thread that made the
               \* table it refers to, "none" when it is null
  table,       \* dict of each thread: the items in it
  filled,      \* how many callouts each thread has gone through
  wanted,      \* patternPosition of each thread
  answer,      \* what its last lookup returned, <<>> while it runs
  calls,       \* lookups each thread may still make
  pc

vars == <<callouts, published, table, filled, wanted, answer, calls, pc>>

Positions(s) == {s[i].position : i \in 1..Len(s)}

(* The table a thread fills is read by the others once it is published. *)
Lookup(items, position) ==
  IF \E item \in items : item.position = position
  THEN CHOOSE item \in items : item.position = position
  ELSE NoCallout

Init ==
  /\ callouts \in Patterns
  /\ published = "none"
  /\ table = [t \in Threads |-> {}]
  /\ filled = [t \in Threads |-> 0]
  /\ wanted = [t \in Threads |-> 0]
  /\ answer = [t \in Threads |-> << >>]
  /\ calls = [t \in Threads |-> MaxCalls]
  /\ pc = [t \in Threads |-> "idle"]

(* TryGetCalloutInfoByPatternPosition, by the constructor of a match       *)
(* buffer (position 0) or by the Info of a callout that is running.        *)
Begin(t) ==
  /\ pc[t] = "idle" /\ calls[t] > 0
  /\ calls' = [calls EXCEPT ![t] = @ - 1]
  /\ wanted' \in {[wanted EXCEPT ![t] = p] : p \in Positions(callouts) \cup {0}}
  /\ answer' = [answer EXCEPT ![t] = << >>]
  /\ pc' = [pc EXCEPT ![t] = "check"]
  /\ UNCHANGED <<callouts, published, table, filled>>

Check_FromOne(t) ==                                            \* mutant
  /\ pc[t] = "check" /\ published = "none"
  /\ table' = [table EXCEPT ![t] = {}]
  /\ filled' = [filled EXCEPT ![t] = 1]
  /\ pc' = [pc EXCEPT ![t] = "fill"]
  /\ UNCHANGED <<callouts, published, wanted, answer, calls>>

(* When the table is null: dict = new(), and GetCallouts. *)
Check(t) ==
  /\ pc[t] = "check"
  /\ IF published = "none"
     THEN /\ table' = [table EXCEPT ![t] = {}]
          /\ filled' = [filled EXCEPT ![t] = 0]
          /\ pc' = [pc EXCEPT ![t] = "fill"]
     ELSE /\ pc' = [pc EXCEPT ![t] = "lookup"]
          /\ UNCHANGED <<table, filled>>
  /\ UNCHANGED <<callouts, published, wanted, answer, calls>>

(* dict.Add, which throws for a position that is there already. *)
Add(t) ==
  /\ pc[t] = "fill" /\ filled[t] < Len(callouts)
  /\ LET info == callouts[filled[t] + 1] IN
     IF \E item \in table[t] : item.position = info.position
     THEN /\ answer' = [answer EXCEPT ![t] = <<ArgumentException>>]
          /\ pc' = [pc EXCEPT ![t] = "idle"]
          /\ UNCHANGED <<table, filled>>
     ELSE /\ table' = [table EXCEPT ![t] = @ \cup {info}]
          /\ filled' = [filled EXCEPT ![t] = @ + 1]
          /\ UNCHANGED <<answer, pc>>
  /\ UNCHANGED <<callouts, published, wanted, calls>>

Publish_Early(t) ==                                            \* mutant
  /\ pc[t] = "fill"
  /\ published = "none" \/ filled[t] = Len(callouts)
  /\ published' = t
  /\ pc' = [pc EXCEPT ![t] = IF filled[t] = Len(callouts) THEN "lookup" ELSE @]
  /\ UNCHANGED <<callouts, table, filled, wanted, answer, calls>>

(* The barrier makes the items visible before the reference to the table.  *)
Publish(t) ==
  /\ pc[t] = "fill" /\ filled[t] = Len(callouts)
  /\ published' = t
  /\ pc' = [pc EXCEPT ![t] = "lookup"]
  /\ UNCHANGED <<callouts, table, filled, wanted, answer, calls>>

(* The field is read again: it may refer to another thread's table. *)
Find(t) ==
  /\ pc[t] = "lookup"
  /\ answer' = [answer EXCEPT ![t] = <<Lookup(table[published], wanted[t])>>]
  /\ pc' = [pc EXCEPT ![t] = "idle"]
  /\ UNCHANGED <<callouts, published, table, filled, wanted, calls>>

Done == (\A t \in Threads : pc[t] = "idle" /\ calls[t] = 0) /\ UNCHANGED vars

Step(t) == Begin(t) \/ Check(t) \/ Add(t) \/ Publish(t) \/ Find(t)

Next == (\E t \in Threads : Step(t)) \/ Done

Spec == Init /\ [][Next]_vars

-----------------------------------------------------------------------------
(* Properties. *)

Callouts == {callouts[i] : i \in 1..Len(callouts)}

Answers == {NoCallout, ArgumentException} \cup Callouts

(* Every variable has its type. *)
TypeOK ==
  /\ callouts \in Patterns
  /\ published \in Threads \cup {"none"}
  /\ table \in [Threads -> SUBSET Callouts]
  /\ filled \in [Threads -> 0..Len(callouts)]
  /\ wanted \in [Threads -> Positions(callouts) \cup {0}]
  /\ answer \in [Threads -> {<< >>} \cup {<<a>> : a \in Answers}]
  /\ calls \in [Threads -> 0..MaxCalls]
  /\ pc \in [Threads -> {"idle", "check", "fill", "lookup"}]

(* No two callouts of a pattern are at the same position. *)
ArePositionsDistinct(s) ==
  \A i, j \in 1..Len(s) : s[i].position = s[j].position => i = j

(* Whichever thread's table is published, a lookup answers what a scan of  *)
(* the whole pattern would: no reader ever sees a table being filled.  It  *)
(* throws for a pattern that lists a position twice, then and each time:   *)
(* no thread ever publishes the part of the table that could be filled.    *)
LookupsAgree ==
  \A t \in Threads :
    answer[t] # << >> =>
      answer[t] = IF ArePositionsDistinct(callouts)
                  THEN <<Lookup(Callouts, wanted[t])>> ELSE <<ArgumentException>>
=============================================================================
