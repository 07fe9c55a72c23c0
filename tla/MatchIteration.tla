---------------------------- MODULE MatchIteration ----------------------------
(***************************************************************************)
(* Enumerating the matches of a subject: PcreRegex.Matches over a string   *)
(* (a C# iterator), over a span (RefMatchEnumerator) and over a match      *)
(* buffer, and the two consumers of the first, Replace and Split.          *)
(*                                                                         *)
(* One step is one MoveNext, or the loop body that follows it.  A search   *)
(* may fail (a match limit, an exception thrown by a callout); the caller  *)
(* then stops, or calls MoveNext again.                                    *)
(***************************************************************************)
EXTENDS Matcher

CONSTANTS
  Length,       \* subject.Length
  Patterns,     \* the patterns: functions on 0..Length, see Matcher
  Starts,       \* the values of startIndex
  Apis,         \* subset of AllApis
  Counts,       \* the count of Replace and Split: -1 for all the matches
  MaxFailures   \* bound: searches that fail in a call

AllApis == {"Matches", "RefMatches", "BufferMatches", "Replace", "Split"}

ASSUME IterationAssumption ==
  /\ Length \in Nat
  /\ \A pattern \in Patterns :
       /\ DOMAIN pattern = 0..Length
       /\ \A p \in 0..Length :
            pattern[p] \in Seq([from : {p}, index : 0..Length, end : 0..Length])
  /\ Starts \subseteq 0..Length
  /\ Apis \subseteq AllApis
  /\ Counts \subseteq Int
  /\ MaxFailures \in Nat

(* Bound of the history: twice the bound of FewMatches. *)
MaxFound == 4 * (Length + 1)

VARIABLES
  pattern,   \* the pattern (constant after Init)
  api,       \* the method called (constant after Init)
  start,     \* startIndex (constant after Init)
  stage,     \* of the enumerator: "new", "running" or "ended"
  match,     \* the current match, NoMatchYet before there is one
  vector,    \* does the current match have an output vector?
  found,     \* history: the matches handed out
  position,  \* position of Replace, index of SplitIterator
  pieces,    \* the parts of the subject they keep
  count,     \* matches left to replace or split at
  failures,  \* searches that have failed
  pc         \* the caller: see Places

vars == <<pattern, api, start, stage, match, vector, found, position, pieces,
          count, failures, pc>>

Places == {"moving", "handling", "threw", "done", "gaveUp"}

given == <<pattern, api, start>>

IsStringApi == api \in {"Matches", "Replace", "Split"}
Consumes == api \in {"Replace", "Split"}

NoMatchYet == Match(-1, -1, -1)

StartOfNextMatch_Index(m) == m.index                           \* mutant

StartOfNextMatch_End(m) == m.end + 1                           \* mutant

(* GetStartOfNextMatchIndex *)
StartOfNextMatch(m) == IF m.index > m.end THEN m.index ELSE m.end

MatchLength(m) == IF m.end > m.index THEN m.end - m.index ELSE 0

NotEmptyAtStart_Never(m) == FALSE                              \* mutant

NotEmptyAtStart_Always(m) == TRUE                              \* mutant

NotEmptyAtStart(m) == MatchLength(m) = 0

Init ==
  /\ pattern \in Patterns
  /\ api \in Apis
  /\ start \in Starts
  /\ stage = "new" /\ match = NoMatchYet /\ vector = FALSE
  /\ found = << >>
  /\ position = 0 /\ pieces = << >>
  /\ count \in (IF Consumes THEN Counts ELSE {-1})
  /\ failures = 0
  /\ pc = "moving"

-----------------------------------------------------------------------------
Keep(from, to) == Append(pieces, <<from, to>>)

KeepRest == IF Consumes THEN Keep(position, Length) ELSE pieces

Found(m) ==
  /\ match' = m /\ vector' = TRUE
  /\ stage' = "running"
  /\ found' = IF Len(found) < MaxFound THEN Append(found, m) ELSE found
  /\ pc' = "handling"
  /\ UNCHANGED <<given, position, pieces, count, failures>>

NotFound ==
  /\ stage' = "ended"
  /\ match' = NoMatchYet
  /\ pieces' = KeepRest
  /\ pc' = "done"
  /\ UNCHANGED <<given, vector, found, position, count, failures>>

(* A search that ends with a match, without one, or with an exception.     *)
(* The exception ends a C# iterator; an enumerator keeps the match it had, *)
(* with an output vector that NextMatch has already replaced by an empty   *)
(* one unless it is the match buffer's.                                    *)
SearchFrom(from, notEmpty) ==
  \/ \E m \in Search(pattern, from, notEmpty) : Found(m)
  \/ Successes(pattern, from, notEmpty) = {} /\ NotFound
  \/ /\ failures < MaxFailures
     /\ failures' = failures + 1
     /\ stage' = IF IsStringApi THEN "ended" ELSE "running"
     /\ vector' = (vector /\ api = "BufferMatches")
     /\ pc' = "threw"
     /\ UNCHANGED <<given, match, found, position, pieces, count>>

(* Replace and Split return the subject for a count of zero. *)
Nothing ==
  /\ pc = "moving" /\ Consumes /\ count = 0 /\ stage = "new"
  /\ pieces' = KeepRest
  /\ pc' = "done"
  /\ UNCHANGED <<given, stage, match, vector, found, position, count, failures>>

(* The body of a loop over the matches the caller has written. *)
HandOut ==
  /\ pc = "handling" /\ ~Consumes
  /\ pc' = "moving"
  /\ UNCHANGED <<given, stage, match, vector, found, position, pieces, count,
                 failures>>

(* The body of the loop of Replace and SplitIterator, and their last piece *)
(* after a break.  A piece of negative length is an exception.             *)
KeepPiece ==
  /\ pc = "handling" /\ Consumes
  /\ \/ /\ match.index < position
        /\ pc' = "gaveUp"
        /\ UNCHANGED <<position, pieces, count>>
     \/ /\ match.index >= position
        /\ position' = StartOfNextMatch(match)
        /\ count' = count - 1
        /\ IF count = 1
           THEN /\ pieces' = Keep(position, match.index)
                               \o <<<<StartOfNextMatch(match), Length>>>>
                /\ pc' = "done"
           ELSE /\ pieces' = Keep(position, match.index)
                /\ pc' = "moving"
  /\ UNCHANGED <<given, stage, match, vector, found, failures>>

FirstMatch ==
  /\ pc = "moving" /\ stage = "new"
  /\ ~(Consumes /\ count = 0)
  /\ SearchFrom(start, FALSE)

NextMatch ==
  /\ pc = "moving" /\ stage = "running"
  /\ match # NoMatchYet /\ vector
  /\ SearchFrom(StartOfNextMatch(match), NotEmptyAtStart(match))

(* NextMatch of an enumerator whose previous search threw: the start is -1 *)
(* (PCRE2_ERROR_BADOFFSET) when there was no match before, and the output  *)
(* vector of the previous match is gone (an index out of range) otherwise. *)
NextMatchWithoutMatch ==
  /\ pc = "moving" /\ stage = "running"
  /\ match = NoMatchYet \/ ~vector
  /\ failures < MaxFailures
  /\ failures' = failures + 1
  /\ pc' = "threw"
  /\ UNCHANGED <<given, stage, match, vector, found, position, pieces, count>>

(* MoveNext of an iterator that has ended returns false. *)
MoveEnded ==
  /\ pc = "moving" /\ stage = "ended"
  /\ pc' = "gaveUp"
  /\ UNCHANGED <<given, stage, match, vector, found, position, pieces, count,
                 failures>>

(* The caller catches the exception and calls MoveNext again, or does not. *)
(* Replace and Split let it through.                                       *)
CallAgain ==
  /\ pc = "threw"
  /\ \/ pc' = "gaveUp"
     \/ ~Consumes /\ failures < MaxFailures /\ pc' = "moving"
  /\ UNCHANGED <<given, stage, match, vector, found, position, pieces, count,
                 failures>>

Done == pc \in {"done", "gaveUp"} /\ UNCHANGED vars

Next ==
  \/ Nothing \/ HandOut \/ KeepPiece
  \/ FirstMatch \/ NextMatch \/ NextMatchWithoutMatch \/ MoveEnded
  \/ CallAgain \/ Done

Spec == Init /\ [][Next]_vars

(* The caller keeps calling MoveNext until it gets false. *)
FairSpec == Spec /\ WF_vars(Next)

-----------------------------------------------------------------------------
(* Properties. *)

MatchType == [from : 0..Length, index : 0..Length, end : 0..Length]

(* Types; a running enumerator has a match unless its first search threw.  *)
TypeOK ==
  /\ DOMAIN pattern = 0..Length /\ api \in Apis /\ start \in Starts
  /\ stage \in {"new", "running", "ended"}
  /\ match \in MatchType \cup {NoMatchYet} /\ vector \in BOOLEAN
  /\ found \in Seq(MatchType)
  /\ position \in 0..Length
  /\ pieces \in Seq((0..Length) \X (0..Length))
  /\ count \in Int /\ failures \in 0..MaxFailures
  /\ pc \in Places

(* pcre2api.3: "the matches found [...] will be sorted, non-overlapping    *)
(* (possibly touching), and with no duplicates", also when the caller goes *)
(* on after an exception.                                                  *)
Sorted ==
  \A i, j \in 1..Len(found) : i < j =>
    found[i].end <= found[j].index /\ found[i] # found[j]

(* The enumeration makes progress: no offset of the subject is the end of  *)
(* more than two matches, a nonempty one and the empty one after it.       *)
FewMatches == Len(found) <= 2 * (Length + 1)

Covers(m, p) ==
  \/ m.from = p
  \/ m.from <= p /\ p < m.end
  \/ m.index = p /\ m.end = p

(* Matches: "Returns an enumerable of all matches found in the given       *)
(* subject": a position where the pattern can match is never skipped; a    *)
(* match reported was tried there, consumes it or is empty there.          *)
NothingMissed ==
  stage = "ended" /\ pc = "done" =>
    \A p \in start..Length :
      pattern[p] # << >> => \E i \in 1..Len(found) : Covers(found[i], p)

In(x, from, to) == from <= x /\ x < to

(* What Replace and Split return accounts for every character of the       *)
(* subject exactly once: it is kept, or it belongs to a match.             *)
SubjectAccountedFor ==
  pc = "done" /\ Consumes =>
    \A x \in 0..(Length - 1) :
      LET kept == {i \in 1..Len(pieces) : In(x, pieces[i][1], pieces[i][2])}
          matched == {i \in 1..Len(found) : In(x, found[i].index, found[i].end)}
      IN \/ matched = {} /\ \E i \in kept : kept = {i}
         \/ kept = {} /\ \E i \in matched : matched = {i}

(* The enumeration ends. *)
Ends == <>(pc \in {"done", "gaveUp"})

IsLast(m) == m.index = m.end /\ m.end >= Length

Loop == INSTANCE NextMatchLoop WITH
  offset <- IF found = << >> THEN start ELSE StartOfNextMatch(found[Len(found)]),
  notEmpty <- IF found = << >> THEN FALSE
              ELSE NotEmptyAtStart(found[Len(found)]),
  more <- ~(stage = "ended" /\ pc = "done")
            /\ ~(found # << >> /\ IsLast(found[Len(found)]))

(* The iterators make the matches of PCRE2's own loop, although they do    *)
(* not call pcre2_next_match.                                              *)
ImplementsLoop == Loop!Spec
=============================================================================
