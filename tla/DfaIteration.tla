----------------------------- MODULE DfaIteration -----------------------------
(***************************************************************************)
(* Enumerating the results of the DFA algorithm (PcreDfaRegex.Matches):    *)
(* one result per position of the subject where the pattern matches, with  *)
(* the matches that start there, the longest first.                        *)
(*                                                                         *)
(* The subject is UTF-16: a position is inside a character when the unit   *)
(* there is a low surrogate.  Searches after the first do not check that.  *)
(* The caller keeps the settings object and may change it between results: *)
(* the options are read once, the sizes of the vectors by each search.     *)
(***************************************************************************)
EXTENDS FiniteSetsExt, Sequences, Integers

CONSTANTS
  Subjects,       \* sequences of "bmp", "high" and "low": valid UTF-16
  MaxResultsSet,  \* the values of settings.MaxResults
  UINT16_MAX,     \* the most pairs of a match data block: 65535 in the code
  MaxChanges,     \* bound: changes the caller makes to the settings
  MaxFailures     \* bound: searches that run out of workspace

Units == {"bmp", "high", "low"}

(* The array of twice as many entries can be allocated, and the product,   *)
(* in 32 bits, does not wrap.                                              *)
MaxRequest == 1073741823

(* In valid UTF-16 a low surrogate follows a high one.                     *)
ASSUME DfaAssumption ==
  /\ Subjects \subseteq Seq(Units)
  /\ \A s \in Subjects : \A i \in 1..Len(s) :
       s[i] = "low" => i > 1 /\ s[i - 1] = "high"
  /\ MaxResultsSet \subseteq 0..MaxRequest
  /\ UINT16_MAX \in Nat \ {0}
  /\ MaxChanges \in Nat /\ MaxFailures \in Nat

VARIABLES
  subject,     \* the subject (constant after Init)
  pattern,     \* what pcre2_dfa_match finds: the ends of the matches that
               \* start at each position (constant after Init)
  maxResults,  \* settings.MaxResults
  shortest,    \* settings.AdditionalOptions has DfaShortest
  startIndex,  \* settings.StartIndex
  changes,     \* changes the caller has made to the settings
  options,     \* additionalOptions has PCRE2_DFA_SHORTEST
  next,        \* nextIndex: where the search about to be made starts
  first,       \* history: where the first search started
  results,     \* history: the results returned
  failures,    \* searches that ran out of workspace
  pc           \* "new", "searching", "suspended", "done" or "threw"

settings == <<maxResults, shortest, startIndex, changes>>

vars == <<subject, pattern, settings, options, next, first, results, failures, pc>>

given == <<subject, pattern>>

Length == Len(subject)

(* Bound of the history: one more than the number of positions. *)
MaxFound == Length + 2

Larger(a, b) == IF a > b THEN a ELSE b

IsLowSurrogate(i) == i < Length /\ subject[i + 1] = "low"

(* The positions of the subject that are not inside a character. *)
BoundariesOf(s) == {i \in 0..Len(s) : i = Len(s) \/ s[i + 1] # "low"}

Boundaries == BoundariesOf(subject)

PatternsOf(s) ==
  {f \in [BoundariesOf(s) -> SUBSET BoundariesOf(s)] :
     \A p \in BoundariesOf(s) : \A e \in f[p] : p <= e}

Init ==
  /\ subject \in Subjects
  /\ pattern \in PatternsOf(subject)
  /\ maxResults \in MaxResultsSet
  /\ shortest \in BOOLEAN
  /\ startIndex \in 0..Length
  /\ changes = 0 /\ options = FALSE
  /\ next = 0 /\ first = 0
  /\ results = << >>
  /\ failures = 0
  /\ pc = "new"

-----------------------------------------------------------------------------
(* What a search works with: MaxResults and DfaShortest as they are in the *)
(* settings now, and the option PCRE2_DFA_SHORTEST it is given.            *)
Search(option) == [max |-> maxResults, single |-> shortest, shortest |-> option]

(* FillMatchInput: DfaShortest asks for a single pair. *)
AskedPairs(s) == IF s.single THEN 1 ELSE Larger(1, s.max)

(* The pairs of pcre2's output vector, and of the managed array it is      *)
(* copied to.                                                              *)
NativePairs(s) ==
  IF AskedPairs(s) > UINT16_MAX THEN UINT16_MAX ELSE Larger(1, AskedPairs(s))

ManagedPairs(s) == Larger(1, s.max)

(* What pcre2_dfa_match reports at p: the ends, from the longest match, of *)
(* as many matches as fit; the code is 0 when they do not all fit.         *)
Descending(ends) ==
  [i \in 1..Cardinality(ends) |->
     CHOOSE e \in ends : Cardinality({x \in ends : x > e}) = i - 1]

ReportedEnds(p, s) ==
  LET all == Descending(pattern[p]) IN
  IF s.shortest THEN <<all[Len(all)]>>
  ELSE IF Len(all) > NativePairs(s) THEN SubSeq(all, 1, NativePairs(s)) ELSE all

Code(p, s) ==
  IF ~s.shortest /\ Cardinality(pattern[p]) > NativePairs(s)
  THEN 0 ELSE Len(ReportedEnds(p, s))

(* The managed array, zero where nothing is copied to it.  (What is copied *)
(* of pairs that are not reported is never shown: the code is not 0 then.) *)
OutputVector(p, s) ==
  [i \in 1..ManagedPairs(s) |->
     IF i <= Len(ReportedEnds(p, s)) THEN <<p, ReportedEnds(p, s)[i]>> ELSE <<0, 0>>]

Count_Full(code, s) == ManagedPairs(s)                         \* mutant

(* PcreDfaMatchResult: the number of matches it shows. *)
Count(code, s) == IF code > 0 THEN code ELSE ManagedPairs(s)

(* What a result shows, with the search that made it (history). *)
Result(p, s) ==
  [index |-> OutputVector(p, s)[1][1],
   matches |-> SubSeq(OutputVector(p, s), 1, Count(Code(p, s), s)),
   search |-> s]

(* The positions at or after a start where the pattern matches. *)
MatchesFrom(p) == {q \in Boundaries : q >= p /\ pattern[q] # {}}

FirstFrom(p) == {q \in MatchesFrom(p) : \A x \in MatchesFrom(p) : q <= x}

(* A search from a position of the subject, by DfaMatch. *)
SearchFrom(p, s) ==
  \/ /\ \E q \in FirstFrom(p) :
          results' = IF Len(results) < MaxFound
                     THEN Append(results, Result(q, s)) ELSE results
     /\ pc' = "suspended"
     /\ UNCHANGED failures
  \/ /\ MatchesFrom(p) = {}
     /\ pc' = "done"
     /\ UNCHANGED <<results, failures>>
  \/ /\ failures < MaxFailures        \* PCRE2_ERROR_DFA_WSSIZE
     /\ failures' = failures + 1
     /\ pc' = "threw"
     /\ UNCHANGED results

(* The caller changes the settings it has given: after Matches has checked *)
(* them and before the iterator reads them, or between two results, when   *)
(* StartIndex is not read again.                                           *)
ChangeSettings ==
  /\ pc \in {"new", "suspended"}
  /\ changes < MaxChanges
  /\ changes' = changes + 1
  /\ maxResults' \in MaxResultsSet /\ shortest' \in BOOLEAN
  /\ \/ pc = "new" /\ startIndex' \in (-1)..(Length + 1)
     \/ pc = "suspended" /\ UNCHANGED startIndex
  /\ UNCHANGED <<given, options, next, first, results, failures, pc>>

(* The first search checks its start: PCRE2_ERROR_BADOFFSET for one that   *)
(* is outside of the subject (-1 is cast to an unsigned integer) and       *)
(* PCRE2_ERROR_BADUTFOFFSET for one that is inside a character.  Its       *)
(* options are those of all the searches.                                  *)
FirstMatch ==
  /\ pc = "new"
  /\ options' = shortest
  /\ next' = startIndex /\ first' = startIndex
  /\ IF startIndex \in Boundaries
     THEN SearchFrom(startIndex, Search(shortest))
     ELSE pc' = "threw" /\ UNCHANGED <<results, failures>>
  /\ UNCHANGED <<given, settings>>

Advanced_OneUnit(i) == i                                       \* mutant

(* The next index, past the low surrogate when it is inside a character. *)
Advanced(i) == IF IsLowSurrogate(i) THEN i + 1 ELSE i

AfterIndex_AfterLongest(r) == r.matches[1][2]                  \* mutant

AfterIndex_Same(r) == r.index                                  \* mutant

AfterIndex(r) == r.index + 1

IsPastEnd_Late(i) == i > Length + 1                            \* mutant

IsPastEnd(i) == i > Length

NextIndex ==
  /\ pc = "suspended"
  /\ LET i == AfterIndex(results[Len(results)]) IN
     IF IsPastEnd(i)
     THEN pc' = "done" /\ UNCHANGED next
     ELSE pc' = "searching" /\ next' = Advanced(i)
  /\ UNCHANGED <<given, settings, options, first, results, failures>>

NextMatch ==
  /\ pc = "searching"
  /\ SearchFrom(next, Search(options))
  /\ UNCHANGED <<given, settings, options, next, first>>

Done == pc \in {"done", "threw"} /\ UNCHANGED vars

Next == ChangeSettings \/ FirstMatch \/ NextIndex \/ NextMatch \/ Done

(* The caller enumerates the results to the end. *)
Spec ==
  Init /\ [][Next]_vars /\ WF_vars(FirstMatch \/ NextIndex \/ NextMatch)

-----------------------------------------------------------------------------
(* Properties. *)

TypeOK ==
  /\ subject \in Subjects /\ pattern \in PatternsOf(subject)
  /\ maxResults \in MaxResultsSet /\ shortest \in BOOLEAN
  /\ startIndex \in (-1)..(Length + 1)
  /\ changes \in 0..MaxChanges /\ options \in BOOLEAN
  /\ first \in (-1)..(Length + 1)
  /\ next \in {first} \cup 0..Length
  /\ \A i \in 1..Len(results) : results[i].index \in 0..Length
  /\ failures \in 0..MaxFailures
  /\ pc \in {"new", "searching", "suspended", "done", "threw"}

(* A search that does not check the subject (PCRE2_NO_UTF_CHECK) starts    *)
(* at a character of it.                                                   *)
StartsAtCharacters == pc = "searching" => next \in Boundaries

(* "The returned result is a sequence of match results starting at         *)
(* different points in the subject string": an enumeration that ends has   *)
(* one result for each position where the pattern matches, in order.       *)
EachStartOnce ==
  pc = "done" =>
    /\ {results[i].index : i \in 1..Len(results)} = MatchesFrom(first)
    /\ \A i, j \in 1..Len(results) : i < j => results[i].index < results[j].index

(* The search asks for the shortest match only; or the caller asks for no  *)
(* more results than a match data block holds, and has not set DfaShortest *)
(* since the options were read.                                            *)
Honoured(s) == s.shortest \/ (s.max <= UINT16_MAX /\ ~s.single)

(* "This contains several matches that start at the same index in the      *)
(* subject string.  The longest match is returned first": whatever the     *)
(* settings become, the first match of a result is one of the pattern's;   *)
(* and if they can be honoured so is every match, there are as many as     *)
(* MaxResults allows, and they get shorter.                                *)
MatchesAreReal ==
  \A i \in 1..Len(results) :
    LET r == results[i]
        s == r.search
        n == Cardinality(pattern[r.index])
    IN /\ r.matches[1][1] = r.index /\ r.matches[1][2] \in pattern[r.index]
       /\ Honoured(s) =>
            /\ Len(r.matches) = IF s.shortest THEN 1 ELSE Min({n, Larger(1, s.max)})
            /\ \A k \in 1..Len(r.matches) :
                 r.matches[k][1] = r.index /\ r.matches[k][2] \in pattern[r.index]
            /\ \A k \in 2..Len(r.matches) : r.matches[k][2] < r.matches[k - 1][2]

(* The same comment (PcreDfaMatchResult.cs), taken at its word: all that a *)
(* result contains are matches that start at its index.                    *)
OnlyMatches ==
  \A i \in 1..Len(results) :
    LET r == results[i] IN
    \A k \in 1..Len(r.matches) :
      r.matches[k][1] = r.index /\ r.matches[k][2] \in pattern[r.index]

(* The enumeration ends, although it always moves on by one character. *)
Ends == <>(pc \in {"done", "threw"})
=============================================================================
