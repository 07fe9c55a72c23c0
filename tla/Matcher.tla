-------------------------------- MODULE Matcher --------------------------------
(***************************************************************************)
(* What the iterators need to know of pcre2_match (a library): for a given *)
(* subject, a pattern is the list of the matches it can make from each     *)
(* position, in the order in which backtracking finds them.  A match is    *)
(* the position of the attempt and the two offsets that are reported;      *)
(* they differ from the attempt's own when the pattern uses \K.  What      *)
(* makes a search depend on where it starts is left out: \G, anchoring,    *)
(* and the verbs COMMIT and SKIP.                                          *)
(***************************************************************************)
EXTENDS Integers, Sequences

Match(from, index, end) == [from |-> from, index |-> index, end |-> end]

(* PCRE2_NOTEMPTY_ATSTART rejects an empty match at the starting offset. *)
Rejected(m, start, notEmptyAtStart) ==
  notEmptyAtStart /\ m.index = start /\ m.end = start

(* The attempts of a search that succeed: position and rank. *)
Successes(pattern, start, notEmptyAtStart) ==
  {a \in UNION {{p} \X DOMAIN pattern[p] : p \in DOMAIN pattern} :
     a[1] >= start /\ ~Rejected(pattern[a[1]][a[2]], start, notEmptyAtStart)}

Precedes(a, b) == a[1] < b[1] \/ (a[1] = b[1] /\ a[2] <= b[2])

(* The match a search reports: none, or the leftmost one that is tried     *)
(* first.                                                                  *)
Search(pattern, start, notEmptyAtStart) ==
  LET successes == Successes(pattern, start, notEmptyAtStart) IN
  {pattern[a[1]][a[2]] :
     a \in {b \in successes : \A c \in successes : Precedes(b, c)}}

(* Every match of the pattern lies after the position it was tried at, and *)
(* ends after it begins: true unless the pattern is allowed to use \K in a *)
(* lookaround.                                                             *)
WellBehaved(pattern) ==
  \A p \in DOMAIN pattern : \A i \in DOMAIN pattern[p] :
    /\ pattern[p][i].from = p
    /\ p <= pattern[p][i].index
    /\ pattern[p][i].index <= pattern[p][i].end
=============================================================================
