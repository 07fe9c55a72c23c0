----------------------------- MODULE NextMatchLoop -----------------------------
(***************************************************************************)
(* The loop PCRE2 prescribes for an application that wants every match:    *)
(* pcre2_match, then pcre2_next_match, until one of them says no.          *)
(***************************************************************************)
EXTENDS Matcher

CONSTANTS
  Length       \* subject_length

VARIABLES
  pattern,     \* constant after Init
  found,       \* the matches handled so far
  offset,      \* *pstart_offset
  notEmpty,    \* *poptions = PCRE2_NOTEMPTY_ATSTART
  more         \* what pcre2_next_match answered

vars == <<pattern, found, offset, notEmpty, more>>

Init ==
  /\ found = << >>
  /\ notEmpty = FALSE
  /\ more = TRUE

(* pcre2_next_match after the match m of a search from start. *)
NextMatch(m, start) ==
  \/ /\ m.index # start /\ m.end = start
     /\ more' = (start < Length)
     /\ offset' = (IF start < Length THEN start + 1 ELSE start)
     /\ notEmpty' = FALSE
  \/ /\ ~(m.index # start /\ m.end = start)
     /\ more' = ~(m.index = m.end /\ m.index >= Length)
     /\ offset' = m.end
     /\ notEmpty' = (m.index = m.end)

Find ==
  /\ more
  /\ \E m \in Search(pattern, offset, notEmpty) :
       /\ found' = Append(found, m)
       /\ NextMatch(m, offset)
  /\ UNCHANGED pattern

NoMatch ==
  /\ more
  /\ Search(pattern, offset, notEmpty) = {}
  /\ more' = FALSE
  /\ UNCHANGED <<pattern, found, offset, notEmpty>>

Next == Find \/ NoMatch

Spec == Init /\ [][Next]_vars
=============================================================================
