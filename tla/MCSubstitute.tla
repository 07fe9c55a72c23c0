----------------------------- MODULE MCSubstitute -----------------------------
(***************************************************************************)
(* Instances of Substitute for TLC.  The stack buffer of 4096 units is     *)
(* scaled down to a few units, so that a subject of three or four units    *)
(* overflows it at every point of a pass.                                  *)
(***************************************************************************)
EXTENDS Substitute

Buffers == {1, 3, 5, 12}

(* Match and substitution callouts: every combination of them. *)
CalloutInputs ==
  {i \in [length : {3, 4}, start : {0, 1}, replacement : {0, 1, 3, 9},
          buffer : Buffers, global : BOOLEAN, replacementOnly : BOOLEAN,
          matchCallout : BOOLEAN, substCallout : BOOLEAN,
          caseCallout : {FALSE}, faulty : {FALSE}] :
     i.start = 1 => i.length = 4}

(* A case callout, alone or with a substitution callout. *)
CaseInputs ==
  [length : {3, 4}, start : {0}, replacement : {1, 2}, buffer : {2, 5, 30},
   global : BOOLEAN, replacementOnly : {FALSE},
   matchCallout : {FALSE}, substCallout : BOOLEAN, caseCallout : {TRUE},
   faulty : {FALSE}]

(* Calls during which allocations and searches fail. *)
FailureInputs ==
  [length : {3}, start : {0, 1}, replacement : {1, 3}, buffer : {1, 4, 12},
   global : {TRUE}, replacementOnly : {FALSE},
   matchCallout : BOOLEAN, substCallout : BOOLEAN, caseCallout : BOOLEAN,
   faulty : {TRUE}]

AllInputs == CalloutInputs \cup CaseInputs \cup FailureInputs

(* PCRE2_ERROR_MATCHLIMIT and PCRE2_ERROR_NOMEMORY. *)
Errors == {-47, -48}
=============================================================================
