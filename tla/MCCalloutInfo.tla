---------------------------- MODULE MCCalloutInfo ----------------------------
(***************************************************************************)
(* Instances of CalloutInfo for TLC.                                       *)
(***************************************************************************)
EXTENDS CalloutInfo

Callout(position, number) == [position |-> position, number |-> number]

(* Patterns whose callouts are at different positions, and                 *)
(* (?C1)(?:a(?C2)b){2}: PCRE2 compiles the group twice, and enumerates the *)
(* callout of both.                                                        *)
SomePatterns ==
  {<< >>, <<Callout(5, 1)>>, <<Callout(5, 1), Callout(10, 2), Callout(15, 1)>>,
   <<Callout(5, 1), Callout(14, 2), Callout(14, 2)>>}
=============================================================================
