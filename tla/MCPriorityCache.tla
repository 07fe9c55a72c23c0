---------------------------- MODULE MCPriorityCache ----------------------------
(***************************************************************************)
(* Instances of SoloCache for TLC.                                         *)
(***************************************************************************)
EXTENDS SoloCache

CONSTANTS p1, p2, d1

MCBuild == [f \in BuildFields |-> IF f = "newLine" THEN 5 ELSE 1]

Plain ==
  [options |-> {}, extraCompileOptions |-> {}, jitCompileOptions |-> {},
   newLine |-> Null, backslashR |-> Null, parensLimit |-> Null,
   maxPatternLength |-> Null, maxPatternCompiledLength |-> Null,
   maxVarLookbehind |-> Null, optimizationDirectives |-> << >>]

(* Two keys that are equal although one sets what the other leaves out, a  *)
(* third of the same pattern that differs, and a pattern in error.         *)
MCKeys ==
  {NewKey(p1, Plain),
   NewKey(p1, [Plain EXCEPT !.options = {"Utf"}, !.newLine = 5, !.maxVarLookbehind = 255]),
   NewKey(p1, [Plain EXCEPT !.optimizationDirectives = <<d1>>]),
   NewKey(p2, Plain)}

MCHash == [k \in MCKeys |-> GetHashCode(k)]

MCBadKeys == {k \in MCKeys : k.pattern = p2}
=============================================================================
