---------------------------- MODULE MCDfaIteration ----------------------------
(***************************************************************************)
(* Instances of DfaIteration for TLC: every subject of at most             *)
(* MaxCharacters characters, each one or two UTF-16 units.                 *)
(***************************************************************************)
EXTENDS DfaIteration, SequencesExt

CONSTANT MaxCharacters

Characters == {<<"bmp">>, <<"high", "low">>}

ValidSubjects ==
  UNION {{FlattenSeq(c) : c \in [1..n -> Characters]} : n \in 0..MaxCharacters}
=============================================================================
