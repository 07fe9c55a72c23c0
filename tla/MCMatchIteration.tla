--------------------------- MODULE MCMatchIteration ---------------------------
(***************************************************************************)
(* Instances of MatchIteration for TLC: every pattern that has at most two *)
(* ways to match from each position of a subject of two units.             *)
(***************************************************************************)
EXTENDS MatchIteration

Choices(matches) ==
  {<< >>} \cup {<<m>> : m \in matches}
    \cup {c \in matches \X matches : c[1] # c[2]}

From(p) == {m \in [from : {p}, index : p..Length, end : p..Length] :
              m.index <= m.end}

AnyFrom(p) == [from : {p}, index : 0..Length, end : p..Length]

OrdinaryPatterns ==
  {[p \in 0..2 |-> IF p = 0 THEN a ELSE IF p = 1 THEN b ELSE c] :
     a \in Choices(From(0)), b \in Choices(From(1)),
     c \in Choices(From(2))}

(* Patterns allowed to use \K in a lookaround: at most one match from each *)
(* position, with an offset anywhere.                                      *)
LookaroundPatterns ==
  {[p \in 0..2 |-> IF p = 0 THEN a ELSE IF p = 1 THEN b ELSE c] :
     a \in {<< >>} \cup {<<m>> : m \in AnyFrom(0)},
     b \in {<< >>} \cup {<<m>> : m \in AnyFrom(1)},
     c \in {<< >>} \cup {<<m>> : m \in AnyFrom(2)}}

AnyStart == 0..Length
SomeCounts == {-1, 0, 1, 2}
=============================================================================
