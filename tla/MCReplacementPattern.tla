-------------------------- MODULE MCReplacementPattern --------------------------
(***************************************************************************)
(* Instances of ReplacementPattern for TLC.                                *)
(***************************************************************************)
EXTENDS ReplacementGrammar

MCChars ==
  {"$", "{", "}", "0", "1", "2", "9", "n", "&", "quote", "backquote", "_", "+", "a", "b", "c"}

Strings(chars, n) == UNION {[1..k -> chars] : k \in 0..n}

(* Placeholders with braces and numbers, then the others. *)
MCPatterns ==
  Strings({"$", "{", "}", "1", "2"}, 5) \cup Strings({"$", "{", "}", "n"}, 6)
    \cup Strings({"$", "&", "quote", "backquote", "_", "+", "n"}, 3)
    \cup Strings({"$", "0", "9", "1"}, 4)

MCSubject == <<"a", "b", "c">>

(* Two groups of one name, and a group with a name of its own. *)
MCNames == [name \in {<<"n">>, <<"n", "n">>} |-> IF name = <<"n">> THEN <<1, 2>> ELSE <<2>>]

(* A match, and one whose \K in a lookahead has put its start after its    *)
(* end; each group is set, empty or unset.                                 *)
MCCaptures ==
  {c \in [Groups -> {UnsetPair, <<0, 0>>, <<1, 2>>, <<2, 1>>, <<2, 3>>}] :
     c[0] \in {<<1, 2>>, <<2, 1>>} /\ c[1] \in {UnsetPair, <<1, 2>>} /\ c[2] # <<2, 1>>}

(* Decimal on the numerals up to 12, which is MaxInt here, and above it.   *)
ASSUME NumeralsAreDecimal ==
  /\ Decimal(<<"0">>) = 0 /\ Decimal(<<"1">>) = 1 /\ Decimal(<<"0", "2">>) = 2
  /\ Decimal(<<"9">>) = 9 /\ Decimal(<<"1", "2">>) = 12 /\ Decimal(<<"1", "1", "0">>) = 110
=============================================================================
