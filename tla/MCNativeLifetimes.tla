--------------------------- MODULE MCNativeLifetimes ---------------------------
(***************************************************************************)
(* Instances of NativeLifetimes for TLC.                                   *)
(***************************************************************************)
EXTENDS NativeLifetimes, TLC

CONSTANTS t1, t2

(* One thread starts a second match, or disposes, in a callout.            *)
MCMaxDepth == (t1 :> 2) @@ (t2 :> 1)

(* The pattern limits the heap below the default, above what the program   *)
(* asks for.                                                               *)
MCPatternLimit == [r \in Regexes |-> 7]
=============================================================================
