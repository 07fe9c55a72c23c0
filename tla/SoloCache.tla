------------------------------- MODULE SoloCache -------------------------------
(***************************************************************************)
(* The cache of regexes used by one caller at a time.  In some behaviours  *)
(* one thread alone uses the cache: those are compared with LruCache, in   *)
(* the others nothing is said of the order of the list.                    *)
(***************************************************************************)
EXTENDS RegexCache

CONSTANT t1   \* the thread that may be alone

ASSUME SoloAssumption == t1 \in Threads

VARIABLE solo   \* whether only t1 uses the cache (constant after SoloInit)

SoloInit == Init /\ solo \in BOOLEAN

SoloNext ==
  \E t \in Threads :
    /\ solo => t = t1
    /\ Step(t)
    /\ UNCHANGED solo

SoloSpec == SoloInit /\ [][SoloNext]_<<vars, solo>>

(* One key for each class of equal keys. *)
EqualKeys(k) == {l \in Keys : Same(l, k)}

Canonical(k) == CHOOSE l \in EqualKeys(k) : TRUE

CanonicalKeys(s) == [i \in 1..Len(s) |-> Canonical(s[i])]

(* The setter takes effect when it trims the list. *)
LRU == INSTANCE LruCache
  WITH remembered <- IF solo THEN CanonicalKeys(cache) ELSE << >>,
       capacity <- IF ~solo THEN CHOOSE n \in Sizes : TRUE
                   ELSE IF lock = NoThread THEN cacheSize ELSE newSize[lock],
       used <- IF solo THEN {Canonical(k) : k \in answer[t1]} ELSE {}

(* One caller at a time gets a least-recently-used cache, in spite of the  *)
(* shortcut through the head.                                              *)
BehavesAsLru == LRU!LruSpec
=============================================================================
