------------------------------- MODULE LruCache -------------------------------
(***************************************************************************)
(* What a cache used by one caller at a time promises: it remembers the    *)
(* keys used most recently, in that order, up to its size.                 *)
(***************************************************************************)
EXTENDS Naturals, Sequences

CONSTANTS Keys, Sizes

VARIABLES
  remembered,   \* keys, the most recently used first
  capacity,     \* the size of the cache
  used          \* keys handed out by the latest completed use

lruVars == <<remembered, capacity, used>>

(* The keys of s are distinct. *)
Without(s, k) ==
  IF \E i \in 1..Len(s) : s[i] = k
  THEN LET i == CHOOSE i \in 1..Len(s) : s[i] = k IN
       SubSeq(s, 1, i - 1) \o SubSeq(s, i + 1, Len(s))
  ELSE s

Prefix(s, n) == SubSeq(s, 1, IF n < Len(s) THEN n ELSE Len(s))

LruInit == remembered = << >> /\ capacity \in Sizes /\ used = {}

Use(k) ==
  /\ used' = {k}
  /\ remembered' = Prefix(<<k>> \o Without(remembered, k), capacity)
  /\ UNCHANGED capacity

(* A use that fails hands nothing out and leaves the cache as it was. *)
FailedUse == used' = {} /\ UNCHANGED <<remembered, capacity>>

Resize(n) ==
  /\ capacity' = n
  /\ remembered' = Prefix(remembered, n)
  /\ UNCHANGED used

LruNext == (\E k \in Keys : Use(k)) \/ FailedUse \/ (\E n \in Sizes : Resize(n))

LruSpec == LruInit /\ [][LruNext]_lruVars
=============================================================================
