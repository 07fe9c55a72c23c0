------------------------------- MODULE RegexCache -------------------------------
(***************************************************************************)
(* Caches.RegexCache: the PriorityCache whose keys are RegexKeys.          *)
(***************************************************************************)
EXTENDS PriorityCache, RegexKey, FiniteSets

(* The comparer of the cache is the equality of RegexKey, and whether a    *)
(* pattern compiles depends on what it compiles to.                        *)
ASSUME RegexCacheAssumption ==
  /\ Keys \subseteq RegexKeys
  /\ \A k \in Keys : Hash[k] = GetHashCode(k)
  /\ \A k, l \in Keys : Same(k, l) <=> Equals(k, l)
  /\ \A k, l \in Keys :
       Compiled(k) = Compiled(l) => (k \in BadKeys <=> l \in BadKeys)

(* A regex out of the cache was compiled as its caller's pattern and       *)
(* settings ask, although it may come from a key with other fields: what   *)
(* the comparison leaves out, or takes as equal, makes no difference to    *)
(* the compiler.                                                           *)
AnswersAsCompiled ==
  \A t \in Threads :
    pc[t] = "idle" => \A item \in answer[t] : Compiled(item) = Compiled(key[t])

(* Two threads that miss one key at the same time both store it, so a key  *)
(* may be in the list twice: but a key that is stored is found by the next *)
(* scan, so copies and pending insertions of a key together never exceed   *)
(* the number of threads.                                                  *)
DuplicatesBounded ==
  \A k \in Keys :
    Cardinality(Copies(k)) + Cardinality(Making(k)) <= Cardinality(Threads)
=============================================================================
