----------------------------- MODULE PriorityCache -----------------------------
(***************************************************************************)
(* PriorityCache<TKey, TValue>: the cache of compiled patterns and of      *)
(* parsed replacement strings, shared by every thread of the program.      *)
(*                                                                         *)
(* The list is only touched under the lock.  The head is read before the   *)
(* lock is taken and written outside of it; the size is read without the   *)
(* lock.  A locked region that makes one visible change is one action      *)
(* whose guard is that the lock is free; the setter of CacheSize, whose    *)
(* writes other threads can see one by one, holds the lock for several     *)
(* steps.  An item is identified with the key it was made from: the        *)
(* factory is deterministic, so two items of a key are interchangeable.    *)
(***************************************************************************)
EXTENDS Integers, Sequences

CONSTANTS
  Threads,
  Keys,
  Hash,         \* _keyComparer.GetHashCode: keys may collide
  Same(_, _),   \* _keyComparer.Equals
  Sizes,        \* the values CacheSize is set to, with the initial one
  BadKeys,      \* the keys whose factory throws (a pattern in error)
  NoItem        \* null

NoThread == "no thread"

ASSUME CacheAssumption ==
  /\ Sizes \subseteq Nat
  /\ BadKeys \subseteq Keys
  /\ DOMAIN Hash = Keys
  /\ \A k \in Keys : Same(k, k)
  /\ NoItem \notin Keys
  /\ NoThread \notin Threads

VARIABLES
  cache,      \* _cache, from First to Last
  cacheSize,  \* _cacheSize
  head,       \* _head
  lock,       \* the thread inside the setter's locked region
  pc,         \* where each thread is
  key,        \* the argument of each thread's GetOrAdd
  newSize,    \* the argument of each thread's CacheSize setter
  answer      \* what each thread's last GetOrAdd returned: {} when it threw

vars == <<cache, cacheSize, head, lock, pc, key, newSize, answer>>

shared == <<cache, cacheSize, head, lock>>

Goto(t, label) == pc' = [pc EXCEPT ![t] = label]

Return(t, values) ==
  /\ Goto(t, "idle")
  /\ answer' = [answer EXCEPT ![t] = values]

IsKey_HashOnly(item, k) == Hash[item] = Hash[k]                \* mutant

(* The test both lookups make: the hash codes, then the keys. *)
IsKey(item, k) == Hash[item] = Hash[k] /\ Same(item, k)

Init ==
  /\ cache = << >> /\ head = NoItem /\ lock = NoThread
  /\ cacheSize \in Sizes
  /\ pc = [t \in Threads |-> "idle"]
  /\ key \in [Threads -> {NoItem}]
  /\ newSize = [t \in Threads |-> 0]
  /\ answer = [t \in Threads |-> {}]

-----------------------------------------------------------------------------
(* GetOrAdd *)

Begin(t, k) ==
  /\ pc[t] = "idle"
  /\ key' = [key EXCEPT ![t] = k]
  /\ Goto(t, "readHead")
  /\ UNCHANGED <<shared, newSize, answer>>

ReadHead(t) ==
  /\ pc[t] = "readHead"
  /\ IF head # NoItem /\ IsKey(head, key[t])
     THEN Return(t, {head})
     ELSE Goto(t, "readSize") /\ UNCHANGED answer
  /\ UNCHANGED <<shared, key, newSize>>

ReadSize(t) ==
  /\ pc[t] = "readSize"
  /\ Goto(t, IF cacheSize = 0 THEN "makeUncached" ELSE "scan")
  /\ UNCHANGED <<shared, key, newSize, answer>>

(* The cache is disabled: the factory's result or exception is the call's. *)
MakeUncached(t) ==
  /\ pc[t] = "makeUncached"
  /\ Return(t, IF key[t] \in BadKeys THEN {} ELSE {key[t]})
  /\ UNCHANGED <<shared, key, newSize>>

RemoveAt(s, i) == SubSeq(s, 1, i - 1) \o SubSeq(s, i + 1, Len(s))

Hits_FrontOnly(k) ==                                           \* mutant
  {i \in 1..Len(cache) : i = 1 /\ IsKey(cache[i], k)}

Hits(k) == {i \in 1..Len(cache) : IsKey(cache[i], k)}

(* The first locked region: the first node with the key moves to the front *)
(* and becomes the head.                                                   *)
Scan(t) ==
  /\ pc[t] = "scan" /\ lock = NoThread
  /\ \/ /\ Hits(key[t]) = {}
        /\ Goto(t, "make")
        /\ UNCHANGED <<cache, head, answer>>
     \/ \E i \in Hits(key[t]) :
          /\ \A j \in Hits(key[t]) : i <= j
          /\ head' = cache[i]
          /\ cache' = <<cache[i]>> \o RemoveAt(cache, i)
          /\ Return(t, {cache[i]})
  /\ UNCHANGED <<cacheSize, lock, key, newSize>>

Make_IgnoresFailure(t) ==                                      \* mutant
  /\ pc[t] = "make"
  /\ Goto(t, "writeHead")
  /\ UNCHANGED <<shared, key, newSize, answer>>

(* The factory runs without the lock; when it throws, nothing is stored.   *)
Make(t) ==
  /\ pc[t] = "make"
  /\ IF key[t] \in BadKeys
     THEN Return(t, {})
     ELSE Goto(t, "writeHead") /\ UNCHANGED answer
  /\ UNCHANGED <<shared, key, newSize>>

WriteHead(t) ==
  /\ pc[t] = "writeHead"
  /\ head' = key[t]
  /\ Goto(t, "insert")
  /\ UNCHANGED <<cache, cacheSize, lock, key, newSize, answer>>

RemoveLast(s) == SubSeq(s, 1, Len(s) - 1)

AddFirst_Last(item) == Append(cache, item)                     \* mutant

AddFirst(item) == <<item>> \o cache

Evict_TooLate(s) ==                                            \* mutant
  IF Len(s) > cacheSize + 1 THEN RemoveLast(s) ELSE s

Evict(s) == IF Len(s) > cacheSize THEN RemoveLast(s) ELSE s

(* The second locked region. *)
Insert(t) ==
  /\ pc[t] = "insert" /\ lock = NoThread
  /\ cache' = Evict(AddFirst(key[t]))
  /\ Return(t, {key[t]})
  /\ UNCHANGED <<cacheSize, head, lock, key, newSize>>

-----------------------------------------------------------------------------
(* The setter of CacheSize; a negative value throws before it does anything *)
(* and is not modelled.                                                    *)

Trim(t, size) ==
  /\ pc[t] = "idle" /\ lock = NoThread
  /\ lock' = t
  /\ newSize' = [newSize EXCEPT ![t] = size]
  /\ cache' = SubSeq(cache, 1, IF Len(cache) > size THEN size ELSE Len(cache))
  /\ Goto(t, IF size = 0 THEN "clearHead" ELSE "writeSize")
  /\ UNCHANGED <<cacheSize, head, key, answer>>

ClearHead(t) ==
  /\ pc[t] = "clearHead"
  /\ head' = NoItem
  /\ Goto(t, "writeSize")
  /\ UNCHANGED <<cache, cacheSize, lock, key, newSize, answer>>

WriteSize_OffByOne(t) ==                                       \* mutant
  /\ pc[t] = "writeSize"
  /\ cacheSize' = newSize[t] - 1
  /\ lock' = NoThread
  /\ Goto(t, "idle")
  /\ UNCHANGED <<cache, head, key, newSize, answer>>

WriteSize(t) ==
  /\ pc[t] = "writeSize"
  /\ cacheSize' = newSize[t]
  /\ lock' = NoThread
  /\ Goto(t, "idle")
  /\ UNCHANGED <<cache, head, key, newSize, answer>>

Step(t) ==
  \/ \E k \in Keys : Begin(t, k)
  \/ ReadHead(t) \/ ReadSize(t) \/ MakeUncached(t)
  \/ Scan(t) \/ Make(t) \/ WriteHead(t) \/ Insert(t)
  \/ \E size \in Sizes : Trim(t, size)
  \/ ClearHead(t) \/ WriteSize(t)

Next == \E t \in Threads : Step(t)

Spec == Init /\ [][Next]_vars

-----------------------------------------------------------------------------
(* Properties. *)

Labels == {"idle", "readHead", "readSize", "makeUncached", "scan", "make",
           "writeHead", "insert", "clearHead", "writeSize"}

(* Every variable has its type. *)
TypeOK ==
  /\ cache \in Seq(Keys)
  /\ cacheSize \in Nat
  /\ head \in Keys \cup {NoItem}
  /\ lock \in Threads \cup {NoThread}
  /\ pc \in [Threads -> Labels]
  /\ key \in [Threads -> Keys \cup {NoItem}]
  /\ newSize \in [Threads -> Nat]
  /\ answer \in [Threads -> SUBSET Keys]

(* The list never outgrows the size, whatever calls of GetOrAdd and of the *)
(* setter overlap: one RemoveLast for one AddFirst is enough.              *)
CountBounded == lock = NoThread => Len(cache) <= cacheSize

(* A call of GetOrAdd returns an item made for its own key, also when keys *)
(* collide on their hash code and when the head is replaced by another     *)
(* thread between the two reads.                                           *)
AnswersItsKey ==
  \A t \in Threads :
    pc[t] = "idle" => \A item \in answer[t] : Same(item, key[t])

(* A pattern that does not compile is never stored: each use of it fails.  *)
NeverStoresFailures ==
  /\ head \notin BadKeys
  /\ \A i \in 1..Len(cache) : cache[i] \notin BadKeys

(* The nodes of key k, and the threads that missed it and have not stored  *)
(* it yet.                                                                 *)
Copies(k) == {i \in 1..Len(cache) : Same(cache[i], k)}

Making(k) ==
  {t \in Threads : pc[t] \in {"make", "writeHead", "insert"} /\ Same(key[t], k)}

Quiescent == \A t \in Threads : pc[t] = "idle"

(* "Set this to 0 to disable the cache" (PcreRegex.CacheSize): once the    *)
(* size is 0 and no call is in progress, the cache holds nothing it could  *)
(* hand out.                                                               *)
DisabledCacheIsEmpty ==
  cacheSize = 0 /\ Quiescent => cache = << >> /\ head = NoItem
=============================================================================
