---------------------------- MODULE RegexCacheProofs ----------------------------
(***************************************************************************)
(* Proofs about PriorityCache, for every set of threads, of keys and of    *)
(* sizes: its types, the bound on its list, the answers of GetOrAdd and    *)
(* what it never stores. Then about the cache of regexes, for all patterns *)
(* and settings: equal keys are compiled alike, so an answer of the cache  *)
(* is as compiled for its caller. Last, one caller at a time: the list is  *)
(* that of a least-recently-used cache.                                    *)
(***************************************************************************)
EXTENDS SoloCache, SequenceTheorems, FiniteSetTheorems, TLAPS

(* The items the cache may hold. *)
Stored == Keys \ BadKeys

InSetter == {"clearHead", "writeSize"}

(* The lock is held by the thread in the setter. *)
LockInv == \A t \in Threads : pc[t] \in InSetter <=> lock = t

(* While the setter holds the lock the list already fits the new size. *)
CountInv ==
  /\ CountBounded
  /\ \A t \in Threads : pc[t] \in InSetter => Len(cache) <= newSize[t]

(* A thread inside GetOrAdd has a key, which the factory has accepted by   *)
(* the time it is stored.                                                  *)
PendingInv ==
  \A t \in Threads :
    /\ pc[t] \notin InSetter \cup {"idle"} => key[t] \in Keys
    /\ pc[t] \in {"writeHead", "insert"} => key[t] \in Stored

AnswerInv ==
  \A t \in Threads :
    pc[t] \in InSetter \cup {"idle"} =>
      \A item \in answer[t] : key[t] \in Keys /\ Same(item, key[t])

Inv ==
  /\ TypeOK
  /\ cache \in Seq(Stored) /\ head \in Stored \cup {NoItem}
  /\ LockInv /\ CountInv /\ PendingInv /\ AnswerInv

-----------------------------------------------------------------------------
(* Moving a node to the front keeps the items and their number. *)
LEMMA MoveToFront ==
  ASSUME NEW S, NEW s \in Seq(S), NEW i \in 1..Len(s)
  PROVE  /\ <<s[i]>> \o RemoveAt(s, i) \in Seq(S)
         /\ Len(<<s[i]>> \o RemoveAt(s, i)) = Len(s)
<1> DEFINE left == SubSeq(s, 1, i - 1)
           right == SubSeq(s, i + 1, Len(s))
<1>0. /\ Len(s) \in Nat
      /\ \A j \in 1..Len(s) : s[j] \in S
  BY ElementOfSeq, LenProperties
<1>1. left \in Seq(S) /\ Len(left) = i - 1
  <2>1. \A j \in 1..(i - 1) : s[j] \in S
    BY <1>0
  <2> QED BY <1>0, <2>1, SubSeqProperties
<1>2. right \in Seq(S) /\ Len(right) = Len(s) - i
  <2>1. \A j \in (i + 1)..Len(s) : s[j] \in S
    BY <1>0
  <2> QED BY <1>0, <2>1, SubSeqProperties
<1>3. RemoveAt(s, i) \in Seq(S) /\ Len(RemoveAt(s, i)) = Len(s) - 1
  <2>1. left \o right \in Seq(S) /\ Len(left \o right) = Len(left) + Len(right)
    BY <1>1, <1>2, ConcatProperties
  <2>2. RemoveAt(s, i) = left \o right
    BY DEF RemoveAt
  <2>3. RemoveAt(s, i) \in Seq(S)
    BY <2>1, <2>2
  <2>4. Len(RemoveAt(s, i)) = Len(left) + Len(right)
    BY <2>1, <2>2
  <2> HIDE DEF left, right
  <2>5. Len(RemoveAt(s, i)) = Len(s) - 1
    BY <1>0, <1>1, <1>2, <2>4
  <2> QED BY <2>3, <2>5
<1>4. <<s[i]>> \in Seq(S) /\ Len(<<s[i]>>) = 1
  BY <1>0
<1> QED
  BY <1>0, <1>3, <1>4, ConcatProperties

(* What Insert stores: one item more at the front, at most one fewer at    *)
(* the back.                                                               *)
LEMMA AddFirstProperties ==
  ASSUME NEW S, NEW s \in Seq(S), NEW e \in S
  PROVE  /\ <<e>> \o s \in Seq(S)
         /\ Len(<<e>> \o s) = Len(s) + 1
         /\ RemoveLast(<<e>> \o s) \in Seq(S)
         /\ Len(RemoveLast(<<e>> \o s)) = Len(s)
<1>1. <<e>> \in Seq(S) /\ Len(<<e>>) = 1
  OBVIOUS
<1>2. <<e>> \o s \in Seq(S) /\ Len(<<e>> \o s) = Len(s) + 1
  BY <1>1, LenProperties, ConcatProperties
<1>3. /\ Len(s) \in Nat
      /\ \A j \in 1..Len(s) : (<<e>> \o s)[j] \in S
  BY <1>2, LenProperties, ElementOfSeq
<1> QED
  BY <1>2, <1>3, SubSeqProperties DEF RemoveLast

(* What Trim leaves: a prefix no longer than the new size. *)
LEMMA TrimFits ==
  ASSUME NEW S, NEW s \in Seq(S), NEW n \in Nat
  PROVE  LET r == SubSeq(s, 1, IF Len(s) > n THEN n ELSE Len(s)) IN
           r \in Seq(S) /\ Len(r) <= n
<1> DEFINE m == IF Len(s) > n THEN n ELSE Len(s)
<1>1. m \in Nat /\ m <= n /\ \A j \in 1..m : s[j] \in S
  BY LenProperties, ElementOfSeq
<1>2. SubSeq(s, 1, m) \in Seq(S) /\ Len(SubSeq(s, 1, m)) = IF 1 <= m THEN m - 1 + 1 ELSE 0
  BY <1>1, SubSeqProperties
<1> QED
  BY <1>1, <1>2

-----------------------------------------------------------------------------
LEMMA InitInv == Init => Inv
<1> SUFFICES ASSUME Init PROVE Inv
  OBVIOUS
<1> USE CacheAssumption DEF Init
<1>1. TypeOK
  BY DEF TypeOK, Labels
<1>2. cache \in Seq(Stored) /\ head \in Stored \cup {NoItem}
  OBVIOUS
<1>3. LockInv /\ PendingInv /\ AnswerInv
  BY DEF LockInv, PendingInv, AnswerInv, InSetter
<1>4. CountInv
  BY DEF CountInv, CountBounded, InSetter
<1> QED
  BY <1>1, <1>2, <1>3, <1>4 DEF Inv

(* Each action preserves the invariant; the ones that change the list rest *)
(* on the lemmas above.                                                    *)
LEMMA StepInv == Inv /\ [Next]_vars => Inv'
<1> SUFFICES ASSUME Inv, [Next]_vars PROVE Inv'
  OBVIOUS
<1> USE CacheAssumption
<1> USE DEF Inv, TypeOK, Labels, LockInv, PendingInv, AnswerInv, InSetter,
            Stored, shared, Goto, Return
<1>1. ASSUME NEW t \in Threads, NEW k \in Keys, Begin(t, k)
      PROVE  Inv'
  BY <1>1 DEF Begin, CountInv, CountBounded
<1>2. ASSUME NEW t \in Threads, ReadHead(t)
      PROVE  Inv'
  <2>1. CASE head # NoItem /\ IsKey(head, key[t])
    <3>1. Same(head, key[t]) /\ head \in Keys
      BY <2>1 DEF IsKey
    <3>2. pc' = [pc EXCEPT ![t] = "idle"] /\ answer' = [answer EXCEPT ![t] = {head}]
      BY <1>2, <2>1 DEF ReadHead
    <3>3. AnswerInv' /\ TypeOK'
      BY <1>2, <3>1, <3>2 DEF ReadHead
    <3>4. LockInv' /\ PendingInv'
      BY <1>2, <3>2 DEF ReadHead
    <3>5. CountInv'
      BY <1>2, <3>2 DEF ReadHead, CountInv, CountBounded
    <3> QED
      BY <1>2, <3>3, <3>4, <3>5 DEF ReadHead
  <2>2. CASE ~(head # NoItem /\ IsKey(head, key[t]))
    BY <1>2, <2>2 DEF ReadHead, CountInv, CountBounded
  <2> QED
    BY <2>1, <2>2
<1>3. ASSUME NEW t \in Threads, ReadSize(t)
      PROVE  Inv'
  BY <1>3 DEF ReadSize, CountInv, CountBounded
<1>4. ASSUME NEW t \in Threads, MakeUncached(t)
      PROVE  Inv'
  BY <1>4 DEF MakeUncached, CountInv, CountBounded
<1>5. ASSUME NEW t \in Threads, Scan(t)
      PROVE  Inv'
  <2>1. CASE Hits(key[t]) = {}
    BY <1>5, <2>1 DEF Scan, CountInv, CountBounded
  <2>2. ASSUME NEW i \in Hits(key[t]),
               head' = cache[i],
               cache' = <<cache[i]>> \o RemoveAt(cache, i),
               Return(t, {cache[i]})
        PROVE  Inv'
    <3>1. i \in 1..Len(cache) /\ Same(cache[i], key[t])
      BY DEF Hits, IsKey
    <3>2. cache[i] \in Stored
      BY <3>1, ElementOfSeq
    <3>3. cache' \in Seq(Stored) /\ Len(cache') = Len(cache)
      BY <2>2, <3>1, MoveToFront
    <3>4. cache' \in Seq(Keys)
      BY <3>3, SeqMonotonic
    <3>5. CountInv'
      BY <1>5, <2>2, <3>3 DEF Scan, CountInv, CountBounded
    <3> QED
      BY <1>5, <2>2, <3>1, <3>2, <3>3, <3>4, <3>5 DEF Scan
  <2> QED
    BY <1>5, <2>1, <2>2 DEF Scan
<1>6. ASSUME NEW t \in Threads, Make(t)
      PROVE  Inv'
  <2>1. CASE key[t] \in BadKeys
    <3>1. /\ pc' = [pc EXCEPT ![t] = "idle"]
          /\ answer' = [answer EXCEPT ![t] = {}]
          /\ UNCHANGED <<shared, key, newSize>>
      BY <1>6, <2>1 DEF Make
    <3>2. TypeOK'
      BY <3>1
    <3>3. LockInv' /\ AnswerInv' /\ PendingInv'
      BY <1>6, <3>1 DEF Make
    <3>4. CountInv'
      BY <3>1 DEF CountInv, CountBounded
    <3> QED
      BY <3>1, <3>2, <3>3, <3>4
  <2>2. CASE key[t] \notin BadKeys
    <3>1. key[t] \in Stored
      BY <1>6, <2>2 DEF Make
    <3>2. pc' = [pc EXCEPT ![t] = "writeHead"]
      BY <1>6, <2>2 DEF Make
    <3>3. TypeOK' /\ LockInv' /\ AnswerInv'
      BY <1>6, <2>2 DEF Make
    <3>4. PendingInv'
      BY <1>6, <2>2, <3>1, <3>2 DEF Make
    <3>5. CountInv'
      BY <1>6, <2>2 DEF Make, CountInv, CountBounded
    <3> QED
      BY <1>6, <2>2, <3>3, <3>4, <3>5 DEF Make
  <2> QED
    BY <2>1, <2>2
<1>7. ASSUME NEW t \in Threads, WriteHead(t)
      PROVE  Inv'
  <2>1. head' = key[t] /\ key[t] \in Stored
    BY <1>7 DEF WriteHead
  <2>2. TypeOK' /\ LockInv' /\ AnswerInv'
    BY <1>7, <2>1 DEF WriteHead
  <2>3. PendingInv'
    BY <1>7 DEF WriteHead
  <2>4. CountInv'
    BY <1>7 DEF WriteHead, CountInv, CountBounded
  <2>5. cache' \in Seq(Stored) /\ head' \in Stored \cup {NoItem}
    BY <1>7, <2>1 DEF WriteHead
  <2> HIDE DEF TypeOK, LockInv, PendingInv, AnswerInv
  <2> QED
    BY <2>2, <2>3, <2>4, <2>5
<1>8. ASSUME NEW t \in Threads, Insert(t)
      PROVE  Inv'
  <2> DEFINE added == <<key[t]>> \o cache
  <2>1. key[t] \in Stored
    BY <1>8 DEF Insert
  <2>2. /\ added \in Seq(Stored) /\ Len(added) = Len(cache) + 1
        /\ RemoveLast(added) \in Seq(Stored)
        /\ Len(RemoveLast(added)) = Len(cache)
    BY <2>1, AddFirstProperties
  <2>3. cache' = IF Len(added) > cacheSize THEN RemoveLast(added) ELSE added
    BY <1>8 DEF Insert, Evict, AddFirst
  <2>4. cache' \in Seq(Stored) /\ cache' \in Seq(Keys)
    <3>1. cache' \in Seq(Stored)
      <4> HIDE DEF added
      <4> QED BY <2>2, <2>3
    <3>2. Stored \subseteq Keys
      OBVIOUS
    <3> QED BY <3>1, <3>2, SeqMonotonic
  <2>5. CountInv'
    <3>1. Len(cache) \in Nat /\ Len(cache) <= cacheSize
      BY <1>8, LenProperties DEF Insert, CountInv, CountBounded
    <3>2. Len(cache') <= cacheSize
      BY <2>2, <2>3, <3>1
    <3> QED
      BY <1>8, <3>2 DEF Insert, CountInv, CountBounded
  <2> QED
    BY <1>8, <2>1, <2>4, <2>5 DEF Insert
<1>9. ASSUME NEW t \in Threads, NEW size \in Sizes, Trim(t, size)
      PROVE  Inv'
  <2>1. cache' \in Seq(Stored) /\ Len(cache') <= size
    BY <1>9, TrimFits DEF Trim
  <2>2. cache' \in Seq(Keys)
    BY <2>1, SeqMonotonic
  <2>3. CountInv'
    BY <1>9, <2>1 DEF Trim, CountInv, CountBounded
  <2> QED
    BY <1>9, <2>1, <2>2, <2>3 DEF Trim
<1>10. ASSUME NEW t \in Threads, ClearHead(t)
       PROVE  Inv'
  BY <1>10 DEF ClearHead, CountInv, CountBounded
<1>11. ASSUME NEW t \in Threads, WriteSize(t)
       PROVE  Inv'
  BY <1>11 DEF WriteSize, CountInv, CountBounded
<1>12. CASE UNCHANGED vars
  BY <1>12 DEF vars, CountInv, CountBounded
<1> QED
  BY <1>1, <1>2, <1>3, <1>4, <1>5, <1>6, <1>7, <1>8, <1>9, <1>10, <1>11, <1>12
     DEF Next, Step

LEMMA Invariance == Spec => []Inv
<1> QED
  BY InitInv, StepInv, PTL DEF Spec

-----------------------------------------------------------------------------
(* Every variable of the cache has its type. *)
THEOREM CacheTypeOK == Spec => []TypeOK
<1>1. Inv => TypeOK
  BY DEF Inv
<1> QED
  BY <1>1, Invariance, PTL

(* The list never holds more items than CacheSize when the lock is free,   *)
(* for any number of threads inside GetOrAdd and the setter.               *)
THEOREM CacheCountBounded == Spec => []CountBounded
<1>1. Inv => CountBounded
  BY DEF Inv, CountInv
<1> QED
  BY <1>1, Invariance, PTL

(* GetOrAdd never returns the item of another key, whatever keys share a   *)
(* hash code and however the head moves.                                   *)
THEOREM CacheAnswersItsKey == Spec => []AnswersItsKey
<1>1. Inv => AnswersItsKey
  BY DEF Inv, AnswerInv, AnswersItsKey
<1> QED
  BY <1>1, Invariance, PTL

(* A key whose factory throws is never in the list nor at the head.        *)
THEOREM CacheNeverStoresFailures == Spec => []NeverStoresFailures
<1>1. Inv => NeverStoresFailures
  <2> SUFFICES ASSUME Inv PROVE NeverStoresFailures
    OBVIOUS
  <2>1. head \notin BadKeys
    BY CacheAssumption DEF Inv, Stored
  <2>2. \A i \in 1..Len(cache) : cache[i] \in Stored
    BY ElementOfSeq DEF Inv
  <2> QED
    BY <2>1, <2>2 DEF NeverStoresFailures, Stored
<1> QED
  BY <1>1, Invariance, PTL

-----------------------------------------------------------------------------
(* The cache of regexes.                                                   *)

(* A field with a value of the build: two settings with the same getter    *)
(* give the compile context the same value, whether they set it or not.    *)
LEMMA SameGetterSameContext ==
  ASSUME NEW a \in Settings, NEW b \in Settings, NEW f \in BuildFields,
         Getter(a, f) = Getter(b, f)
  PROVE  (IF OrZero(a[f]) # 0 THEN OrZero(a[f]) ELSE Build[f])
           = (IF OrZero(b[f]) # 0 THEN OrZero(b[f]) ELSE Build[f])
<1>1. Build[f] \in Nat \ {0}
  BY BuildAssumption
<1>2. a[f] \in Nullable /\ b[f] \in Nullable
  BY DEF BuildFields, Settings
<1> QED
  BY <1>1, <1>2 DEF Getter, OrZero, Nullable, Null

(* Keys the comparison takes as equal are compiled alike: pcre2_compile    *)
(* and pcre2_jit_compile are given the same pattern, options and context,  *)
(* for all values of all settings.                                         *)
THEOREM EqualKeysCompileAlike ==
  ASSUME NEW k \in RegexKeys, NEW l \in RegexKeys, Equals(k, l)
  PROVE  Compiled(k) = Compiled(l)
<1> DEFINE a == k.settings
           b == l.settings
           i == FillCompileInput(a)
           j == FillCompileInput(b)
<1>1. a \in Settings /\ b \in Settings /\ k.pattern = l.pattern /\ CompareValues(a, b)
  BY DEF RegexKeys, Equals
<1> HIDE DEF a, b
<1>2. /\ i.flags = j.flags /\ i.flags_jit = j.flags_jit
      /\ i.max_pattern_length = j.max_pattern_length
      /\ i.max_pattern_compiled_length = j.max_pattern_compiled_length
      /\ i.max_var_lookbehind = j.max_var_lookbehind
      /\ i.compile_extra_options = j.compile_extra_options
      /\ i.optimization_directives = j.optimization_directives
  BY <1>1 DEF CompareValues, FillCompileInput
<1>3. /\ i.new_line = OrZero(a["newLine"]) /\ j.new_line = OrZero(b["newLine"])
      /\ i.bsr = OrZero(a["backslashR"]) /\ j.bsr = OrZero(b["backslashR"])
      /\ i.parens_nest_limit = OrZero(a["parensLimit"])
      /\ j.parens_nest_limit = OrZero(b["parensLimit"])
  BY <1>1 DEF FillCompileInput, Settings
<1>4. \A f \in BuildFields :
        (IF OrZero(a[f]) # 0 THEN OrZero(a[f]) ELSE Build[f])
          = (IF OrZero(b[f]) # 0 THEN OrZero(b[f]) ELSE Build[f])
  BY <1>1, SameGetterSameContext DEF CompareValues
<1>5. {"newLine", "backslashR", "parensLimit"} \subseteq BuildFields
  BY DEF BuildFields
<1> HIDE DEF i, j
<1>6. CompileContext(i) = CompileContext(j)
  BY <1>2, <1>3, <1>4, <1>5 DEF CompileContext
<1> QED
  BY <1>1, <1>6 DEF Compiled, a, b, i, j

(* Whatever calls overlap, a regex out of the cache is compiled as its     *)
(* caller's pattern and settings ask.                                      *)
THEOREM CacheAnswersAsCompiled == Spec => []AnswersAsCompiled
<1>1. Inv => AnswersAsCompiled
  <2> SUFFICES ASSUME Inv, NEW t \in Threads, pc[t] = "idle", NEW item \in answer[t]
               PROVE  Compiled(item) = Compiled(key[t])
    BY DEF AnswersAsCompiled
  <2>1. Same(item, key[t]) /\ item \in Keys
    BY DEF Inv, AnswerInv, TypeOK, InSetter
  <2>2. key[t] \in Keys
    BY DEF Inv, AnswerInv, InSetter
  <2>3. Equals(item, key[t]) /\ item \in RegexKeys /\ key[t] \in RegexKeys
    BY <2>1, <2>2, RegexCacheAssumption
  <2> QED
    BY <2>3, EqualKeysCompileAlike
<1> QED
  BY <1>1, Invariance, PTL

-----------------------------------------------------------------------------
(* How often a key is stored or about to be. *)

(* The nodes of key k in a list; Copies(k) are those of the cache. *)
CopiesIn(s, k) == {i \in 1..Len(s) : Same(s[i], k)}

LEMMA CopiesFinite ==
  ASSUME NEW s \in Seq(Keys), NEW k
  PROVE  IsFiniteSet(CopiesIn(s, k)) /\ Cardinality(CopiesIn(s, k)) \in Nat
<1>1. IsFiniteSet(1..Len(s)) /\ CopiesIn(s, k) \subseteq 1..Len(s)
  BY FS_Interval, LenProperties DEF CopiesIn
<1> QED
  BY <1>1, FS_Subset, FS_CardinalityType

(* A list whose nodes come each from a node of its own of another list has *)
(* no more copies of a key than that one.                                  *)
LEMMA NoMoreCopies ==
  ASSUME NEW s \in Seq(Keys), NEW r \in Seq(Keys), NEW k,
         NEW f \in [CopiesIn(r, k) -> CopiesIn(s, k)],
         \A i, j \in CopiesIn(r, k) : f[i] = f[j] => i = j
  PROVE  Cardinality(CopiesIn(r, k)) <= Cardinality(CopiesIn(s, k))
<1>1. f \in Injection(CopiesIn(r, k), CopiesIn(s, k))
  BY DEF Injection, IsInjective
<1> QED
  BY <1>1, CopiesFinite, FS_Injection

(* The node that moving node i to the front puts at place j. *)
From(i, j) == IF j = 1 THEN i ELSE IF j <= i THEN j - 1 ELSE j

Moved(s, i) == <<s[i]>> \o RemoveAt(s, i)

LEMMA MoveToFrontItems ==
  ASSUME NEW s \in Seq(Keys), NEW i \in 1..Len(s), NEW j \in 1..Len(s)
  PROVE  From(i, j) \in 1..Len(s) /\ Moved(s, i)[j] = s[From(i, j)]
<1> DEFINE r == <<s[i]>> \o RemoveAt(s, i)
           left == SubSeq(s, 1, i - 1)
           right == SubSeq(s, i + 1, Len(s))
<1>0. Len(s) \in Nat
  BY LenProperties
<1>1. /\ left \in Seq(Keys) /\ Len(left) = i - 1
      /\ \A l \in 1..(i - 1) : left[l] = s[l]
  BY <1>0
<1>2. /\ right \in Seq(Keys) /\ Len(right) = Len(s) - i
      /\ \A l \in (i + 1)..Len(s) : right[l - i] = s[l]
  BY <1>0
<1>3. r = <<s[i]>> \o (left \o right)
  BY DEF RemoveAt
<1>4. s[i] \in Keys
  BY ElementOfSeq
<1> HIDE DEF left, right, r
<1>5. /\ left \o right \in Seq(Keys) /\ Len(left \o right) = Len(s) - 1
      /\ \A l \in 1..(Len(s) - 1) :
           (left \o right)[l] = IF l <= i - 1 THEN left[l] ELSE right[l - (i - 1)]
  BY <1>0, <1>1, <1>2, ConcatProperties
<1>6. r[1] = s[i] /\ \A l \in 2..Len(s) : r[l] = (left \o right)[l - 1]
  BY <1>0, <1>3, <1>4, <1>5
<1>6a. r = Moved(s, i)
  BY DEF r, Moved
<1>7. CASE j = 1
  BY <1>0, <1>6, <1>7, <1>6a DEF From
<1>8. CASE 1 < j /\ j <= i
  <2>1. j - 1 \in 1..(Len(s) - 1) /\ j - 1 <= i - 1 /\ j \in 2..Len(s)
    BY <1>0, <1>8
  <2>2. r[j] = left[j - 1]
    BY <2>1, <1>5, <1>6
  <2>3. j - 1 \in 1..(i - 1) /\ j - 1 \in 1..Len(s)
    BY <1>0, <1>8
  <2>4. left[j - 1] = s[j - 1]
    BY <2>3, <1>1
  <2>5. From(i, j) = j - 1
    BY <1>0, <1>8 DEF From
  <2>6. r[j] = s[From(i, j)]
    BY <2>2, <2>4, <2>5
  <2> QED
    BY <2>3, <2>5, <2>6, <1>6a
<1>9. CASE i < j
  <2>1. j - 1 \in 1..(Len(s) - 1) /\ ~(j - 1 <= i - 1) /\ j \in 2..Len(s)
    BY <1>0, <1>9
  <2>2. r[j] = right[(j - 1) - (i - 1)]
    BY <2>1, <1>5, <1>6
  <2>3. (j - 1) - (i - 1) = j - i
    BY <1>0
  <2>4. right[j - i] = s[j]
    BY <1>0, <1>2, <1>9
  <2>5. From(i, j) = j
    BY <1>0, <1>9 DEF From
  <2>6. r[j] = s[From(i, j)]
    BY <2>2, <2>3, <2>4, <2>5
  <2> QED
    BY <1>0, <2>5, <2>6, <1>6a
<1>10. j = 1 \/ (1 < j /\ j <= i) \/ i < j
  BY <1>0
<1> QED
  BY <1>7, <1>8, <1>9, <1>10, <1>6a

LEMMA FromIsInjective ==
  ASSUME NEW n \in Nat, NEW i \in 1..n, NEW j \in 1..n, NEW k \in 1..n,
         From(i, j) = From(i, k)
  PROVE  j = k
BY DEF From

LEMMA MoveToFrontCopies ==
  ASSUME NEW s \in Seq(Keys), NEW i \in 1..Len(s), NEW k
  PROVE  Cardinality(CopiesIn(<<s[i]>> \o RemoveAt(s, i), k)) <= Cardinality(CopiesIn(s, k))
<1> DEFINE r == <<s[i]>> \o RemoveAt(s, i)
           f == [j \in CopiesIn(r, k) |-> From(i, j)]
<1>1. r \in Seq(Keys) /\ Len(r) = Len(s) /\ Len(s) \in Nat
  BY MoveToFront, LenProperties
<1>1a. r = Moved(s, i)
  BY DEF Moved
<1> HIDE DEF r
<1>2. ASSUME NEW j \in 1..Len(r) PROVE r[j] = s[From(i, j)] /\ From(i, j) \in 1..Len(s)
  BY <1>1a, <1>1, MoveToFrontItems
<1>3. f \in [CopiesIn(r, k) -> CopiesIn(s, k)]
  <2> SUFFICES ASSUME NEW j \in CopiesIn(r, k)
               PROVE  From(i, j) \in CopiesIn(s, k)
    OBVIOUS
  <2>1. j \in 1..Len(r) /\ Same(r[j], k)
    BY DEF CopiesIn
  <2>2. r[j] = s[From(i, j)] /\ From(i, j) \in 1..Len(s)
    BY <2>1, <1>2
  <2> QED
    BY <2>1, <2>2 DEF CopiesIn
<1>4. \A j, l \in CopiesIn(r, k) : f[j] = f[l] => j = l
  <2> SUFFICES ASSUME NEW j \in CopiesIn(r, k), NEW l \in CopiesIn(r, k), f[j] = f[l]
               PROVE  j = l
    OBVIOUS
  <2>1. j \in 1..Len(s) /\ l \in 1..Len(s) /\ From(i, j) = From(i, l)
    BY <1>1 DEF CopiesIn
  <2> QED
    BY <1>1, <2>1, FromIsInjective
<1> HIDE DEF f
<1>5. Cardinality(CopiesIn(r, k)) <= Cardinality(CopiesIn(s, k))
  BY <1>1, <1>3, <1>4, NoMoreCopies
<1> QED
  BY <1>5 DEF r

LEMMA PrefixCopies ==
  ASSUME NEW s \in Seq(Keys), NEW n \in 0..Len(s), NEW k
  PROVE  Cardinality(CopiesIn(SubSeq(s, 1, n), k)) <= Cardinality(CopiesIn(s, k))
<1>1. SubSeq(s, 1, n) \in Seq(Keys)
  BY LenProperties
<1>2. CopiesIn(SubSeq(s, 1, n), k) \subseteq CopiesIn(s, k)
  BY LenProperties DEF CopiesIn
<1> QED
  BY <1>2, CopiesFinite, FS_Subset

LEMMA AddFirstCopies ==
  ASSUME NEW s \in Seq(Keys), NEW e \in Keys, NEW k
  PROVE  /\ Same(e, k) =>
              Cardinality(CopiesIn(<<e>> \o s, k)) <= Cardinality(CopiesIn(s, k)) + 1
         /\ ~Same(e, k) =>
              Cardinality(CopiesIn(<<e>> \o s, k)) <= Cardinality(CopiesIn(s, k))
<1> DEFINE r == <<e>> \o s
           rest == CopiesIn(r, k) \ {1}
           f == [j \in rest |-> j - 1]
<1>1. r \in Seq(Keys) /\ Len(r) = Len(s) + 1 /\ Len(s) \in Nat
  BY AddFirstProperties, LenProperties
<1>2. r[1] = e /\ \A j \in 2..Len(r) : r[j] = s[j - 1]
  BY <1>1
<1>3. f \in Injection(rest, CopiesIn(s, k))
  <2>1. f \in [rest -> CopiesIn(s, k)]
    BY <1>1, <1>2 DEF CopiesIn
  <2>2. \A i, j \in rest : f[i] = f[j] => i = j
    BY <1>1 DEF CopiesIn
  <2> QED
    BY <2>1, <2>2 DEF Injection, IsInjective
<1> HIDE DEF f
<1>4. IsFiniteSet(rest) /\ Cardinality(rest) <= Cardinality(CopiesIn(s, k))
  BY <1>3, CopiesFinite, FS_Injection
<1>5. /\ Cardinality(CopiesIn(s, k)) \in Nat /\ Cardinality(CopiesIn(r, k)) \in Nat
      /\ IsFiniteSet(CopiesIn(r, k))
  BY <1>1, CopiesFinite
<1>6. 1 \in CopiesIn(r, k) <=> Same(e, k)
  BY <1>1, <1>2 DEF CopiesIn
<1>7. Cardinality(rest) = IF 1 \in CopiesIn(r, k) THEN Cardinality(CopiesIn(r, k)) - 1
                                                  ELSE Cardinality(CopiesIn(r, k))
  BY <1>5, FS_RemoveElement
<1> HIDE DEF r, rest
<1>8. /\ Same(e, k) => Cardinality(CopiesIn(r, k)) <= Cardinality(CopiesIn(s, k)) + 1
      /\ ~Same(e, k) => Cardinality(CopiesIn(r, k)) <= Cardinality(CopiesIn(s, k))
  BY <1>4, <1>5, <1>6, <1>7
<1> QED
  BY <1>8 DEF r

(* A key that a scan does not hit is not stored, nor is one equal to it.   *)
LEMMA MissedIsNotStored ==
  ASSUME NEW l \in Keys, NEW k \in Keys, cache \in Seq(Keys), Same(l, k), Hits(l) = {}
  PROVE  Copies(k) = {}
<1> SUFFICES ASSUME NEW i \in Copies(k) PROVE FALSE
  OBVIOUS
<1>1. i \in 1..Len(cache) /\ cache[i] \in Keys /\ Same(cache[i], k)
  BY ElementOfSeq DEF Copies
<1>2. Equals(cache[i], k) /\ Equals(l, k)
  BY <1>1, RegexCacheAssumption
<1>3. Equals(cache[i], l)
  BY <1>2 DEF Equals, CompareValues
<1>4. Same(cache[i], l) /\ Hash[cache[i]] = Hash[l]
  BY <1>1, <1>3, RegexCacheAssumption DEF Equals, GetHashCode
<1> QED
  BY <1>1, <1>4 DEF Hits, IsKey

LEMMA DuplicatesStep ==
  ASSUME IsFiniteSet(Threads), Inv, DuplicatesBounded, Inv', [Next]_vars
  PROVE  DuplicatesBounded'
<1> SUFFICES ASSUME NEW k \in Keys
             PROVE  Cardinality(Copies(k)') + Cardinality(Making(k)') <= Cardinality(Threads)
  BY DEF DuplicatesBounded
<1>1. cache \in Seq(Keys) /\ cache' \in Seq(Keys) /\ TypeOK
  BY DEF Inv, TypeOK
<1>2. Copies(k) = CopiesIn(cache, k) /\ Copies(k)' = CopiesIn(cache', k)
  BY DEF Copies, CopiesIn
<1>3. Cardinality(Copies(k)) \in Nat /\ Cardinality(Copies(k)') \in Nat
  BY <1>1, <1>2, CopiesFinite
<1>4. /\ IsFiniteSet(Making(k)) /\ Cardinality(Making(k)) \in Nat
      /\ IsFiniteSet(Making(k)') /\ Cardinality(Making(k)') <= Cardinality(Threads)
      /\ Cardinality(Making(k)') \in Nat /\ Cardinality(Threads) \in Nat
  <2>1. Making(k) \subseteq Threads /\ Making(k)' \subseteq Threads
    BY DEF Making
  <2> QED
    BY <2>1, FS_Subset, FS_CardinalityType
<1>5. Cardinality(Copies(k)) + Cardinality(Making(k)) <= Cardinality(Threads)
  BY DEF DuplicatesBounded
<1>6. ASSUME Cardinality(Copies(k)') <= Cardinality(Copies(k)),
             Making(k)' \subseteq Making(k)
      PROVE  Cardinality(Copies(k)') + Cardinality(Making(k)') <= Cardinality(Threads)
  <2>1. Cardinality(Making(k)') <= Cardinality(Making(k))
    BY <1>4, <1>6, FS_Subset
  <2> QED
    BY <2>1, <1>3, <1>4, <1>5, <1>6
<1>7. ASSUME UNCHANGED cache
      PROVE  Cardinality(Copies(k)') <= Cardinality(Copies(k))
  BY <1>2, <1>3, <1>7
<1>8. CASE UNCHANGED vars
  BY <1>6, <1>7, <1>8 DEF vars, shared, Making
<1>9. ASSUME NEW t \in Threads,
             \/ \E l \in Keys : Begin(t, l)
             \/ ReadHead(t) \/ ReadSize(t) \/ MakeUncached(t)
             \/ Make(t) \/ WriteHead(t) \/ ClearHead(t) \/ WriteSize(t)
      PROVE  Cardinality(Copies(k)') + Cardinality(Making(k)') <= Cardinality(Threads)
  <2>1. UNCHANGED cache
    BY <1>9 DEF Begin, ReadHead, ReadSize, MakeUncached, Make, WriteHead, ClearHead,
                WriteSize, shared
  <2>2. Making(k)' \subseteq Making(k)
    BY <1>1, <1>9 DEF Begin, ReadHead, ReadSize, MakeUncached, Make, WriteHead, ClearHead,
                      WriteSize, Goto, Return, Making, TypeOK
  <2> QED
    BY <2>1, <2>2, <1>6, <1>7
<1>10. ASSUME NEW t \in Threads, Scan(t)
       PROVE  Cardinality(Copies(k)') + Cardinality(Making(k)') <= Cardinality(Threads)
  <2>1. key[t] \in Keys
    BY <1>10 DEF Scan, Inv, PendingInv, InSetter
  <2>2. CASE Hits(key[t]) = {} /\ UNCHANGED cache /\ Goto(t, "make") /\ UNCHANGED key
    <3>1. CASE Same(key[t], k)
      <4>1. Copies(k) = {}
        BY <2>1, <2>2, <3>1, <1>1, MissedIsNotStored
      <4>2. Cardinality(Copies(k)') = 0
        BY <4>1, <2>2, <1>2, FS_EmptySet
      <4> QED
        BY <4>2, <1>4
    <3>2. CASE ~Same(key[t], k)
      <4>1. Making(k)' \subseteq Making(k)
        BY <1>1, <2>2, <3>2 DEF Goto, Making, TypeOK
      <4> QED
        BY <4>1, <2>2, <1>6, <1>7
    <3> QED
      BY <3>1, <3>2
  <2>3. ASSUME NEW i \in Hits(key[t]),
               cache' = <<cache[i]>> \o RemoveAt(cache, i), Goto(t, "idle"), UNCHANGED key
        PROVE  Cardinality(Copies(k)') + Cardinality(Making(k)') <= Cardinality(Threads)
    <3>1. Cardinality(Copies(k)') <= Cardinality(Copies(k))
      BY <2>3, <1>1, <1>2, MoveToFrontCopies DEF Hits
    <3>2. Making(k)' \subseteq Making(k)
      BY <1>1, <2>3 DEF Goto, Making, TypeOK
    <3> QED
      BY <3>1, <3>2, <1>6
  <2> QED
    BY <1>10, <2>2, <2>3 DEF Scan, Return
<1>11. ASSUME NEW t \in Threads, Insert(t)
       PROVE  Cardinality(Copies(k)') + Cardinality(Making(k)') <= Cardinality(Threads)
  <2> DEFINE r == AddFirst(key[t])
  <2>1. key[t] \in Keys /\ cache' = Evict(r) /\ pc[t] = "insert"
    BY <1>11 DEF Insert, Inv, PendingInv, InSetter
  <2>2. r = <<key[t]>> \o cache /\ r \in Seq(Keys) /\ Len(r) = Len(cache) + 1
    BY <1>1, <2>1, AddFirstProperties DEF AddFirst
  <2> HIDE DEF r
  <2>3. Cardinality(CopiesIn(r, k)) \in Nat
    BY <2>2, CopiesFinite
  <2>4. Cardinality(Copies(k)') <= Cardinality(CopiesIn(r, k))
    <3>1. Len(r) - 1 \in 0..Len(r)
      BY <1>1, <2>2, LenProperties
    <3>2. Cardinality(CopiesIn(SubSeq(r, 1, Len(r) - 1), k)) <= Cardinality(CopiesIn(r, k))
      BY <2>2, <3>1, PrefixCopies
    <3> QED
      BY <2>1, <2>3, <3>2, <1>2 DEF Evict, RemoveLast
  <2>5. Making(k)' \subseteq Making(k) \ {t}
    BY <1>1, <1>11 DEF Insert, Return, Goto, Making, TypeOK
  <2>6. CASE Same(key[t], k)
    <3>1. Cardinality(CopiesIn(r, k)) <= Cardinality(Copies(k)) + 1
      BY <2>1, <2>2, <2>6, <1>1, <1>2, AddFirstCopies
    <3>2. t \in Making(k)
      BY <2>1, <2>6 DEF Making
    <3>3. Cardinality(Making(k)') <= Cardinality(Making(k)) - 1
      <4>1. IsFiniteSet(Making(k) \ {t})
            /\ Cardinality(Making(k) \ {t}) = Cardinality(Making(k)) - 1
        BY <3>2, <1>4, FS_RemoveElement
      <4> QED
        BY <4>1, <2>5, FS_Subset
    <3> QED
      BY <3>1, <3>3, <2>3, <2>4, <1>3, <1>4, <1>5
  <2>7. CASE ~Same(key[t], k)
    <3>1. Cardinality(CopiesIn(r, k)) <= Cardinality(Copies(k))
      BY <2>1, <2>2, <2>7, <1>1, <1>2, AddFirstCopies
    <3> QED
      BY <3>1, <2>3, <2>4, <2>5, <1>3, <1>6
  <2> QED
    BY <2>6, <2>7
<1>12. ASSUME NEW t \in Threads, NEW size \in Sizes, Trim(t, size)
       PROVE  Cardinality(Copies(k)') + Cardinality(Making(k)') <= Cardinality(Threads)
  <2> DEFINE n == IF Len(cache) > size THEN size ELSE Len(cache)
  <2>1. n \in 0..Len(cache) /\ cache' = SubSeq(cache, 1, n)
    BY <1>1, <1>12, LenProperties, CacheAssumption DEF Trim
  <2> HIDE DEF n
  <2>2. Cardinality(Copies(k)') <= Cardinality(Copies(k))
    BY <2>1, <1>1, <1>2, PrefixCopies
  <2>3. Making(k)' \subseteq Making(k)
    BY <1>1, <1>12 DEF Trim, Goto, Making, TypeOK
  <2> QED
    BY <2>2, <2>3, <1>6
<1> QED
  BY <1>8, <1>9, <1>10, <1>11, <1>12 DEF Next, Step

(* Threads that miss a key together may all store it, but however their    *)
(* calls and the setter overlap, a key is never stored more often than     *)
(* there are threads.                                                      *)
THEOREM CacheDuplicatesBounded ==
  ASSUME IsFiniteSet(Threads)
  PROVE  Spec => []DuplicatesBounded
<1>1. Init => DuplicatesBounded
  <2> SUFFICES ASSUME Init, NEW k \in Keys
               PROVE  Cardinality(Copies(k)) + Cardinality(Making(k)) <= Cardinality(Threads)
    BY DEF DuplicatesBounded
  <2>1. Copies(k) = {} /\ Making(k) = {}
    BY DEF Init, Copies, Making
  <2> QED
    BY <2>1, FS_EmptySet, FS_CardinalityType
<1>2. Inv /\ Inv' /\ DuplicatesBounded /\ [Next]_vars => DuplicatesBounded'
  BY DuplicatesStep
<1> QED
  BY <1>1, <1>2, Invariance, PTL DEF Spec

-----------------------------------------------------------------------------
(* One caller at a time.                                                   *)

LEMMA SameIsEquality ==
  ASSUME NEW k \in Keys, NEW l \in Keys
  PROVE  /\ Same(k, k) /\ (Same(k, l) => Same(l, k))
         /\ \A m \in Keys : Same(k, l) /\ Same(l, m) => Same(k, m)
         /\ IsKey(k, l) <=> Same(k, l)
<1>1. \A a, b \in Keys : Same(a, b) <=> Equals(a, b)
  BY RegexCacheAssumption
<1>2. Equals(k, k) /\ (Equals(k, l) => Equals(l, k))
  BY DEF Equals, CompareValues
<1>3. \A m \in Keys : Equals(k, l) /\ Equals(l, m) => Equals(k, m)
  BY DEF Equals, CompareValues
<1>4. Equals(k, l) => Hash[k] = Hash[l]
  BY RegexCacheAssumption DEF Equals, GetHashCode
<1> QED
  BY <1>1, <1>2, <1>3, <1>4 DEF IsKey

LEMMA CanonicalKey ==
  ASSUME NEW k \in Keys
  PROVE  /\ Canonical(k) \in Keys /\ Same(Canonical(k), k)
         /\ \A l \in Keys : Canonical(k) = Canonical(l) <=> Same(k, l)
<1>1. ASSUME NEW l \in Keys
      PROVE  Canonical(l) \in Keys /\ Same(Canonical(l), l)
  <2>1. l \in EqualKeys(l)
    BY SameIsEquality DEF EqualKeys
  <2>2. Canonical(l) \in EqualKeys(l)
    BY <2>1 DEF Canonical
  <2> QED
    BY <2>2 DEF EqualKeys
<1>2. ASSUME NEW l \in Keys, Same(k, l)
      PROVE  Canonical(k) = Canonical(l)
  <2>1. EqualKeys(k) = EqualKeys(l)
    BY <1>2, SameIsEquality DEF EqualKeys
  <2> QED
    BY <2>1 DEF Canonical
<1>3. ASSUME NEW l \in Keys, Canonical(k) = Canonical(l)
      PROVE  Same(k, l)
  <2>1. Same(Canonical(k), k) /\ Same(Canonical(k), l) /\ Canonical(k) \in Keys
    BY <1>1, <1>3
  <2> QED
    BY <2>1, SameIsEquality
<1> QED
  BY <1>1, <1>2, <1>3

LEMMA CanonicalList ==
  ASSUME NEW s \in Seq(Keys)
  PROVE  /\ CanonicalKeys(s) \in Seq(Keys) /\ Len(CanonicalKeys(s)) = Len(s)
         /\ \A i \in 1..Len(s) : CanonicalKeys(s)[i] = Canonical(s[i])
<1>1. Len(s) \in Nat /\ \A i \in 1..Len(s) : Canonical(s[i]) \in Keys
  BY LenProperties, ElementOfSeq, CanonicalKey
<1>2. CanonicalKeys(s) \in [1..Len(s) -> Keys]
  BY <1>1 DEF CanonicalKeys
<1>3. CanonicalKeys(s) \in Seq(Keys)
  BY <1>1, <1>2, SeqDef
<1>4. DOMAIN CanonicalKeys(s) = 1..Len(s)
  BY DEF CanonicalKeys
<1>5. Len(CanonicalKeys(s)) = Len(s)
  <2>1. /\ Len(CanonicalKeys(s)) \in Nat
        /\ DOMAIN CanonicalKeys(s) = 1..Len(CanonicalKeys(s))
    BY <1>3, LenProperties
  <2> HIDE DEF CanonicalKeys
  <2> QED
    BY <1>1, <1>4, <2>1
<1> QED
  BY <1>3, <1>5 DEF CanonicalKeys

Distinct(s) == \A i, j \in 1..Len(s) : Same(s[i], s[j]) => i = j

LEMMA MoveToFrontIsDistinct ==
  ASSUME NEW s \in Seq(Keys), NEW i \in 1..Len(s), Distinct(s)
  PROVE  Distinct(<<s[i]>> \o RemoveAt(s, i))
<1> DEFINE r == <<s[i]>> \o RemoveAt(s, i)
<1>1. Len(r) = Len(s) /\ Len(s) \in Nat
  BY MoveToFront, LenProperties
<1>1a. r = Moved(s, i)
  BY DEF Moved
<1> HIDE DEF r
<1>2. \A j \in 1..Len(s) : From(i, j) \in 1..Len(s) /\ r[j] = s[From(i, j)]
  BY <1>1a, MoveToFrontItems
<1>3. Distinct(r)
  <2> SUFFICES ASSUME NEW j \in 1..Len(s), NEW k \in 1..Len(s), Same(r[j], r[k])
               PROVE  j = k
    BY <1>1 DEF Distinct
  <2>1. From(i, j) = From(i, k)
    BY <1>2 DEF Distinct
  <2> QED
    BY <1>1, <2>1, FromIsInjective
<1> QED
  BY <1>3 DEF r

(* A prefix, as the setter and the eviction leave it.                      *)
Trimmed(s, n) == SubSeq(s, 1, IF Len(s) > n THEN n ELSE Len(s))

LEMMA TrimmedIsPrefix ==
  ASSUME NEW s \in Seq(Keys), NEW n \in Nat
  PROVE  /\ Trimmed(s, n) \in Seq(Keys) /\ Len(Trimmed(s, n)) <= n
         /\ CanonicalKeys(Trimmed(s, n)) = LRU!Prefix(CanonicalKeys(s), n)
         /\ Distinct(s) => Distinct(Trimmed(s, n))
         /\ Len(s) > 0 /\ n > 0 => Trimmed(s, n) # << >> /\ Trimmed(s, n)[1] = s[1]
<1> DEFINE m == IF Len(s) > n THEN n ELSE Len(s)
           p == SubSeq(s, 1, m)
           c == CanonicalKeys(s)
<1>1. Len(s) \in Nat /\ m \in Nat /\ m <= n /\ m <= Len(s)
  BY LenProperties
<1>2. m = IF n < Len(s) THEN n ELSE Len(s)
  BY <1>1
<1>0. Len(s) > 0 /\ n > 0 => m > 0
  BY <1>1
<1> HIDE DEF m
<1>3. \A j \in 1..m : s[j] \in Keys
  BY <1>1, ElementOfSeq
<1>4. p \in Seq(Keys) /\ Len(p) = m /\ \A j \in 1..m : p[j] = s[j]
  BY <1>1, <1>3, SubSeqProperties
<1>5. c \in Seq(Keys) /\ Len(c) = Len(s) /\ \A j \in 1..Len(s) : c[j] = Canonical(s[j])
  BY CanonicalList
<1> HIDE DEF c, p
<1>6. \A j \in 1..m : c[j] \in Keys
  BY <1>1, <1>5, ElementOfSeq
<1>7. /\ SubSeq(c, 1, m) \in Seq(Keys) /\ Len(SubSeq(c, 1, m)) = m
      /\ \A j \in 1..m : SubSeq(c, 1, m)[j] = c[j]
  BY <1>1, <1>6, SubSeqProperties
<1>8. /\ CanonicalKeys(p) \in Seq(Keys) /\ Len(CanonicalKeys(p)) = m
      /\ \A j \in 1..m : CanonicalKeys(p)[j] = Canonical(s[j])
  BY <1>4, CanonicalList
<1>9. \A j \in 1..m : CanonicalKeys(p)[j] = SubSeq(c, 1, m)[j]
  BY <1>1, <1>5, <1>7, <1>8
<1>10. CanonicalKeys(p) = SubSeq(c, 1, m)
  BY <1>7, <1>8, <1>9, SeqEqual
<1>11. SubSeq(c, 1, m) = LRU!Prefix(c, n)
  BY <1>2, <1>5 DEF LRU!Prefix
<1>12. Distinct(s) => Distinct(p)
  BY <1>1, <1>4 DEF Distinct
<1>13. Len(s) > 0 /\ n > 0 => p # << >> /\ p[1] = s[1]
  <2> SUFFICES ASSUME Len(s) > 0, n > 0
               PROVE  p # << >> /\ p[1] = s[1]
    OBVIOUS
  <2>1. 1 \in 1..m /\ m # 0
    BY <1>0, <1>1
  <2>2. p # << >>
    BY <2>1, <1>4, EmptySeq
  <2> QED
    BY <2>1, <2>2, <1>4
<1>14. p = Trimmed(s, n)
  BY DEF p, m, Trimmed
<1>15. Len(p) <= n
  BY <1>1, <1>4
<1>16. CanonicalKeys(p) = LRU!Prefix(CanonicalKeys(s), n)
  BY <1>10, <1>11 DEF c
<1> QED
  BY <1>4, <1>12, <1>13, <1>14, <1>15, <1>16

(* A list that fits is its own prefix.                                     *)
LEMMA PrefixOfAll ==
  ASSUME NEW s \in Seq(Keys), NEW n \in Nat, Len(s) <= n
  PROVE  LRU!Prefix(s, n) = s
<1>1. Len(s) \in Nat
  BY LenProperties
<1>2. (IF n < Len(s) THEN n ELSE Len(s)) = Len(s)
  BY <1>1
<1>3. LRU!Prefix(s, n) = SubSeq(s, 1, Len(s))
  BY <1>2 DEF LRU!Prefix
<1> QED
  BY <1>3, SubSeqFull

(* A hit: the key is at place i.                                           *)
LEMMA HitIsUse ==
  ASSUME NEW s \in Seq(Keys), NEW k \in Keys, NEW n \in Nat, Len(s) <= n,
         NEW i \in 1..Len(s), Same(s[i], k), Distinct(s)
  PROVE  CanonicalKeys(<<s[i]>> \o RemoveAt(s, i))
           = LRU!Prefix(<<Canonical(k)>> \o LRU!Without(CanonicalKeys(s), Canonical(k)), n)
<1> DEFINE c == CanonicalKeys(s)
           r == <<s[i]>> \o RemoveAt(s, i)
           u == <<c[i]>> \o RemoveAt(c, i)
<1>1. c \in Seq(Keys) /\ Len(c) = Len(s) /\ \A j \in 1..Len(s) : c[j] = Canonical(s[j])
  BY CanonicalList
<1>2. \A j \in 1..Len(s) : s[j] \in Keys
  BY ElementOfSeq
<1>3. c[i] = Canonical(k)
  BY <1>1, <1>2, CanonicalKey
<1>4. \A j \in 1..Len(s) : c[j] = Canonical(k) => j = i
  <2> SUFFICES ASSUME NEW j \in 1..Len(s), c[j] = Canonical(k)
               PROVE  j = i
    OBVIOUS
  <2>1. Canonical(s[j]) = Canonical(s[i])
    BY <1>1, <1>3
  <2>2. Same(s[j], s[i])
    BY <1>2, <2>1, CanonicalKey
  <2> QED
    BY <2>2 DEF Distinct
<1>5. r \in Seq(Keys) /\ Len(r) = Len(s)
  BY MoveToFront
<1>6. u \in Seq(Keys) /\ Len(u) = Len(s)
  BY <1>1, MoveToFront
<1>6a. r = Moved(s, i) /\ u = Moved(c, i)
  BY DEF Moved
<1> HIDE DEF c, r, u
<1>7. \A j \in 1..Len(s) : From(i, j) \in 1..Len(s) /\ r[j] = s[From(i, j)]
  BY <1>6a, MoveToFrontItems
<1>8. \A j \in 1..Len(s) : u[j] = c[From(i, j)]
  <2> SUFFICES ASSUME NEW j \in 1..Len(s)
               PROVE  u[j] = c[From(i, j)]
    OBVIOUS
  <2>1. c \in Seq(Keys) /\ i \in 1..Len(c) /\ j \in 1..Len(c)
    BY <1>1
  <2> QED
    BY <2>1, <1>6a, MoveToFrontItems
<1>9. CanonicalKeys(r) \in Seq(Keys) /\ Len(CanonicalKeys(r)) = Len(s)
      /\ \A j \in 1..Len(s) : CanonicalKeys(r)[j] = Canonical(r[j])
  BY <1>5, CanonicalList
<1>10. \A j \in 1..Len(s) : CanonicalKeys(r)[j] = u[j]
  BY <1>1, <1>7, <1>8, <1>9
<1>11. CanonicalKeys(r) = u
  BY <1>6, <1>9, <1>10, SeqEqual
<1>12. LRU!Without(c, Canonical(k)) = RemoveAt(c, i)
  <2>1. (CHOOSE j \in 1..Len(c) : c[j] = Canonical(k)) = i
    BY <1>1, <1>3, <1>4
  <2>2. \E j \in 1..Len(c) : c[j] = Canonical(k)
    BY <1>1, <1>3
  <2> QED
    BY <2>1, <2>2 DEF LRU!Without, RemoveAt
<1>13. u = <<Canonical(k)>> \o LRU!Without(c, Canonical(k))
  BY <1>3, <1>12 DEF u
<1>14. LRU!Prefix(u, n) = u
  BY <1>6, PrefixOfAll
<1> QED
  BY <1>11, <1>13, <1>14 DEF c, r

(* The key is at the front already.                                        *)
LEMMA FrontIsUse ==
  ASSUME NEW s \in Seq(Keys), NEW k \in Keys, NEW n \in Nat, Len(s) <= n,
         Len(s) > 0, Same(s[1], k), Distinct(s)
  PROVE  CanonicalKeys(s)
           = LRU!Prefix(<<Canonical(k)>> \o LRU!Without(CanonicalKeys(s), Canonical(k)), n)
<1> DEFINE r == <<s[1]>> \o RemoveAt(s, 1)
<1>1. 1 \in 1..Len(s) /\ Len(s) \in Nat
  BY LenProperties
<1>2. r \in Seq(Keys) /\ Len(r) = Len(s)
  BY <1>1, MoveToFront
<1>2a. r = Moved(s, 1)
  BY DEF Moved
<1> HIDE DEF r
<1>3. \A j \in 1..Len(s) : r[j] = s[j]
  <2> SUFFICES ASSUME NEW j \in 1..Len(s)
               PROVE  r[j] = s[j]
    OBVIOUS
  <2>1. From(1, j) = j
    BY <1>1 DEF From
  <2>2. r[j] = s[From(1, j)]
    BY <1>2a, <1>1, MoveToFrontItems
  <2> QED
    BY <2>1, <2>2
<1>4. r = s
  BY <1>2, <1>3, SeqEqual
<1> QED
  BY <1>1, <1>4, HitIsUse DEF r

(* A miss: the key is added and the last one may be evicted.               *)
Evicted(r, n) == IF Len(r) > n THEN RemoveLast(r) ELSE r

LEMMA MissIsUse ==
  ASSUME NEW s \in Seq(Keys), NEW k \in Keys, NEW n \in Nat, Len(s) <= n, n > 0,
         \A i \in 1..Len(s) : ~Same(s[i], k), Distinct(s)
  PROVE  /\ CanonicalKeys(Evicted(<<k>> \o s, n))
              = LRU!Prefix(<<Canonical(k)>> \o LRU!Without(CanonicalKeys(s), Canonical(k)), n)
         /\ Distinct(Evicted(<<k>> \o s, n))
         /\ Evicted(<<k>> \o s, n) # << >> /\ Evicted(<<k>> \o s, n)[1] = k
<1> DEFINE c == CanonicalKeys(s)
           r == <<k>> \o s
           u == <<Canonical(k)>> \o c
           e == Evicted(r, n)
<1>1. Len(s) \in Nat /\ \A i \in 1..Len(s) : s[i] \in Keys
  BY LenProperties, ElementOfSeq
<1>2. c \in Seq(Keys) /\ Len(c) = Len(s) /\ \A j \in 1..Len(s) : c[j] = Canonical(s[j])
  BY CanonicalList
<1>3. LRU!Without(c, Canonical(k)) = c
  <2>1. \A j \in 1..Len(c) : c[j] # Canonical(k)
    BY <1>1, <1>2, CanonicalKey
  <2> HIDE DEF c
  <2> QED
    BY <2>1 DEF LRU!Without
<1>4. /\ r \in Seq(Keys) /\ Len(r) = Len(s) + 1 /\ r[1] = k
      /\ \A j \in 2..Len(r) : r[j] = s[j - 1]
  <2>1. r \in Seq(Keys) /\ Len(r) = Len(s) + 1
    BY AddFirstProperties
  <2> QED
    BY <1>1, <2>1
<1>5. Canonical(k) \in Keys
  BY CanonicalKey
<1>6. /\ u \in Seq(Keys) /\ Len(u) = Len(s) + 1 /\ u[1] = Canonical(k)
      /\ \A j \in 2..Len(u) : u[j] = c[j - 1]
  <2> HIDE DEF c
  <2>1. u \in Seq(Keys) /\ Len(u) = Len(s) + 1
    BY <1>2, <1>5, AddFirstProperties
  <2> QED
    BY <1>1, <1>2, <1>5, <2>1
<1> HIDE DEF c, r, u
<1>7. CanonicalKeys(r) = u
  <2>1. CanonicalKeys(r) \in Seq(Keys) /\ Len(CanonicalKeys(r)) = Len(s) + 1
        /\ \A j \in 1..Len(r) : CanonicalKeys(r)[j] = Canonical(r[j])
    BY <1>4, CanonicalList
  <2>2. ASSUME NEW j \in 1..(Len(s) + 1)
        PROVE  CanonicalKeys(r)[j] = u[j]
    <3>1. CASE j = 1
      BY <1>1, <1>4, <1>6, <2>1, <3>1
    <3>2. CASE j # 1
      <4>1. j \in 2..(Len(s) + 1) /\ j - 1 \in 1..Len(s) /\ j \in 1..Len(r)
        BY <1>1, <1>4, <3>2
      <4>2. r[j] = s[j - 1] /\ u[j] = c[j - 1] /\ c[j - 1] = Canonical(s[j - 1])
        BY <1>2, <1>4, <1>6, <4>1
      <4> QED
        BY <2>1, <4>1, <4>2
    <3> QED
      BY <3>1, <3>2
  <2> QED
    BY <1>6, <2>1, <2>2, SeqEqual
<1>8. Distinct(r)
  <2> SUFFICES ASSUME NEW i \in 1..Len(r), NEW j \in 1..Len(r), Same(r[i], r[j])
               PROVE  i = j
    BY DEF Distinct
  <2>1. r[i] \in Keys /\ r[j] \in Keys
    BY <1>4, ElementOfSeq
  <2>2. ASSUME NEW l \in 2..Len(r)
        PROVE  r[l] = s[l - 1] /\ l - 1 \in 1..Len(s)
    BY <1>1, <1>4
  <2>3. CASE i = 1 /\ j # 1
    <3>1. j \in 2..Len(r)
      BY <1>1, <1>4, <2>3
    <3>2. Same(s[j - 1], k) /\ j - 1 \in 1..Len(s)
      BY <1>4, <2>1, <2>2, <2>3, <3>1, SameIsEquality
    <3> QED
      BY <3>2
  <2>4. CASE i # 1 /\ j = 1
    <3>1. i \in 2..Len(r)
      BY <1>1, <1>4, <2>4
    <3>2. Same(s[i - 1], k) /\ i - 1 \in 1..Len(s)
      BY <1>4, <2>2, <2>4, <3>1
    <3> QED
      BY <3>2
  <2>5. CASE i # 1 /\ j # 1
    <3>1. i \in 2..Len(r) /\ j \in 2..Len(r)
      BY <1>1, <1>4, <2>5
    <3>2. Same(s[i - 1], s[j - 1]) /\ i - 1 \in 1..Len(s) /\ j - 1 \in 1..Len(s)
      BY <2>2, <3>1
    <3>3. i - 1 = j - 1
      BY <3>2 DEF Distinct
    <3> QED
      BY <1>1, <1>4, <3>3
  <2> QED
    BY <2>3, <2>4, <2>5
<1>9. e = Trimmed(r, n)
  <2>1. CASE Len(r) > n
    <3>1. Len(r) - 1 = n
      BY <1>1, <1>4, <2>1
    <3>2. e = SubSeq(r, 1, n)
      BY <2>1, <3>1 DEF Evicted, RemoveLast
    <3> QED
      BY <2>1, <3>2 DEF Trimmed
  <2>2. CASE ~(Len(r) > n)
    <3>1. SubSeq(r, 1, Len(r)) = r
      BY <1>4, SubSeqFull
    <3> QED
      BY <2>2, <3>1 DEF Evicted, Trimmed
  <2> QED
    BY <2>1, <2>2
<1> HIDE DEF e
<1>10. Len(r) > 0
  BY <1>1, <1>4
<1>11. CanonicalKeys(e) = LRU!Prefix(u, n) /\ Distinct(e) /\ e # << >> /\ e[1] = k
  BY <1>4, <1>7, <1>8, <1>9, <1>10, TrimmedIsPrefix
<1>12. u = <<Canonical(k)>> \o LRU!Without(c, Canonical(k))
  BY <1>3 DEF u
<1> QED
  BY <1>11, <1>12 DEF c, r, e

(* The caller has missed the key it is about to store, and the cache was   *)
(* not disabled.                                                           *)
AbsentInv ==
  /\ pc[t1] \in {"scan", "make", "writeHead", "insert"} => cacheSize # 0
  /\ pc[t1] = "makeUncached" => cacheSize = 0
  /\ pc[t1] \in {"make", "writeHead", "insert"} =>
       \A i \in 1..Len(cache) : ~Same(cache[i], key[t1])

(* The shortcut is the front of the list, but while it is replaced.        *)
HeadInv ==
  /\ pc[t1] \notin {"insert", "clearHead"} =>
       head = NoItem \/ (cache # << >> /\ head = cache[1])
  /\ pc[t1] = "insert" => head = key[t1]
  /\ pc[t1] = "clearHead" => cache = << >>

Alone ==
  /\ \A t \in Threads : t # t1 => pc[t] = "idle"
  /\ Distinct(cache)
  /\ AbsentInv
  /\ HeadInv

SoloInv == solo \in BOOLEAN /\ (solo => Alone)

LEMMA AloneHoldsNoLock ==
  ASSUME Inv, Alone
  PROVE  /\ lock \in {t1, NoThread} /\ t1 # NoThread
         /\ lock = t1 <=> pc[t1] \in InSetter
         /\ pc[t1] \notin InSetter => Len(cache) <= cacheSize
<1>1. t1 \in Threads /\ t1 # NoThread /\ lock \in Threads \cup {NoThread}
  BY SoloAssumption, CacheAssumption DEF Inv, TypeOK
<1>2. \A t \in Threads : lock = t => t = t1
  BY DEF Inv, LockInv, Alone, InSetter
<1>3. lock = t1 <=> pc[t1] \in InSetter
  BY <1>1 DEF Inv, LockInv
<1> QED
  BY <1>1, <1>2, <1>3 DEF Inv, CountInv, CountBounded

LEMMA ScanMiss ==
  ASSUME NEW k \in Keys, cache \in Seq(Keys), Hits(k) = {}
  PROVE  \A i \in 1..Len(cache) : ~Same(cache[i], k)
<1> SUFFICES ASSUME NEW i \in 1..Len(cache), Same(cache[i], k)
             PROVE  FALSE
  OBVIOUS
<1>1. IsKey(cache[i], k)
  BY ElementOfSeq, SameIsEquality
<1> QED
  BY <1>1 DEF Hits

(* The steps that leave the list alone. *)
Quiet ==
  \/ \E k \in Keys : Begin(t1, k)
  \/ ReadHead(t1) \/ ReadSize(t1) \/ MakeUncached(t1)
  \/ Make(t1) \/ WriteHead(t1) \/ ClearHead(t1) \/ WriteSize(t1)

LEMMA AloneStep ==
  ASSUME Inv, Inv', Alone, Step(t1)
  PROVE  Alone'
<1>1. /\ t1 \in Threads /\ pc \in [Threads -> Labels] /\ key \in [Threads -> Keys \cup {NoItem}]
      /\ cache \in Seq(Keys) /\ cache' \in Seq(Keys) /\ cacheSize \in Nat
      /\ newSize \in [Threads -> Nat] /\ Len(cache) \in Nat
  BY SoloAssumption, LenProperties DEF Inv, TypeOK
<1>2. \A t \in Threads : t # t1 => pc'[t] = "idle"
  BY <1>1 DEF Alone, Step, Begin, ReadHead, ReadSize, MakeUncached, Scan, Make, WriteHead,
              Insert, Trim, ClearHead, WriteSize, Goto, Return
<1>3. CASE Quiet
  <2>1. UNCHANGED cache
    BY <1>3 DEF Quiet, Begin, ReadHead, ReadSize, MakeUncached, Make, WriteHead, ClearHead,
                WriteSize, shared
  <2>2. Distinct(cache)'
    BY <2>1 DEF Alone
  <2>3. AbsentInv'
    BY <1>1, <1>3 DEF Alone, AbsentInv, Quiet, Begin, ReadHead, ReadSize, MakeUncached, Make,
                      WriteHead, ClearHead, WriteSize, Goto, Return, shared
  <2>4. HeadInv'
    BY <1>1, <1>3 DEF Alone, HeadInv, Quiet, Begin, ReadHead, ReadSize, MakeUncached, Make,
                      WriteHead, ClearHead, WriteSize, Goto, Return, shared
  <2> QED
    BY <1>2, <2>2, <2>3, <2>4 DEF Alone
<1>4. CASE Scan(t1)
  <2>1. pc[t1] = "scan" /\ key[t1] \in Keys /\ UNCHANGED <<cacheSize, key>> /\ cacheSize # 0
    BY <1>1, <1>4 DEF Scan, Alone, AbsentInv, Inv, PendingInv, InSetter
  <2>2. CASE Hits(key[t1]) = {} /\ Goto(t1, "make") /\ UNCHANGED <<cache, head>>
    <3>1. pc'[t1] = "make"
      BY <1>1, <2>2 DEF Goto
    <3>2. \A i \in 1..Len(cache) : ~Same(cache[i], key[t1])
      BY <1>1, <2>1, <2>2, ScanMiss
    <3>3. AbsentInv'
      BY <2>1, <2>2, <3>1, <3>2 DEF AbsentInv
    <3>4. HeadInv'
      BY <2>1, <2>2, <3>1 DEF Alone, HeadInv
    <3>5. Distinct(cache)'
      BY <2>2 DEF Alone
    <3> QED
      BY <1>2, <3>3, <3>4, <3>5 DEF Alone
  <2>3. ASSUME NEW i \in Hits(key[t1]), head' = cache[i], Goto(t1, "idle"),
               cache' = <<cache[i]>> \o RemoveAt(cache, i)
        PROVE  Alone'
    <3>1. pc'[t1] = "idle" /\ i \in 1..Len(cache)
      BY <1>1, <2>3 DEF Goto, Hits
    <3>2. Distinct(cache)'
      BY <1>1, <2>3, <3>1, MoveToFrontIsDistinct DEF Alone
    <3>3. cache' # << >> /\ cache'[1] = cache[i]
      <4>1. Moved(cache, i)[1] = cache[From(i, 1)] /\ From(i, 1) = i
        BY <1>1, <3>1, MoveToFrontItems DEF From
      <4>2. cache' = Moved(cache, i)
        BY <2>3 DEF Moved
      <4>3. Len(cache') = Len(cache)
        BY <1>1, <2>3, <3>1, MoveToFront
      <4>4. Len(cache') # 0
        BY <1>1, <3>1, <4>3
      <4>5. cache' # << >>
        BY <1>1, <4>4, EmptySeq
      <4> QED
        BY <4>1, <4>2, <4>5
    <3>4. AbsentInv'
      BY <3>1 DEF AbsentInv
    <3>5. HeadInv'
      BY <2>3, <3>1, <3>3 DEF HeadInv
    <3> QED
      BY <1>2, <3>2, <3>4, <3>5 DEF Alone
  <2> QED
    BY <1>4, <2>2, <2>3 DEF Scan, Return
<1>5. CASE Insert(t1)
  <2>1. /\ key[t1] \in Keys /\ cache' = Evicted(<<key[t1]>> \o cache, cacheSize)
        /\ pc'[t1] = "idle" /\ head' = head /\ pc[t1] = "insert" /\ lock = NoThread
    BY <1>1, <1>5 DEF Insert, Inv, PendingInv, InSetter, Evict, AddFirst, Evicted, Return, Goto
  <2>2. head = key[t1] /\ cacheSize # 0 /\ Distinct(cache)
        /\ \A i \in 1..Len(cache) : ~Same(cache[i], key[t1])
    BY <2>1 DEF Alone, HeadInv, AbsentInv
  <2>3. cacheSize > 0 /\ Len(cache) <= cacheSize
    <3>1. CountBounded
      BY DEF Inv, CountInv
    <3> QED
      BY <3>1, <1>1, <2>1, <2>2 DEF CountBounded
  <2>4. Distinct(cache') /\ cache' # << >> /\ cache'[1] = key[t1]
    <3> DEFINE e == Evicted(<<key[t1]>> \o cache, cacheSize)
    <3>1. Distinct(e) /\ e # << >> /\ e[1] = key[t1]
      <4>1. key[t1] \in Keys /\ cacheSize \in Nat
        BY <1>1, <2>1
      <4> QED
        BY <4>1, <1>1, <2>2, <2>3, MissIsUse
    <3>2. cache' = e
      BY <2>1
    <3> HIDE DEF e
    <3> QED
      BY <3>1, <3>2
  <2>5. AbsentInv'
    BY <2>1 DEF AbsentInv
  <2>6. HeadInv'
    BY <2>1, <2>2, <2>4 DEF HeadInv
  <2>7. Distinct(cache)'
    BY <2>4
  <2> QED
    BY <1>2, <2>5, <2>6, <2>7 DEF Alone
<1>6. ASSUME NEW size \in Sizes, Trim(t1, size)
      PROVE  Alone'
  <2>1. size \in Nat
    BY CacheAssumption
  <2>2. /\ cache' = Trimmed(cache, size) /\ UNCHANGED head /\ pc[t1] = "idle"
        /\ pc'[t1] = IF size = 0 THEN "clearHead" ELSE "writeSize"
    BY <1>1, <1>6 DEF Trim, Trimmed, Goto
  <2>3. /\ Len(cache') <= size /\ Distinct(cache')
        /\ Len(cache) > 0 /\ size > 0 => cache' # << >> /\ cache'[1] = cache[1]
    BY <1>1, <2>1, <2>2, TrimmedIsPrefix DEF Alone
  <2>4. AbsentInv'
    BY <2>2 DEF AbsentInv
  <2>5. HeadInv'
    <3>1. CASE size = 0
      <4>1. Len(cache') = 0
        BY <1>1, <2>3, <3>1, LenProperties
      <4>2. cache' = << >>
        BY <1>1, <4>1, EmptySeq
      <4> QED
        BY <2>2, <3>1, <4>2 DEF HeadInv
    <3>2. CASE size # 0
      <4>1. head = NoItem \/ (cache # << >> /\ head = cache[1])
        BY <2>2 DEF Alone, HeadInv
      <4>2. cache # << >> => Len(cache) > 0
        BY <1>1, EmptySeq
      <4>3. size > 0
        BY <2>1, <3>2
      <4>4. head' = NoItem \/ (cache' # << >> /\ head' = cache'[1])
        BY <2>2, <2>3, <4>1, <4>2, <4>3
      <4> QED
        BY <2>2, <3>2, <4>4 DEF HeadInv
    <3> QED
      BY <3>1, <3>2
  <2>6. Distinct(cache)'
    BY <2>3
  <2> QED
    BY <1>2, <2>4, <2>5, <2>6 DEF Alone
<1> QED
  BY <1>3, <1>4, <1>5, <1>6 DEF Step, Quiet

-----------------------------------------------------------------------------
(* Every step is one of the least-recently-used cache, or a stutter.       *)

Capacity == IF lock = NoThread THEN cacheSize ELSE newSize[lock]

Used == {Canonical(k) : k \in answer[t1]}

LEMMA StepIsUse ==
  ASSUME solo, solo', NEW k \in Keys, Used' = {k}, Capacity' = Capacity,
         CanonicalKeys(cache)'
           = LRU!Prefix(<<k>> \o LRU!Without(CanonicalKeys(cache), k), Capacity)
  PROVE  LRU!LruNext
<1>1. LRU!Use(k)
  BY DEF LRU!Use, Capacity, Used
<1> QED
  BY <1>1 DEF LRU!LruNext

LEMMA StepIsFailedUse ==
  ASSUME solo, solo', Used' = {}, Capacity' = Capacity, UNCHANGED cache
  PROVE  LRU!LruNext
<1>1. CanonicalKeys(cache)' = CanonicalKeys(cache)
  BY DEF CanonicalKeys
<1>2. LRU!FailedUse
  BY <1>1 DEF LRU!FailedUse, Capacity, Used
<1> QED
  BY <1>2 DEF LRU!LruNext

LEMMA StepIsResize ==
  ASSUME solo, solo', NEW n \in Sizes, Used' = Used, Capacity' = n,
         CanonicalKeys(cache)' = LRU!Prefix(CanonicalKeys(cache), n)
  PROVE  LRU!LruNext
<1>1. LRU!Resize(n)
  BY DEF LRU!Resize, Capacity, Used
<1> QED
  BY <1>1 DEF LRU!LruNext

LEMMA StepIsStutter ==
  ASSUME solo, solo', Used' = Used, Capacity' = Capacity, UNCHANGED cache
  PROVE  UNCHANGED LRU!lruVars
<1>1. CanonicalKeys(cache)' = CanonicalKeys(cache)
  BY DEF CanonicalKeys
<1> QED
  BY <1>1 DEF LRU!lruVars, Capacity, Used

(* An answer hands out the key of the call, whatever its fields.           *)
LEMMA UsedKey ==
  ASSUME NEW k \in Keys, NEW item \in Keys, Same(item, k), answer' = [answer EXCEPT ![t1] = {item}],
         answer \in [Threads -> SUBSET Keys]
  PROVE  Used' = {Canonical(k)}
<1>1. answer'[t1] = {item}
  BY SoloAssumption
<1>2. Canonical(item) = Canonical(k)
  BY CanonicalKey
<1>3. Used' = {Canonical(l) : l \in answer'[t1]}
  BY DEF Used
<1> QED
  BY <1>1, <1>2, <1>3

LEMMA UncachedIsUse ==
  ASSUME NEW s \in Seq(Keys), NEW k \in Keys, Len(s) = 0
  PROVE  CanonicalKeys(s)
           = LRU!Prefix(<<Canonical(k)>> \o LRU!Without(CanonicalKeys(s), Canonical(k)), 0)
<1> DEFINE c == CanonicalKeys(s)
           u == <<Canonical(k)>> \o c
<1>1. c \in Seq(Keys) /\ Len(c) = 0 /\ Canonical(k) \in Keys
  BY CanonicalList, CanonicalKey
<1> HIDE DEF c
<1>2. LRU!Without(c, Canonical(k)) = c
  BY <1>1 DEF LRU!Without
<1>3. u \in Seq(Keys) /\ Len(u) = 1
  BY <1>1, AddFirstProperties
<1> HIDE DEF u
<1>4. LRU!Prefix(u, 0) = SubSeq(u, 1, 0)
  BY <1>3 DEF LRU!Prefix
<1>5. SubSeq(u, 1, 0) = << >> /\ c = << >>
  BY <1>1, <1>3, EmptySeq
<1>6. LRU!Prefix(u, 0) = c
  BY <1>4, <1>5
<1> QED
  BY <1>2, <1>6 DEF c, u

LEMMA AloneRefines ==
  ASSUME Inv, Inv', Alone, solo, solo', Step(t1)
  PROVE  LRU!LruNext \/ UNCHANGED LRU!lruVars
<1>1. /\ t1 \in Threads /\ pc \in [Threads -> Labels] /\ key \in [Threads -> Keys \cup {NoItem}]
      /\ cache \in Seq(Keys) /\ cacheSize \in Nat /\ answer \in [Threads -> SUBSET Keys]
      /\ newSize \in [Threads -> Nat] /\ Len(cache) \in Nat
  BY SoloAssumption, LenProperties DEF Inv, TypeOK
<1>2. /\ pc[t1] \notin InSetter =>
           lock = NoThread /\ Capacity = cacheSize /\ Len(cache) <= cacheSize
      /\ pc[t1] \in InSetter => lock = t1 /\ Capacity = newSize[t1]
  BY AloneHoldsNoLock DEF Capacity
<1>3. ASSUME pc[t1] \notin InSetter, UNCHANGED <<lock, cacheSize>>
      PROVE  Capacity' = Capacity
  BY <1>2, <1>3 DEF Capacity
<1>4. ASSUME UNCHANGED answer
      PROVE  Used' = Used
  BY <1>4 DEF Used
<1>5. pc[t1] \notin InSetter \cup {"idle"} => key[t1] \in Keys
  BY <1>1 DEF Inv, PendingInv
<1>6. ASSUME NEW k \in Keys, Begin(t1, k)
      PROVE  UNCHANGED LRU!lruVars
  <2>1. pc[t1] \notin InSetter /\ UNCHANGED <<lock, cacheSize, cache, answer>>
    BY <1>6 DEF Begin, shared, InSetter
  <2> QED
    BY <2>1, <1>3, <1>4, StepIsStutter
<1>7. CASE ReadHead(t1)
  <2>1. pc[t1] = "readHead" /\ key[t1] \in Keys /\ UNCHANGED <<lock, cacheSize, cache, head>>
        /\ pc[t1] \notin InSetter
    BY <1>5, <1>7 DEF ReadHead, shared, InSetter
  <2>2. Capacity' = Capacity
    BY <1>3, <2>1
  <2>3. CASE UNCHANGED answer
    BY <2>1, <2>2, <2>3, <1>4, StepIsStutter
  <2>4. CASE head # NoItem /\ IsKey(head, key[t1]) /\ Return(t1, {head})
    <3>1. cache # << >> /\ head = cache[1]
      BY <2>1, <2>4 DEF Alone, HeadInv
    <3>2. Len(cache) > 0
      BY <1>1, <3>1, EmptySeq
    <3>3. head \in Keys /\ Same(head, key[t1])
      BY <2>4 DEF Inv, TypeOK, IsKey
    <3>4. Used' = {Canonical(key[t1])}
      BY <1>1, <2>1, <2>4, <3>3, UsedKey DEF Return
    <3>5. CanonicalKeys(cache)
            = LRU!Prefix(<<Canonical(key[t1])>>
                           \o LRU!Without(CanonicalKeys(cache), Canonical(key[t1])), Capacity)
      BY <1>1, <1>2, <2>1, <3>1, <3>2, <3>3, FrontIsUse DEF Alone
    <3>6. CanonicalKeys(cache)' = CanonicalKeys(cache)
      BY <2>1 DEF CanonicalKeys
    <3>7. Canonical(key[t1]) \in Keys
      BY <2>1, CanonicalKey
    <3> QED
      BY <2>2, <3>4, <3>5, <3>6, <3>7, StepIsUse
  <2> QED
    BY <1>7, <2>3, <2>4 DEF ReadHead
<1>8. CASE ReadSize(t1) \/ WriteHead(t1)
  <2>1. pc[t1] \notin InSetter /\ UNCHANGED <<lock, cacheSize, cache, answer>>
    BY <1>8 DEF ReadSize, WriteHead, shared, InSetter
  <2> QED
    BY <2>1, <1>3, <1>4, StepIsStutter
<1>9. CASE MakeUncached(t1)
  <2>1. pc[t1] = "makeUncached" /\ key[t1] \in Keys /\ UNCHANGED <<lock, cacheSize, cache>>
        /\ pc[t1] \notin InSetter
    BY <1>5, <1>9 DEF MakeUncached, shared, InSetter
  <2>2. Capacity' = Capacity
    BY <1>3, <2>1
  <2>3. CASE Return(t1, {})
    <3>1. Used' = {}
      BY <1>1, <2>3 DEF Used, Return
    <3> QED
      BY <2>1, <2>2, <3>1, StepIsFailedUse
  <2>4. CASE Return(t1, {key[t1]})
    <3>1. Capacity = 0 /\ Len(cache) = 0
      BY <1>1, <1>2, <2>1 DEF Alone, AbsentInv
    <3>2. Used' = {Canonical(key[t1])}
      BY <1>1, <2>1, <2>4, SameIsEquality, UsedKey DEF Return
    <3>3. CanonicalKeys(cache)
            = LRU!Prefix(<<Canonical(key[t1])>>
                           \o LRU!Without(CanonicalKeys(cache), Canonical(key[t1])), Capacity)
      BY <1>1, <2>1, <3>1, UncachedIsUse
    <3>4. CanonicalKeys(cache)' = CanonicalKeys(cache)
      BY <2>1 DEF CanonicalKeys
    <3>5. Canonical(key[t1]) \in Keys
      BY <2>1, CanonicalKey
    <3> QED
      BY <2>2, <3>2, <3>3, <3>4, <3>5, StepIsUse
  <2> QED
    BY <1>9, <2>3, <2>4 DEF MakeUncached
<1>10. CASE Scan(t1)
  <2>1. pc[t1] = "scan" /\ key[t1] \in Keys /\ UNCHANGED <<lock, cacheSize>>
        /\ pc[t1] \notin InSetter
    BY <1>5, <1>10 DEF Scan, InSetter
  <2>2. Capacity' = Capacity
    BY <1>3, <2>1
  <2>3. CASE UNCHANGED <<cache, answer>>
    BY <2>2, <2>3, <1>4, StepIsStutter
  <2>4. ASSUME NEW i \in Hits(key[t1]), Return(t1, {cache[i]}),
               cache' = <<cache[i]>> \o RemoveAt(cache, i)
        PROVE  LRU!LruNext
    <3>1. i \in 1..Len(cache) /\ Same(cache[i], key[t1])
      BY <2>4 DEF Hits, IsKey
    <3>2. cache[i] \in Keys
      BY <1>1, <3>1, ElementOfSeq
    <3>3. Used' = {Canonical(key[t1])}
      BY <1>1, <2>1, <2>4, <3>1, <3>2, UsedKey DEF Return
    <3>4. CanonicalKeys(<<cache[i]>> \o RemoveAt(cache, i))
            = LRU!Prefix(<<Canonical(key[t1])>>
                           \o LRU!Without(CanonicalKeys(cache), Canonical(key[t1])), Capacity)
      BY <1>1, <1>2, <2>1, <3>1, HitIsUse DEF Alone
    <3>5. CanonicalKeys(cache)' = CanonicalKeys(<<cache[i]>> \o RemoveAt(cache, i))
      BY <2>4 DEF CanonicalKeys
    <3>6. Canonical(key[t1]) \in Keys
      BY <2>1, CanonicalKey
    <3> QED
      BY <2>2, <3>3, <3>4, <3>5, <3>6, StepIsUse
  <2> QED
    BY <1>10, <2>3, <2>4 DEF Scan
<1>11. CASE Make(t1)
  <2>1. UNCHANGED <<lock, cacheSize, cache>> /\ pc[t1] \notin InSetter
    BY <1>11 DEF Make, shared, InSetter
  <2>2. Capacity' = Capacity
    BY <1>3, <2>1
  <2>3. CASE Return(t1, {})
    <3>1. Used' = {}
      BY <1>1, <2>3 DEF Used, Return
    <3> QED
      BY <2>1, <2>2, <3>1, StepIsFailedUse
  <2>4. CASE UNCHANGED answer
    BY <2>1, <2>2, <2>4, <1>4, StepIsStutter
  <2> QED
    BY <1>11, <2>3, <2>4 DEF Make
<1>12. CASE Insert(t1)
  <2>1. /\ key[t1] \in Keys /\ cache' = Evicted(<<key[t1]>> \o cache, cacheSize)
        /\ Return(t1, {key[t1]}) /\ pc[t1] = "insert" /\ pc[t1] \notin InSetter
        /\ UNCHANGED <<lock, cacheSize>>
    BY <1>5, <1>12 DEF Insert, InSetter, Evict, AddFirst, Evicted
  <2>2. Capacity' = Capacity
    BY <1>3, <2>1
  <2>3. cacheSize # 0 /\ Distinct(cache) /\ \A i \in 1..Len(cache) : ~Same(cache[i], key[t1])
    BY <2>1 DEF Alone, AbsentInv
  <2>4. cacheSize > 0
    BY <1>1, <2>3
  <2>5. Used' = {Canonical(key[t1])}
    BY <1>1, <2>1, SameIsEquality, UsedKey DEF Return
  <2>6. CanonicalKeys(Evicted(<<key[t1]>> \o cache, cacheSize))
          = LRU!Prefix(<<Canonical(key[t1])>>
                         \o LRU!Without(CanonicalKeys(cache), Canonical(key[t1])), Capacity)
    BY <1>1, <1>2, <2>1, <2>3, <2>4, MissIsUse
  <2>7. CanonicalKeys(cache)' = CanonicalKeys(Evicted(<<key[t1]>> \o cache, cacheSize))
    BY <2>1 DEF CanonicalKeys
  <2>8. Canonical(key[t1]) \in Keys
    BY <2>1, CanonicalKey
  <2> QED
    BY <2>2, <2>5, <2>6, <2>7, <2>8, StepIsUse
<1>13. ASSUME NEW size \in Sizes, Trim(t1, size)
       PROVE  LRU!LruNext
  <2>1. cache' = Trimmed(cache, size) /\ UNCHANGED answer /\ size \in Nat
    BY <1>13, CacheAssumption DEF Trim, Trimmed
  <2>2. lock' = t1 /\ newSize'[t1] = size /\ t1 # NoThread
    BY <1>1, <1>13, AloneHoldsNoLock DEF Trim
  <2>3. Capacity' = size
    BY <2>2 DEF Capacity
  <2>4. CanonicalKeys(Trimmed(cache, size)) = LRU!Prefix(CanonicalKeys(cache), size)
    BY <1>1, <2>1, TrimmedIsPrefix
  <2>5. CanonicalKeys(cache)' = CanonicalKeys(Trimmed(cache, size))
    BY <2>1 DEF CanonicalKeys
  <2> QED
    BY <1>4, <2>1, <2>3, <2>4, <2>5, StepIsResize
<1>14. CASE ClearHead(t1)
  <2>1. UNCHANGED <<lock, cacheSize, newSize, cache, answer>>
    BY <1>14 DEF ClearHead
  <2>2. Capacity' = Capacity
    BY <2>1 DEF Capacity
  <2> QED
    BY <2>1, <2>2, <1>4, StepIsStutter
<1>15. CASE WriteSize(t1)
  <2>1. /\ pc[t1] \in InSetter /\ UNCHANGED <<cache, answer>>
        /\ lock' = NoThread /\ cacheSize' = newSize[t1]
    BY <1>15 DEF WriteSize, InSetter
  <2>2. Capacity' = Capacity
    BY <1>2, <2>1 DEF Capacity
  <2> QED
    BY <2>1, <2>2, <1>4, StepIsStutter
<1> QED
  BY <1>6, <1>7, <1>8, <1>9, <1>10, <1>11, <1>12, <1>13, <1>14, <1>15 DEF Step

LEMMA SoloStart ==
  ASSUME SoloInit
  PROVE  Inv /\ SoloInv /\ LRU!LruInit
<1>1. Inv
  BY InitInv DEF SoloInit
<1>2. /\ Init /\ solo \in BOOLEAN /\ cache = << >> /\ head = NoItem /\ lock = NoThread
      /\ cacheSize \in Sizes /\ pc = [t \in Threads |-> "idle"] /\ answer[t1] = {}
  BY SoloAssumption DEF SoloInit, Init
<1>3. Alone
  BY <1>2, SoloAssumption DEF Alone, Distinct, AbsentInv, HeadInv
<1>4. CanonicalKeys(cache) = << >>
  <2>1. CanonicalKeys(cache) \in Seq(Keys) /\ Len(CanonicalKeys(cache)) = 0
    BY <1>1, <1>2, CanonicalList DEF Inv, TypeOK
  <2> QED
    BY <2>1, EmptySeq
<1>5. (CHOOSE n \in Sizes : TRUE) \in Sizes
  BY <1>2
<1>6. LRU!LruInit
  BY <1>2, <1>4, <1>5 DEF LRU!LruInit
<1> QED
  BY <1>1, <1>2, <1>3, <1>6 DEF SoloInv

LEMMA SoloStep ==
  ASSUME Inv, Inv', SoloInv, [SoloNext]_<<vars, solo>>
  PROVE  SoloInv' /\ [LRU!LruNext]_(LRU!lruVars)
<1>1. solo \in BOOLEAN /\ UNCHANGED solo
  BY DEF SoloInv, SoloNext
<1>2. CASE ~solo
  BY <1>1, <1>2 DEF SoloInv, LRU!lruVars
<1>3. CASE solo /\ UNCHANGED vars
  <2>1. UNCHANGED <<cache, cacheSize, head, lock, pc, key, newSize, answer>>
    BY <1>3 DEF vars
  <2>2. SoloInv'
    BY <1>1, <2>1 DEF SoloInv, Alone, Distinct, AbsentInv, HeadInv
  <2>3. Used' = Used /\ Capacity' = Capacity
    BY <2>1 DEF Used, Capacity
  <2> QED
    BY <1>1, <1>3, <2>1, <2>2, <2>3, StepIsStutter
<1>4. CASE solo /\ Step(t1)
  <2>1. Alone /\ solo'
    BY <1>1, <1>4 DEF SoloInv
  <2>2. Alone'
    BY <1>4, <2>1, AloneStep
  <2>3. LRU!LruNext \/ UNCHANGED LRU!lruVars
    BY <1>4, <2>1, AloneRefines
  <2> QED
    BY <1>1, <2>2, <2>3 DEF SoloInv
<1> QED
  BY <1>1, <1>2, <1>3, <1>4 DEF SoloNext

LEMMA SoloInvariance == SoloSpec => [](Inv /\ SoloInv)
<1>1. [SoloNext]_<<vars, solo>> => [Next]_vars
  BY DEF SoloNext, Next
<1> QED
  BY <1>1, SoloStart, StepInv, SoloStep, PTL DEF SoloSpec

(* A cache that one caller uses at a time answers as a least-recently-used *)
(* one, evicts what that evicts, and forgets what it forgets when it is    *)
(* resized or disabled: the shortcut through the head, the size read       *)
(* without the lock and the two regions of a miss make no difference.      *)
THEOREM SoloCacheIsLru == SoloSpec => BehavesAsLru
BY SoloStart, SoloStep, SoloInvariance, PTL DEF SoloSpec, BehavesAsLru, LRU!LruSpec

(* A disabled cache holds nothing when one caller uses it at a time: it    *)
(* takes two for an item to stay behind.                                   *)
THEOREM SoloCacheIsDisabled == SoloSpec => [](solo => DisabledCacheIsEmpty)
<1>1. ASSUME Inv, SoloInv, solo, cacheSize = 0, Quiescent
      PROVE  cache = << >> /\ head = NoItem
  <2>1. Alone /\ pc[t1] = "idle" /\ cache \in Seq(Keys)
    BY <1>1, SoloAssumption DEF SoloInv, Quiescent, Inv, TypeOK
  <2>2. Len(cache) <= cacheSize
    BY <1>1, <2>1, AloneHoldsNoLock DEF InSetter
  <2>3. cache = << >>
    BY <1>1, <2>1, <2>2, EmptySeq
  <2> QED
    BY <2>1, <2>3 DEF Alone, HeadInv
<1>2. Inv /\ SoloInv => (solo => DisabledCacheIsEmpty)
  BY <1>1 DEF DisabledCacheIsEmpty
<1> QED
  BY <1>2, SoloInvariance, PTL
=============================================================================
