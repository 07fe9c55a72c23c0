# PCRE.NET in TLA+

PCRE.NET is a .NET wrapper around the PCRE2 regular expression library. A thin
C layer (`PCRE.NET.Native`) exposes compile, match, substitute, convert and
information functions with one flat structure per call; a managed layer
(`PCRE.NET`) owns the native memory, keeps the caches, turns callouts into
delegates and iterates over matches. PCRE2 itself is vendored.

This directory models the parts of both layers whose correctness depends on
order, on retries, on shared state or on arithmetic at a boundary. TLC checks
them on small instances and TLAPS proves part of them for all.

Paths below are relative to `src/src/`.

## Inventory

Each component with its state, its operations, what it interacts with, what is
hard about it and what makes it correct.

### Substitution driver
`PCRE.NET.Native/pcrenet_substitute.c`, `InternalRegex16Bit.Substitute` and the
substitute handlers of `CalloutInterop`; the engine is
`PCRE/src/pcre2_substitute.c`.

- *State, for one call*: the output buffer (the caller's stack buffer or a heap
  block) with its length, `output_length`, the number of passes, two replay
  queues of callout answers, the exception a handler has caught.
- *Operations*: `Substitute`; the match, substitution and case callouts.
- *Interaction*: native code calls back into the user's delegates, several
  times per pass; an exception cannot cross native frames, so it is stored and
  turned into Abort.
- *Hard*: the output may overflow at any point of a pass and the whole pass is
  run again, but user code must not be; the needed size is estimated without
  running callouts; every allocation may fail.
- *Correct when*: callouts run once and in order, the result is a function of
  their answers, two passes suffice, memory is freed once, exceptions surface.

### Priority cache
`Internal/PriorityCache.cs`; `Internal/Caches.cs` makes one for compiled
patterns and one for parsed replacement strings.

- *State*: a linked list, a head item, a size; shared by all threads.
- *Operations*: `GetOrAdd`, the setter of `CacheSize`.
- *Interaction*: calls the key comparer and the value factory, which may throw.
- *Hard*: the head and the size are read without the lock and the head is
  written without it; the factory runs between two critical sections.
- *Correct when*: a call answers with its own key's value, the list never
  exceeds the size, failures are not stored, one caller sees an LRU cache.

### Match iteration
`PcreRegex.Match.cs`, `PcreRefMatch.cs`, `PcreMatchBuffer.cs`, and their
consumers `PcreRegex.Replace.cs` and `PcreRegex.Split.cs`.

- *State*: the current match and its output vector, the state of the
  enumerator; for the consumers a position and a count.
- *Operations*: `Matches` (three implementations), `MoveNext`, `Replace`,
  `Split`.
- *Interaction*: each step is one `pcre2_match`, which may throw (a limit, a
  callout) and leave the enumerator for the caller to use again.
- *Hard*: empty matches, `\K`, going on after an exception.
- *Correct when*: matches are sorted, disjoint, complete and finite; `Replace`
  and `Split` neither lose nor repeat text.

### DFA iteration
`Dfa/PcreDfaRegex.Match.cs`, `PcreDfaMatchResult.cs`, `PcreDfaMatchSettings.cs`.

- *State*: the next index; mutable settings shared with the caller; for a
  result, an output vector and a result code.
- *Operations*: `Matches`, `MoveNext`, reading the matches of a result.
- *Hard*: indices are UTF-16 units and a start inside a surrogate pair is not
  checked after the first search; a result code of zero means "vector full",
  and the native vector and the managed one have sizes of their own; settings
  are validated before they are read, and read again by every search.
- *Correct when*: one result for every start, in order, with real matches only.

### Callout information table
`InternalRegex.TryGetCalloutInfoByPatternPosition`.

- *State*: a dictionary, built on first use, by any thread, without a lock.
- *Hard*: racing builders; a pattern that lists a position twice.
- *Correct when*: a lookup answers as a scan of the pattern would, and never
  from a part of the table.

### Native lifetimes
`PcreMatchBuffer.cs`, `PcreJitStack.cs`, `InternalRegex`, `PcreRefMatch.cs` and
the native functions that allocate and free.

- *State*: the native block of each managed object, its pointer field, whether
  its finalizer is still to run, who refers to it, the native calls in progress
  and the matches that are kept.
- *Operations*: the constructors, a match through a regex or a buffer, reading
  a match, `Dispose`, the finalizers.
- *Interaction*: native code works on raw pointers, which keep nothing alive; a
  callout of a match may start another match or dispose something.
- *Hard*: the garbage collector may finalize an object while native code still
  uses its memory, in any order with others; constructors fail half way.
- *Correct when*: nothing is used or read after it is freed, nothing is freed
  twice, and everything is freed in the end.

### Match settings
`PcreMatchSettings.cs`, `pcrenet_match.c: apply_settings`.

- *State*: three limits and a JIT stack, read at the call or copied into the
  context of a match buffer.
- *Hard*: "not set" and zero are one value on the native side.
- *Correct when*: a match runs under what the settings showed.

### Regex keys and settings
`RegexKey.cs`, `PcreRegexSettings.cs`, `pcrenet_compile.c`.

- *State*: settings that can change, and the read-only copies of keys.
- *Interaction*: the cache compares keys; the factory compiles the key that
  missed, and answers any key equal to it.
- *Hard*: a field that is not set equals one set to the default.
- *Correct when*: keys that are equal compile alike.

### Replacement patterns
`Internal/ReplacementPattern.cs`.

- *State*: the position of the scanner and the parts cut so far; then the list
  of parts, shared by all calls through the cache.
- *Hard*: every malformed placeholder has a fallback of its own.
- *Correct when*: no text is lost or repeated, and the text that replaces a
  match is what the documented placeholders stand for.

### Matches and groups
`PcreMatch.cs`, `PcreGroup.cs`, `PcreRefMatch.cs`, `PcreRefGroup.cs`,
`PcreCallout.cs`.

- *State*: a result code and an output vector.
- *Hard*: what the vector holds beyond the result code, or after a partial
  match, is not defined; the ref structs shift offsets by one.
- *Correct when*: a group shows what the pattern captured, through every class.

### Match callouts
`CalloutInterop.CalloutInteropInfo`. A callout may start a match of its own, or
end the one that runs; its exception becomes `PCRE2_ERROR_CALLOUT` and is
rethrown.

### Not modelled
- *PCRE2* itself (compiler, matcher, JIT, character tables, `pcre2test` and
  `pcre2grep`) is vendored and is by far most of the C in the tree. Only what
  the wrapper relies on is modelled: the driver of `pcre2_substitute`, which
  match a search reports, and `pcre2_next_match`.
- The *exception of a match callout* on its way to the caller: a match that
  throws is an outcome of `EndMatch` and of a search of `MatchIteration`. The
  callouts of `Substitute`, where an exception has more to survive, are modelled.
- Of settings and groups: the offset limit (a zero one is ignored like the
  other limits, `pcrenet_match.c:89`), `GetDuplicateNamedGroups`, marks, the text
  of a group.
- `MaxResults` from 2^30 on: the managed array of the DFA cannot be allocated,
  or the product that sizes it wraps.
- *Compilation*, *pattern information*, *conversion*: one call in, one value
  out, except for what the settings make of the compile context (`RegexKey`).
- Generated bindings, options, constants, analyzers, tests and benchmarks.

The 8-bit classes are generated from the 16-bit ones (`[ForwardTo8Bit]`) or
repeat them: the models stand for both, except that only the 16-bit ones have
`Substitute`, `Replace`, `Split` and the DFA.

## Modules

| module | models | composes |
| --- | --- | --- |
| `ReplayQueue` | a replay queue: operators only | |
| `Substitute` | one call of `Substitute`, all layers | `ReplayQueue` twice |
| `PriorityCache` | the cache, a step per unlocked access or locked region | |
| `LruCache` | abstract: a least-recently-used cache | |
| `RegexKey` | keys, settings and what is compiled: operators only | |
| `RegexCache` | the cache of regexes | `PriorityCache`, `RegexKey` |
| `SoloCache` | the same, in some behaviours used by one thread | `RegexCache`, `LruCache` |
| `Matcher` | what a search of PCRE2 reports: operators only | |
| `MatchIteration` | the enumerators, `Replace`, `Split` | `Matcher` |
| `NextMatchLoop` | abstract: the loop of `pcre2_match` and `pcre2_next_match` | `Matcher` |
| `DfaIteration` | DFA enumeration and results | |
| `CalloutInfo` | the lazy table | |
| `NativeLifetimes` | native memory, finalizers, calls in progress, settings | |
| `MatchGroups` | groups of a match: operators only | |
| `ReplacementPattern` | the parser of replacement strings and what its result appends | `MatchGroups` |
| `ReplacementGrammar` | abstract: what a replacement string stands for | `ReplacementPattern` |
| `...Proofs` | theorems about `PriorityCache` and `RegexCache`, `MatchIteration`, `DfaIteration`, `CalloutInfo`, `NativeLifetimes`, `ReplacementPattern`, `Substitute` (two modules) | |
| `MC...` | instances for TLC | |

A definition whose name ends in `_Something` and that is marked `mutant` is a
plausible mistake in the definition that follows it: `PROJECT.json` pairs it
with a property that the mistake breaks.

### Substitute and ReplayQueue

`pc` goes through `call` (the head of the retry loop), `match` (one action for
each position `pcre2_match` tries), `case` (delayed case forcing), `callout`
(the substitution callout), `tail`, `returned` (the driver looks at the result
code), `managed` (the managed caller) and `done`. `buf` is the buffer as
`CHECKMEMCPY` sees it, with `extra_needed`; its text is a sequence of tokens,
so that a result can be compared unit by unit.

The pattern matches `Width` units at every position and calls out before it
does; the replacement is a number of units. What the callouts answer, how long
a case-forced text is, and whether an allocation succeeds is chosen by the
environment at every step. A search that fails does so at the position it
tries, and a match callout runs only where a match fits: failures further on in
a search, and callouts on the way to no match, are left out. `PCRE2_UNSET` is `SIZE_MAX`; `SizeAssumption` puts it
above what a call can ask for. A call starts in its subject (`StartAssumption`):
`PcreRegex.Substitute` throws otherwise. Passes are counted up to three: the driver asks only whether a pass
is the first.

`matchLog`, `substLog` and `caseLen` are history: what the user's delegates
answered. `Documented` computes from them, with no notion of a pass, the string
a call should give: `TextAt` says what there is from a position on, from what
there is after it.

### PriorityCache, LruCache, SoloCache, RegexKey and RegexCache

A critical section of `GetOrAdd` is one action guarded by a free lock, because
nothing outside of the lock reads the list. The setter takes several: others
can see the head and the size between its writes. An item is identified with
its key, since the factory is deterministic. In `SoloCache` a behaviour may
leave one thread alone with the cache; then `LruCache` is refined (with several threads at once the order of use is not promised, and
nothing is checked of it), with each item taken for its class of equal keys and `capacity` equal to the size being
set from the moment the setter has trimmed.

`PriorityCache` takes the comparer as a constant, `Same`. `RegexCache` makes it
the equality of `RegexKey` and asks what a reader of `GetOrAdd` takes for
granted: that a regex made from another, equal key is the one the caller wanted.
In `RegexKey` a flag enumeration is the set of its flags, a field that is not
set is `Null`, and `CompileContext` is what `pcrenet_compile` makes of the
input, where zero means "not set" again.

### MatchIteration, Matcher and NextMatchLoop

A pattern is, for a given subject, a function from positions to the list of the
matches it can make there in backtracking order; each records where it was
tried and the two offsets that are reported, which `\K` separates. `Search`
reports the first match of the leftmost position that has one which is not
refused by `PCRE2_NOTEMPTY_ATSTART`. One action is one `MoveNext` or one loop
body. `vector` says whether the match still has its output vector, which
`NextMatch` drops before it searches. A search may throw `MaxFailures` times;
`CallAgain` is a caller that catches and goes on: an iterator is then over, the
two ref struct enumerators are not.

`ImplementsLoop` maps an enumeration to PCRE2's loop: the offset and the
options of the next search are those `pcre2_next_match` would give after the
last match found.

Not modelled: anchoring, `\G`, `PCRE2_FIRSTLINE` and the verbs COMMIT and SKIP,
which make what a search reports depend on where it starts in ways a function
of the position cannot say; surrogate pairs (a search of PCRE2 keeps to
characters by itself); partial matching (a partial match ends an enumeration,
as no match does).

### DfaIteration

The subject is a sequence of UTF-16 units; a pattern gives the ends of the
matches that start at each character. `ChangeSettings` is a caller that assigns
`StartIndex` after `Matches` has validated it, or `MaxResults` and
`AdditionalOptions` at any time between two calls of `MoveNext`. `Search` is
what one search works with: the sizes come from the settings as they are then,
the options from what the iterator read at its start. `NativePairs` is the size
of PCRE2's output vector, which `pcre2_match_data_create` limits to
`UINT16_MAX`, a constant so that a small model reaches it; `ManagedPairs`, that
of the array it is copied to, has no such limit. `Count` says how many matches a
result shows, and a result remembers its search, as history.

`MatchesAreReal` asks of every result that its first match is one of the
pattern's, and that all are when the search can honour its settings
(`Honoured`): it looks for the shortest match, or for no more results than the
native vector may hold, with `DfaShortest` not set meanwhile. What happens
otherwise is finding 6, which `OnlyMatches` shows. A search that fails stands
for any error (the workspace, a callout).

### CalloutInfo

`Check`, `Add`, `Publish` and `Find` are the reads and writes of the field in
program order; each thread fills its own table. The barrier orders `Add` before
`Publish`, which is why the model can be sequentially consistent.

### NativeLifetimes

A native pointer is identified with the managed object that allocated it:
`native[o]` is its memory, `o \in owns` says that the field is not null,
`o \in armed` that the finalizer is still to run. `Reachable` is computed from
the variables of the program (`held`), the shared settings, the matches that are
kept, the fields of match buffers, and the `GC.KeepAlive` calls ahead of each
native call (`KeptAlive`); anything else may be finalized at any moment, in any
order. A native call is a frame in a slot, the pair of a thread and a depth: a
deeper slot is the callout of the one above. `Enter` takes the raw pointers,
`Leave` is the return. `Match` stands for every call through a regex.

`PcreMatchSettings` is one object shared by the threads. Its three limits are
treated alike, so one stands for them; `shown` is history, what the getter
showed when the limit was taken.

What the classes disclaim is a guard: a match buffer runs one match at a time
and is disposed neither during it nor before its match is dropped
(`PcreMatchBuffer`: "not thread-safe and not reentrant"), a JIT stack is
disposed when no match and no usable buffer works on it. Two calls of
`PcreMatchBuffer.Dispose` may overlap.

### MatchGroups and ReplacementPattern

`RealMatch`, `PartialMatch`, `CalloutMatch` and `NoMatch` are the result codes
and vectors that the four kinds of objects hold for given captures;
`GetGroup` and `RefGetGroup` are the two class hierarchies.

A step of `ReplacementPattern` is one turn of a loop of `Parse`, so that `idx`
and `startIdx` are the code's; `ends` is history, where each part ended.
`AppendParts` applies the result to a match and may be repeated, as the cached
function is. `MaxInt` is the bound of `int.TryParse`; PCRE2 allows 65535 groups,
so a group number always fits. What a match has captured lies in its subject.
The quote and the backquote of the replacement syntax are the words `"quote"` and
`"backquote"`, because the lexer of TLA+ takes a backquote, even in a string, for
the beginning of a quotation.

`ReplacementGrammar` says what a replacement string stands for from the
documentation of the placeholders, without scanner, parts or groups: `TokenEnd` cuts
it into tokens, `Meaning` is the text of a token for a match, and `Expansion` puts
the texts together.

## Runs

| run | instance | checks |
| --- | --- | --- |
| `MCSubstitute` | subjects of 3 or 4 units, matches of 2, replacements of 0 to 9, buffers of 1 to 30, all options and callouts; a case callout returns 0, 1 or 7 units or fails; in *faulty* calls allocations and searches fail and callouts throw | `CalloutsRunOnce`, `TwoPassesAreEnough`, `NoSpuriousError`, `ResultAsDocumented`, `HeapSafe`, `WritesInBounds`, `ExceptionSurfaces`, `Terminates` |
| `MCSubstituteAbort` | callouts that abort | violated, see Findings |
| `MCPriorityCache` | 2 threads, 4 keys (two equal, three of one hash, one in error), sizes 0, 1, 3 | `CountBounded`, `NeverStoresFailures`, `AnswersAsCompiled`, `DuplicatesBounded`, `BehavesAsLru` (refinement, when one thread is alone) |
| `MCPriorityCacheDisabled` | 2 threads, sizes 0 to 2 | violated, see Findings |
| `MCMatchIteration` | every pattern with at most two matches from each position of a subject of 2, five interfaces, 2 failures | `Sorted`, `FewMatches`, `NothingMissed`, `SubjectAccountedFor`, `Ends`, `ImplementsLoop` (refinement) |
| `MCMatchIterationLookaround` | offsets anywhere | violated, see Findings |
| `MCDfaIteration` | every subject of up to 2 characters of one or two units, every pattern, `MaxResults` 0, 2 or 3 with `UINT16_MAX` = 2, two changes of the settings at any time | `StartsAtCharacters`, `EachStartOnce`, `MatchesAreReal`, `Ends` |
| `MCDfaIterationVector` | `MaxResults` = 2 with `UINT16_MAX` = 1, settings that do not change | `OnlyMatches`: violated, see Findings |
| `MCCalloutInfo` | 3 threads, 2 lookups each, patterns of 0, 1 and 3 callouts, one with a position listed twice | `LookupsAgree` |
| `MCNativeLifetimes` | a regex, a match buffer, a JIT stack; 2 threads, one of which goes on in a callout | `NoUseAfterFree`, `FreedOnce`, `NothingLost`, `MatchReadable`, `LimitsAreHonoured`, `EventuallyFreed` |
| `MCNativeLifetimesZeroLimit` | the same, with a limit of 0 as well | violated, see Findings |
| `MCReplacementPattern` | strings of up to 6 characters, 2 groups that share a name, every combination of set, empty and unset groups | `PartsCoverPattern`, `AgreesWithGrammar`, `GroupsAsCaptured` |

Every passing run also checks the type invariant of its module.

### Why the bounds are enough

- *Substitute*. The code's stack buffer of 4096 units, first queue of 64 bytes
  and case slack of 10 are constants of the model, set to 1 to 30, 2 and 1. The
  buffers overflow in the text before a match, in a replacement, in a restored
  match, in the tail and at the terminator; two matches and three positions
  make the queues grow past their first allocation. A case callout that returns
  7 exceeds the estimate in every pass, so that the loop retries three times.
- *PriorityCache*. Two threads are enough for every race between a lookup and
  an insertion, a lookup and the setter, or two setters. Size 1 forces
  evictions, 0 disables, 3 holds every key that compiles. `solo` picks the
  behaviours in which one thread alone uses the cache.
- *MatchIteration*. The code looks only at the last match and at the one it
  gets: two units and two alternatives at each position give empty after
  nonempty, nonempty after empty at the same place, touching matches, matches
  at both ends, and matches shifted by `\K`. The proofs remove the bounds for
  the safety properties. The history `found` stops growing at
  `MaxFound`, twice what `FewMatches` allows, so it is never cut while
  `FewMatches` holds.
- *DfaIteration*. Two characters give a surrogate pair before, after or without
  another character, and two pairs in a row; up to three matches start at one
  place. Two results are fewer than some starts have; three are more than the
  native vector holds (`UINT16_MAX`, 65535 in the code, is 2); zero is the
  boundary `Math.Max(1, MaxResults)` handles. Two changes of the settings
  (`MaxChanges`) make the searches around them disagree, and agree again. The
  history stops growing at `MaxFound`, one more than there are starts, which is
  never reached while `EachStartOnce` holds.
- *CalloutInfo*. Three threads let one read a table between two publications.
  The repeated position comes last, when a thread has something to publish.
- *NativeLifetimes*. One object of each class is enough to have it finalized,
  disposed, dropped and used at once: an object refers to at most one of each
  other class. A depth of two lets a callout match and dispose; the second
  thread needs no callout to race it. The limit asked for (5) is below the one
  of the pattern (7) and the default (9) above, so that the three are told apart.
- *ReplacementPattern*. A placeholder is at most one dollar, one brace, a name
  and a closing brace: five or six characters hold one with text on both
  sides, two that touch, and every place to break off. Numbers go up to 99999
  with `MaxInt` = 12, so that they overflow; the proofs keep `MaxInt` open.

### Fairness

`Terminates` and the two `Ends` assume weak fairness of the whole next-state
relation (`MatchIteration`, `Substitute`) or of the iterator's own steps
(`DfaIteration`; the environment's `ChangeSettings` is not forced). It stands
for one thread that keeps running, and for a caller that calls `MoveNext` until
it returns false; nothing is assumed about which of several outcomes happens.
A search, a callout and a factory are assumed to return. `EventuallyFreed`
assumes weak fairness of the finalizer of each object: the runtime collects and
finalizes what stays unreachable as long as the process runs (at its exit it
need not, and the memory goes with it). Nothing else is forced there: a program
may stop. The cache, the table and the parser have no liveness property.

## Proofs

Proved for every value of the constants allowed by the modules' assumptions:

- `RegexCacheProofs`, about `PriorityCache`: `TypeOK`, `CountBounded`,
  `AnswersItsKey` and `NeverStoresFailures`. The inductive invariant `Inv` adds who holds the lock
  (`LockInv`); that the list fits the *new* size from the moment the setter has
  trimmed, without which nothing says the size it writes at the end is large
  enough (`CountInv`); and that a thread about to store an item has passed the
  factory (`PendingInv`). `MoveToFront` and `AddFirstProperties` say what the
  list operations keep.
  About `RegexCache`: `EqualKeysCompileAlike`, that keys which are equal reach
  the compiler with the same input (it needs `BuildAssumption`: PCRE2 is built
  with no setting of zero, or a zero would mean two things); then
  `AnswersAsCompiled` from it and `AnswersItsKey`. `DuplicatesBounded` is
  inductive on top of `Inv`, for finitely many threads: a scan that misses finds
  no copy (`MissedIsNotStored`), and each list operation maps the copies after
  it one to one to those before it.
  About `SoloCache`: `BehavesAsLru`, see below, and that a disabled cache used by
  one caller at a time is empty, which is false for two (finding 3).
- `MatchIterationProofs`: `TypeOK` from `TypeInv`; then, for patterns that do
  not use `\K` in a lookaround (`Lookaroundless`), `Sorted`, `FewMatches`,
  `NothingMissed`, `SubjectAccountedFor` and `ImplementsLoop`, on top of
  `OrderInv`. `Sorted` is not inductive: the next match
  depends on the last one only, so `LastInv` ties the enumerator's match to the
  end of the history. `FewMatches` needs a measure: `Rank`, twice the end of a
  match plus one or two, grows with each match (`NextIsLater`) and bounds their
  number (`RankInv`). `ImplementsLoop` then shows that every step finds, fails
  to find, or stutters in the loop. `NothingMissed` comes from `CoverInv`, that
  everything before the start of the next search is covered: a search is
  leftmost, and what it rejects at its start is the empty match, which the match
  before it covers. `SubjectAccountedFor` comes from `PieceInv`, that pieces and
  handled matches share out (`SharedOut`) what is before `position` and reach no
  further.
- `DfaIterationProofs`: `TypeOK`, `StartsAtCharacters`, `EachStartOnce` and
  `MatchesAreReal`. The
  subject is valid UTF-16, `MaxResults` is below 2^30 and `UINT16_MAX` any
  positive number (`DfaAssumption`); the settings change as often as the caller
  likes. `NextCharacter` shows that one past a match is a character, or is moved
  to one by the search. `Progress` adds that the `i`-th result is at least
  `i - 1` units in, so the history is never cut. For `MatchesAreReal`, `Ranks`
  counts the matches that are longer than a given one: each rank below the number
  of matches is that of exactly one. `Reported` says what PCRE2 writes for any
  two sizes, `Sizes` that they agree when the settings are honoured, and
  `FirstIsReal` that the first pair is written in any case.
- `CalloutInfoProofs`: `TypeOK` and `LookupsAgree`. `TableInv` says that a table
  is a prefix of the pattern's callouts while a thread fills it and all of them
  once it is published, always at different positions; so `Add` throws only if
  the pattern lists one twice, and then nothing is ever published.
- `SubstituteProofs`: `TypeOK`, `HeapSafe`, `WritesInBounds`,
  `ExceptionSurfaces` and `CalloutsRunOnce`. `HeapInv` ties each block to the
  place in the driver that frees it; `ExnInv` ties the stored exception to the
  abort that follows it. `CalloutsRunOnce` is the long one: `ReplayInv` says,
  for calls in which nothing fails, that the queue holds what the delegates
  have answered (`MatchLogInv`, `SubstLogInv`), and that every pass goes through
  the logged positions in their order (`MatchCursor`, `SubstCursor`), so that
  the delegate is only ever called at a position that is not logged yet.
- `SubstitutePassesProofs`: `TwoPassesAreEnough`, `NoSpuriousError` and
  `ResultAsDocumented`. See below.
- `NativeLifetimesProofs`: `TypeOK`, `NoUseAfterFree`, `FreedOnce`,
  `NothingLost`, `MatchReadable`; and `LimitsAreHonoured` if no limit the
  program sets is zero, the case in which it fails. The invariant says what a
  pointer field means (`OwnInv`), what a buffer refers to (`BufferInv`), that
  what is held exists (`HeldInv`), what a kept match and a frame may rely on
  (`MatchInv`, `FrameInv`), and that only one call works on a buffer
  (`AloneInv`). `Unreached` is the step of the collector: what it takes is in no
  frame, no match and no buffer that is.
- `ReplacementPatternProofs`: `TypeOK`, `PartsCoverPattern`,
  `GroupsAsCaptured` and `AgreesWithGrammar`, for strings of any length over any characters and
  patterns of any number of groups. `Tiles` says the parts so far cut the string
  up to the last end, `Position` where `idx` and `startIdx` are relative to it
  in each state of the scanner; `AddTiles` is the step that adds a part.
  `GroupsAsCaptured` rests on what `Captures` says a search leaves behind: the
  code `pcre2_match` returns is one past the last group set (`CaptureTopIsTop`),
  so a pair that a group is read from is never out of the vector nor left from an
  earlier match (`PairInVector`), and both kinds of group show it alike
  (`BothShow`), through a match, a partial match, no match and a callout.
  `AgreesWithGrammar`: see below.

### Why two passes are enough

The first pass cannot know what it will need: it stops running callouts when
its buffer overflows, and what the second pass finds depends on answers that
have not been given yet. The proof compares what the passes write with sizes
that can be computed from the logs alone:

- `Written(c, log, p, j)` is the output of call `c` up to position `p` of the
  subject after `j` matches that are decided; `Promise(c, log, p, d)` is the same
  after `d` matches of which those without an answer take the larger of the match
  and its replacement (`Worst`). Both are cases of `Size`, whose arithmetic is in
  `SizeSteps` and `SizeMonotone`.
- `CountInv` ties a pass to the logs: how many matches it has had, which of them
  are decided, and where it is.
- *First pass*: `FirstRoom` says that the units written plus `extra_needed`
  never fall behind the promise; `WorstCaseBuffer` is the step in which the code
  adds the worst case by hand. So what is asked for in the end (`Asked`) covers
  the whole promise, `HighMark` (what was written in the first buffer before each
  answer, and the replacement after it) and `ReplayMark` (twice what was written
  before the last answer).
- *Between*: `AskedIsGranted`. The retry gets the largest of what was asked for,
  twice the first buffer and twice the subject.
- *Second pass*: `SecondRoom` says that it never outgrows its buffer. While it
  replays, the log is that of the first pass; after it, each new answer makes the
  promise smaller (`PromiseAnswered`), and `FitsAhead` shows that what is written
  before a match from which the rest can still be reached, and its replacement,
  are below the promise.
- *Abort* is what makes the doubling matter. The first pass treats an answer
  that aborts as one that rejects and the replay obeys it (finding 1), so the
  second pass may copy the rest of the subject where the first went on to
  matches with shorter replacements. `FitsAtAbort` bounds what comes before by
  `ReplayMark` and what follows by half of twice the subject: without the factor
  two in the driver the estimate would be too small.

### Why no error is spurious

Two errors could come from the driver itself: a length that exceeds `SIZE_MAX`,
and a second pass that finds its buffer too small when the driver no longer
retries, one unit short for the terminator included.

- `SizeInv` gives each unit of the subject a budget, `UnitCost`: itself, its
  match, the replacement, a case callout's text with the guess of it, and the
  match put back. What a pass has written and what it asks for is at most the
  budget of the units it is past (`Paced`, `WithinBudget`). So every length is
  below `MostNeeded`, and twice that below `PCRE2_UNSET` by `SizeAssumption`: a
  .NET string has fewer than 2^30 units, which makes it less than 2^63 of the
  2^64.
- `AskedWithin` says that a pass that ends with `PCRE2_ERROR_NOMEMORY` and may be
  repeated asks for such a length; `AllocationSucceeds` that the driver then
  goes on. `ErrorInv` says what a negative code means wherever the driver or the
  managed caller holds one (`Failure`): after the last pass `PCRE2_ERROR_NOMEMORY`
  is a failed allocation.

### Why the result is the documented one

A pass has to be compared with a text that depends on answers it does not have
yet: it has written a replacement before the substitution callout judges it, and
replays what earlier passes logged further on. `FutureInv` therefore speaks of
every log the callouts may still leave behind:

- `Later(longer, log)`: a log that extends this one, in order, in which nothing
  throws and nothing follows an answer that aborts. With lengths of case-forced
  text that agree where this pass is done (`LengthsSettled`) it is a `Future`,
  and `Foreseen` adds the texts it stands for. `TextFromExplains` shows that
  `TextFrom` gives such texts, and the only ones (`SomeTexts`, `OneText`).
- `Told`: for all of them, a pass that has not overflowed has written the
  documented text up to where it is (`WrittenSoFar`), and what a successful pass
  returns is the whole of it (`WrittenOut`). A step shrinks the set of futures
  (`FutureBack`): so the invariant holds before it for each that is left, and
  what is to show is how the text moves from what is ahead to what is written.
- An answer is looked up by its position in `Documented`, but a pass takes it
  from its queue: `MatchCursor` and `SubstCursor` say that the next one replayed
  is for this position, and `AnswerStays` that an ordered log has one for each.
- *Abort* is why a future ends with it. While it is the last answer of a log the
  pass that ran it goes on (finding 1), and what it writes then is not the
  documented text; but a callout it runs leaves no future, and if it runs none it
  copies the rest, which is what a replay of the abort would (`AbortPassed`).
- `InsertedHere` says what is in the buffer of the match a pass is at, after the
  case callout and before the substitution callout; `InSubject` that a pass
  without a substitution has copied nothing past the start, for the managed
  caller returns the subject itself then.

### Why one caller sees a least-recently-used cache

`Alone` is the invariant. The list has no two equal keys (`Distinct`): the caller
that inserts one has missed it, and nobody has inserted it since (`AbsentInv`). The
head is the front of the list or null, except between the two writes of an
insertion and inside the setter (`HeadInv`): so a hit on the head, which leaves the
list alone, is the use of the key that is first already (`FrontIsUse`). `HitIsUse`,
`MissIsUse`, `UncachedIsUse` and `TrimmedIsPrefix` compare the list after a step
with the abstract one; `AloneRefines` puts them together, an action at a time.
With two callers `Distinct`, `AbsentInv` and `HeadInv` all fail.

### Why a replacement is what its string stands for

The scanner looks at a character at a time and may turn back; the grammar looks at
a whole token. `Scanned` says what the characters between `startIdx` and `idx` are,
so that a branch of the scanner knows the token it has passed (`RunEndIs`,
`DollarToken`); `Meanings` says that each part is explained by the string up to its
end: it keeps a run of characters that are tokens of their own (`LiteralRun`), or
its text is the meaning of one token for everything a match may have captured
(`Placeholder`). There is a lemma for each kind of part: a name that only one group
of several may have set (`NamedText`), a number too large for an `int` (`NumberedText`,
where the assumption on the number of groups is needed), the last group set
(`LastGroupText`), a brace without a name or without an end. `MeaningsInvariant` is
the invariant. When the parts are appended, the text so far followed by the
expansion of the rest of the string is always the whole expansion (`JoinedTo`); the
prover has no induction over the parts, so the lemmas `OneMorePiece`, `SomeRest` and
the like argue from a least counterexample (`NatMin`).

### What is only model-checked

`Lookaroundless` is the default: PCRE2 rejects `\K` in a lookaround unless the
pattern is compiled with `AllowLookaroundBsK`; with it, the last run of
`MatchIteration` shows an enumeration that never ends.

Every safety property of the passing runs is a theorem. All liveness
(`Terminates`, the two `Ends`, `EventuallyFreed`) is out of the prover's reach,
though `FewMatches` is the safety half of `Ends`, and `NothingLost` that of
`EventuallyFreed`.

## Findings

1. *Abort does not abort* (`pcrenet_substitute.c:161` and `177`). The handlers
   of the match and of the substitution callout return the byte stored for the
   replay (2) instead of -1, so PCRE2 goes on. When the answer is replayed it
   does abort: the same call with a smaller buffer gives another result.
2. *A limit of zero is ignored* (`pcrenet_match.c:87`; lines 81 and 84 alike).
   `HeapLimit = 0`, which is documented to use no heap memory, leaves the
   default limit, while the getter shows 0.
3. *A disabled cache may keep serving an item* (`PriorityCache.cs:90`): the
   head is written after the setter has cleared it.
4. *`Matches` may never end* with `AllowLookaroundBsK`
   (`PcreRegex.Match.cs:333`), where `pcre2_next_match` would move on.
   `(?<=\Ka)` on `aab` is an example.
5. *Callout information is unavailable* for a pattern whose repetition
   duplicates a callout (`InternalRegex.cs:64`), such as `(?:a(?C1)b){2}`: the
   second `dict.Add` throws, in `PcreCallout.Info` and in the creation of a
   match buffer, each time. `LookupsAgree` says so of what the code does, and has
   no violation to show; `PcreCallout.cs:92` promises the information without a
   condition.
6. *A DFA result shows matches that are none* (`InternalRegex.cs:460`,
   `PcreDfaMatchResult.cs:31`). The managed array has `MaxResults` pairs and the
   native one at most 65535; when there are more matches PCRE2 returns 0, and
   each unused pair of the array reads as a match at 0: with `MaxResults` =
   70000, `a+` on 70000 letters gives 4465 of them, and the last is what
   `ShortestMatch` returns. A caller that sets `DfaShortest` between two
   results meets the same with any `MaxResults` (one native pair, and options
   that do not ask for the shortest match).

## What is left

In order of interest:

1. Match callouts: the stored exception and `PcreCalloutException`, with nested
   matches, on top of the frames of `NativeLifetimes`; the callout a match
   buffer's context keeps between two matches.
2. Two enumerators on one match buffer, which share its output vector:
   `MatchIteration` composed with itself.
