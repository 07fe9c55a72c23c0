---------------------------- MODULE SubstituteProofs ----------------------------
(***************************************************************************)
(* Proofs about a call of Substitute, for all subjects, replacements,      *)
(* buffers and answers of the callouts: its memory is safe, its exceptions *)
(* surface, and no pass runs a callout that an earlier one has run.        *)
(***************************************************************************)
EXTENDS Substitute, SequenceTheorems, TLAPS

PassBuffers == [out : Seq(Tokens), length : Nat, extra : Nat, overflowed : BOOLEAN]

InPass == Passes \ {"call"}

(* HeapSafe and WritesInBounds with what they rest on: which of the three  *)
(* outputs a retry leaves, that the first pass is never on the heap, and   *)
(* that a pass is told the length of the buffer it is given.               *)
HeapInv ==
  /\ block.state # "corrupt"
  /\ onHeap <=> block.state = "live"
  /\ onHeap <=> output = "heap"
  /\ pc = "done" => ~onHeap
  /\ pc \in Passes => output # "null"
  /\ pc \in InPass => calls >= 1
  /\ pc \in InPass /\ calls = 1 => ~onHeap
  /\ pc = "call" /\ calls = 0 => ~onHeap
  /\ pc = "call" => outputLength = Capacity
  /\ pc \in InPass => buf.length = Capacity /\ Len(buf.out) <= buf.length
  /\ pc \in {"case", "callout"} => mark.offset <= Len(buf.out)

ExnInv ==
  /\ Threw(matchLog) \/ Threw(substLog) => exn
  /\ pc = "done" /\ exn => outcome.kind = "exception"

(* Where a pass tries to match once it has had k answers of the match      *)
(* callout.                                                                *)
TriedAt(k) ==
  IF k = 0 THEN input.start
  ELSE matchLog[k][1] + (IF matchLog[k][2] = "Pass" THEN Width ELSE 1)

(* The queue holds the answers of the log, which lists the positions a     *)
(* pass tries without leaving one out.                                     *)
MatchLogInv ==
  /\ ~input.matchCallout => matchLog = << >>
  /\ RunsInOrder(matchLog)
  /\ input.matchCallout =>
       /\ Len(matchQueue.results) = Len(matchLog)
       /\ \A i \in 1..Len(matchLog) :
            /\ matchQueue.results[i] = IntToByte(HandlerResult(matchLog[i][2]))
            /\ matchLog[i][1] = TriedAt(i - 1)

Searching == {"match", "case", "callout"}

(* A pass replays the log in step: the next answer is for the position it  *)
(* tries next, and the last one it has had is for the match it is at.      *)
MatchCursor ==
  input.matchCallout /\ pc \in Searching =>
    LET r == matchQueue.replayed IN
    /\ r <= Len(matchLog)
    /\ pc = "match" => at = TriedAt(r)
    /\ pc # "match" => r >= 1 /\ matchLog[r][1] = at /\ matchLog[r][2] = "Pass"

(* Where the match after the k-th answer of the substitution callout is    *)
(* looked for.                                                             *)
SubstFrom(k) == IF k = 0 THEN input.start ELSE substLog[k][1] + Width

(* No pass finds a match from one position to another. *)
NothingMatches(from, to) ==
  IF input.matchCallout
  THEN \A i \in 1..Len(matchLog) :
         matchLog[i][2] = "Pass" => ~(from <= matchLog[i][1] /\ matchLog[i][1] < to)
  ELSE from = to

IsMatch(p) == \E i \in 1..Len(matchLog) : matchLog[i][1] = p /\ matchLog[i][2] = "Pass"

(* The log of the substitution callout lists the matches of a pass without *)
(* leaving one out.                                                        *)
SubstLogInv ==
  /\ ~input.substCallout => substLog = << >>
  /\ RunsInOrder(substLog)
  /\ input.substCallout => Len(substQueue.results) = Len(substLog)
  /\ \A k \in 1..Len(substLog) :
       /\ SubstFrom(k - 1) <= substLog[k][1]
       /\ NothingMatches(SubstFrom(k - 1), substLog[k][1])
       /\ input.matchCallout => IsMatch(substLog[k][1])

(* A pass that has not overflowed replays it in step. *)
SubstCursor ==
  input.substCallout /\ pc \in Searching /\ ~buf.overflowed =>
    LET r == substQueue.replayed IN
    /\ r <= Len(substLog)
    /\ SubstFrom(r) <= at
    /\ NothingMatches(SubstFrom(r), at)
    /\ r < Len(substLog) => at <= substLog[r + 1][1]

ReplayInv == MatchLogInv /\ MatchCursor /\ SubstLogInv /\ SubstCursor

Inv ==
  /\ TypeOK /\ HeapInv /\ ExnInv
  /\ ~input.faulty => ReplayInv

-----------------------------------------------------------------------------
(* The text of a pass. *)

LEMMA SomeText ==
  ASSUME NEW n \in Int, NEW f, f \in [1..n -> Tokens]
  PROVE  f \in Seq(Tokens)
<1>1. CASE n \in Nat
  BY <1>1, SeqDef
<1>2. CASE n \notin Nat
  <2>1. 1..n = 1..0
    BY <1>2
  <2> QED
    BY <2>1, SeqDef
<1> QED
  BY <1>1, <1>2

LEMMA KeptText ==
  ASSUME NEW p \in Nat, NEW q \in Nat
  PROVE  Kept(p, q) \in Seq(Tokens)
<1>1. \A i \in 1..(q - p) : <<"subject", p + i - 1>> \in Tokens
  BY DEF Tokens
<1>2. SubjectText(p, q) \in [1..(q - p) -> Tokens]
  BY <1>1 DEF SubjectText
<1>3. SubjectText(p, q) \in Seq(Tokens)
  BY <1>2, SomeText
<1> QED
  BY <1>3, EmptySeq DEF Kept

LEMMA InsertedText ==
  ASSUME NEW p \in Nat, NEW n \in Nat
  PROVE  Inserted(p, n) \in Seq(Tokens)
<1>1. Inserted(p, n) \in [1..n -> Tokens]
  BY DEF Inserted, Tokens
<1> QED
  BY <1>1, SomeText

LEMMA TerminatorText == Terminator \in Seq(Tokens) /\ Len(Terminator) = 1
BY DEF Terminator, Tokens

(* CHECKMEMCPY stays in the buffer, and a pass that has overflowed once    *)
(* has overflowed.                                                         *)
LEMMA CheckMemCpyFits ==
  ASSUME NEW b \in PassBuffers, NEW text \in Seq(Tokens)
  PROVE  /\ CheckMemCpy(b, text) \in PassBuffers
         /\ CheckMemCpy(b, text).length = b.length
         /\ b.overflowed => CheckMemCpy(b, text).overflowed
         /\ Len(CheckMemCpy(b, text).out) >= Len(b.out)
         /\ Len(b.out) <= b.length => Len(CheckMemCpy(b, text).out) <= b.length
         /\ ~CheckMemCpy(b, text).overflowed =>
              Len(CheckMemCpy(b, text).out) = Len(b.out) + Len(text)
<1> DEFINE left == b.length - Len(b.out)
<1>1. /\ Len(text) \in Nat /\ Len(b.out) \in Nat /\ b.length \in Nat /\ b.extra \in Nat
      /\ b.overflowed \in BOOLEAN /\ b.out \in Seq(Tokens)
  BY LenProperties DEF PassBuffers
<1>2. CASE b.overflowed
  BY <1>1, <1>2 DEF CheckMemCpy, PassBuffers
<1>3. CASE ~b.overflowed /\ left < Len(text)
  <2> DEFINE c == [b EXCEPT !.overflowed = TRUE, !.extra = Len(text) - left]
  <2>1. CheckMemCpy(b, text) = c
    BY <1>3 DEF CheckMemCpy
  <2>2. Len(text) - left \in Nat
    BY <1>1, <1>3
  <2>3. c \in PassBuffers /\ c.out = b.out /\ c.length = b.length /\ c.overflowed = TRUE
    BY <2>2 DEF PassBuffers
  <2> HIDE DEF c
  <2> QED
    BY <1>1, <2>1, <2>3
<1>4. CASE ~b.overflowed /\ ~(left < Len(text))
  <2> DEFINE c == [b EXCEPT !.out = b.out \o text]
  <2>1. CheckMemCpy(b, text) = c
    BY <1>4 DEF CheckMemCpy
  <2>2. b.out \o text \in Seq(Tokens) /\ Len(b.out \o text) = Len(b.out) + Len(text)
    BY <1>1, ConcatProperties
  <2>3. c \in PassBuffers /\ c.out = b.out \o text /\ c.length = b.length
    BY <2>2 DEF PassBuffers
  <2>4. ~b.overflowed
    BY <1>4
  <2>5. Len(c.out) = Len(b.out) + Len(text) /\ Len(c.out) <= b.length
    BY <1>1, <1>4, <2>2, <2>3
  <2> HIDE DEF c
  <2> QED
    BY <1>1, <2>1, <2>3, <2>4, <2>5
<1> QED
  BY <1>1, <1>2, <1>3, <1>4

LEMMA EmptyBufferFits ==
  ASSUME NEW n \in Nat
  PROVE  /\ EmptyBuffer(n) \in PassBuffers /\ EmptyBuffer(n).length = n
         /\ Len(EmptyBuffer(n).out) <= n
BY EmptySeq DEF EmptyBuffer, PassBuffers

LEMMA RewindFits ==
  ASSUME buf \in PassBuffers, mark.offset \in Nat, mark.offset <= Len(buf.out)
  PROVE  /\ Rewind(buf) \in PassBuffers /\ Rewind(buf).length = buf.length
         /\ Rewind(buf).overflowed = buf.overflowed
         /\ Len(Rewind(buf).out) = mark.offset
<1>1. buf.out \in Seq(Tokens) /\ Len(buf.out) \in Nat
  BY LenProperties DEF PassBuffers
<1>2. \A i \in 1..mark.offset : buf.out[i] \in Tokens
  BY <1>1, ElementOfSeq
<1>3. /\ SubSeq(buf.out, 1, mark.offset) \in Seq(Tokens)
      /\ Len(SubSeq(buf.out, 1, mark.offset)) = mark.offset
  BY <1>2, SubSeqProperties
<1> QED
  BY <1>3 DEF Rewind, PassBuffers

LEMMA InputIsTyped ==
  ASSUME TypeOK
  PROVE  /\ input.length \in Nat /\ input.start \in Nat /\ input.replacement \in Nat
         /\ input.buffer \in Nat /\ input.global \in BOOLEAN
         /\ input.matchCallout \in BOOLEAN /\ input.substCallout \in BOOLEAN
         /\ input.caseCallout \in BOOLEAN /\ input.faulty \in BOOLEAN
         /\ Width \in Nat \ {0} /\ buf \in PassBuffers
BY SubstituteAssumption DEF TypeOK, InputType, PassBuffers

-----------------------------------------------------------------------------
(* A step of pcre2_substitute between two calls of the driver: it writes   *)
(* to its buffer and leaves the driver's variables alone.                  *)

Tried == MatchWithoutCallout \/ ReplayMatchCallout \/ RunMatchCallout

Cased == SkipForceCase \/ GuessCase \/ RunCaseCallout

Answered == SkipSubstCallout \/ AssumeWorstCase \/ ReplaySubstCallout \/ RunSubstCallout

EngineStep == Tried \/ NoMatch \/ SearchFails \/ Cased \/ Answered \/ FinishPass

BufferStep ==
  /\ buf' \in PassBuffers /\ buf'.length = buf.length /\ Len(buf'.out) <= buf.length
  /\ buf.overflowed => buf'.overflowed
  /\ pc' \in {"case", "callout"} => mark'.offset <= Len(buf'.out)

PassStep ==
  /\ BufferStep
  /\ mark' \in [offset : Nat, extra : Nat]
  /\ outputLength' \in Nat /\ rc' \in Int
  /\ pos' \in Nat /\ at' \in Nat /\ subs' \in Nat /\ global' \in BOOLEAN
  /\ pc \in InPass \ {"returned"} /\ pc' \in InPass
  /\ UNCHANGED <<driver, outcome>>

LEMMA PassTypes ==
  ASSUME TypeOK, HeapInv, pc \in InPass
  PROVE  /\ buf \in PassBuffers /\ Len(buf.out) \in Nat /\ Len(buf.out) <= buf.length
         /\ buf.length \in Nat /\ buf.extra \in Nat /\ buf.overflowed \in BOOLEAN
         /\ mark \in [offset : Nat, extra : Nat] /\ mark.offset \in Nat /\ mark.extra \in Nat
         /\ pos \in Nat /\ at \in Nat /\ subs \in Nat /\ global \in BOOLEAN
         /\ rc \in Int /\ outputLength \in Nat
         /\ pc \in {"case", "callout"} => mark.offset <= Len(buf.out)
         /\ InsertedLength(buf) \in Int
<1>1. buf \in PassBuffers /\ Len(buf.out) \in Nat
  BY LenProperties DEF TypeOK, PassBuffers
<1> QED
  BY <1>1 DEF TypeOK, HeapInv, PassBuffers, InsertedLength

LEMMA MatchedStep ==
  ASSUME TypeOK, HeapInv, pc = "match", Matched
  PROVE  /\ BufferStep
         /\ mark' \in [offset : Nat, extra : Nat] /\ rc' \in Int /\ subs' \in Nat
         /\ pc' \in {"case", "returned"}
         /\ UNCHANGED <<at, outputLength>>
<1> DEFINE before == CheckMemCpy(buf, Kept(pos, at))
           after == CheckMemCpy(before, Inserted(at, input.replacement))
<1>1. pc \in InPass
  BY DEF InPass, Passes
<1>2. Kept(pos, at) \in Seq(Tokens) /\ Inserted(at, input.replacement) \in Seq(Tokens)
  BY <1>1, PassTypes, InputIsTyped, KeptText, InsertedText
<1>3. /\ before \in PassBuffers /\ before.length = buf.length
      /\ buf.overflowed => before.overflowed
      /\ Len(before.out) <= before.length
  BY <1>1, <1>2, PassTypes, CheckMemCpyFits
<1>4. before.extra \in Nat /\ Len(before.out) \in Nat
  BY <1>3, LenProperties DEF PassBuffers
<1> HIDE DEF before
<1>5. /\ after \in PassBuffers /\ after.length = buf.length
      /\ buf.overflowed => after.overflowed
      /\ Len(after.out) <= after.length /\ Len(after.out) >= Len(before.out)
  BY <1>2, <1>3, CheckMemCpyFits
<1>6. /\ buf' = after /\ mark' = [offset |-> Len(before.out), extra |-> before.extra]
      /\ rc' \in {rc, PCRE2_ERROR_NOMEMORY} /\ pc' \in {"case", "returned"}
      /\ subs' = subs + 1 /\ UNCHANGED <<at, outputLength>>
  BY DEF Matched, Write, before
<1> HIDE DEF after
<1>7. rc' \in Int /\ subs' \in Nat
  BY <1>1, <1>6, PassTypes DEF PCRE2_ERROR_NOMEMORY
<1> QED
  BY <1>3, <1>4, <1>5, <1>6, <1>7 DEF BufferStep

LEMMA TriedStep ==
  ASSUME TypeOK, HeapInv, Tried
  PROVE  PassStep
<1>1. pc = "match" /\ pc \in InPass /\ UNCHANGED <<driver, pos, global, outcome>>
  BY DEF Tried, MatchWithoutCallout, ReplayMatchCallout, RunMatchCallout, CanMatch,
         InPass, Passes
<1>2. \/ Matched
      \/ at' = at + 1 /\ UNCHANGED <<pc, rc, buf, mark, subs, outputLength>>
      \/ pc' = "tail" /\ UNCHANGED <<at, rc, buf, mark, subs, outputLength>>
  BY DEF Tried, MatchWithoutCallout, ReplayMatchCallout, RunMatchCallout,
         AfterMatchCallout
<1>3. CASE Matched
  BY <1>1, <1>3, MatchedStep, PassTypes DEF PassStep, InPass, Passes
<1>4. CASE ~Matched
  BY <1>1, <1>2, <1>4, PassTypes DEF PassStep, BufferStep, InPass, Passes
<1> QED
  BY <1>3, <1>4

LEMMA CasedStep ==
  ASSUME TypeOK, HeapInv, Cased
  PROVE  PassStep
<1>1. /\ pc = "case" /\ pc \in InPass
      /\ UNCHANGED <<driver, outputLength, mark, pos, at, subs, global, outcome>>
  BY DEF Cased, SkipForceCase, GuessCase, RunCaseCallout, engine, InPass, Passes
<1>2. CASE SkipForceCase
  BY <1>1, <1>2, PassTypes DEF SkipForceCase, engine, PassStep, BufferStep, InPass, Passes
<1>3. CASE GuessCase
  <2> DEFINE n == InsertedLength(buf)
             extra == buf.extra + PessimisticCaseInflation(n)
             guess == [buf EXCEPT !.extra = extra]
  <2>1. n \in Nat
    BY <1>1, <1>3, PassTypes DEF GuessCase
  <2>2. extra \in Nat
    <3>1. buf.extra \in Nat /\ CaseSlack \in Nat
      BY <1>1, PassTypes, SubstituteAssumption
    <3> HIDE DEF n
    <3>2. n \div 8 \in Nat
      BY <2>1
    <3> QED
      BY <3>1, <3>2 DEF PessimisticCaseInflation
  <2>3. buf' = guess /\ pc' = "callout" /\ rc' = rc
    BY <1>3 DEF GuessCase
  <2> HIDE DEF n, extra
  <2>4. /\ guess \in PassBuffers /\ guess.out = buf.out /\ guess.length = buf.length
        /\ guess.overflowed = buf.overflowed
    BY <1>1, <2>2, PassTypes DEF PassBuffers
  <2> HIDE DEF guess
  <2> QED
    BY <1>1, <2>3, <2>4, PassTypes DEF PassStep, BufferStep, InPass, Passes
<1>4. CASE RunCaseCallout
  <2>1. CASE \E f \in CaseFailures :
               rc' = PCRE2_ERROR_REPLACECASE /\ pc' = "returned" /\ UNCHANGED buf
    BY <1>1, <2>1, PassTypes
      DEF PassStep, BufferStep, InPass, Passes, PCRE2_ERROR_REPLACECASE
  <2>2. ASSUME NEW n \in CaseLengths,
               buf' = CheckMemCpy(Rewind(buf), Inserted(at, n)),
               pc' = "callout", rc' = rc
        PROVE  PassStep
    <3>1. /\ Rewind(buf) \in PassBuffers /\ Rewind(buf).length = buf.length
          /\ Rewind(buf).overflowed = buf.overflowed
          /\ Len(Rewind(buf).out) = mark.offset /\ mark.offset <= buf.length
      BY <1>1, RewindFits, PassTypes
    <3>2. Inserted(at, n) \in Seq(Tokens)
      BY <1>1, InsertedText, PassTypes, SubstituteAssumption
    <3>3. /\ buf' \in PassBuffers /\ buf'.length = buf.length
          /\ buf.overflowed => buf'.overflowed
          /\ Len(buf'.out) <= buf.length /\ mark.offset <= Len(buf'.out)
      BY <2>2, <3>1, <3>2, <1>1, PassTypes, CheckMemCpyFits
    <3> QED
      BY <1>1, <2>2, <3>3, PassTypes DEF PassStep, BufferStep, InPass, Passes
  <2> QED
    BY <1>4, <2>1, <2>2 DEF RunCaseCallout
<1> QED
  BY <1>2, <1>3, <1>4 DEF Cased

(* Each way on from a substitution callout is NextMatch, with a buffer.    *)
LEMMA NextMatchStep ==
  ASSUME TypeOK, HeapInv, pc = "callout",
         NEW b \in PassBuffers, b.length = buf.length, Len(b.out) <= buf.length,
         buf.overflowed => b.overflowed,
         NEW again \in BOOLEAN, NextMatch(b, again)
  PROVE  PassStep
<1>1. pc \in InPass
  BY DEF InPass, Passes
<1>2. at + Width \in Nat
  BY SubstituteAssumption DEF TypeOK
<1> QED
  BY <1>1, <1>2, PassTypes DEF NextMatch, PassStep, BufferStep, InPass, Passes

LEMMA AnsweredStep ==
  ASSUME TypeOK, HeapInv, Answered
  PROVE  PassStep
<1>1. pc = "callout" /\ pc \in InPass
  BY DEF Answered, SkipSubstCallout, AssumeWorstCase, ReplaySubstCallout,
         RunSubstCallout, InPass, Passes
<1>2. CASE SkipSubstCallout
  BY <1>1, <1>2, PassTypes, NextMatchStep DEF SkipSubstCallout
<1>3. CASE AssumeWorstCase
  <2> DEFINE spare == Width - InsertedLength(buf)
             b == [buf EXCEPT !.extra = IF spare > 0 THEN buf.extra + spare ELSE buf.extra]
  <2>1. (IF spare > 0 THEN buf.extra + spare ELSE buf.extra) \in Nat
    BY <1>1, PassTypes, InputIsTyped
  <2>2. /\ b \in PassBuffers /\ b.out = buf.out /\ b.length = buf.length
        /\ b.overflowed = buf.overflowed
    BY <1>1, <2>1, PassTypes DEF PassBuffers
  <2>3. NextMatch(b, global)
    BY <1>3 DEF AssumeWorstCase
  <2> HIDE DEF b
  <2> QED
    BY <1>1, <2>2, <2>3, PassTypes, NextMatchStep
<1>4. ASSUME NEW result \in Int, AfterSubstCallout(result)
      PROVE  PassStep
  <2> DEFINE back == CheckMemCpy(Rewind(buf), Kept(at, at + Width))
             b == IF result = 0 THEN buf ELSE back
  <2>1. /\ Rewind(buf) \in PassBuffers /\ Rewind(buf).length = buf.length
        /\ Rewind(buf).overflowed = buf.overflowed
        /\ Len(Rewind(buf).out) = mark.offset /\ mark.offset <= buf.length
    BY <1>1, RewindFits, PassTypes
  <2>2. at + Width \in Nat /\ at \in Nat
    <3>1. at \in Nat /\ Width \in Nat
      BY SubstituteAssumption DEF TypeOK
    <3> QED
      BY <3>1
  <2>3. Kept(at, at + Width) \in Seq(Tokens)
    BY <2>2, KeptText
  <2>4. /\ back \in PassBuffers /\ back.length = buf.length
        /\ buf.overflowed => back.overflowed
        /\ Len(back.out) <= buf.length
    BY <2>1, <2>3, CheckMemCpyFits
  <2> HIDE DEF back
  <2>5. /\ b \in PassBuffers /\ b.length = buf.length
        /\ buf.overflowed => b.overflowed
        /\ Len(b.out) <= buf.length
    BY <1>1, <2>4, PassTypes
  <2>6. NextMatch(b, global /\ result >= 0)
    BY <1>4 DEF AfterSubstCallout, back
  <2> HIDE DEF b
  <2>7. (global /\ result >= 0) \in BOOLEAN
    OBVIOUS
  <2> QED
    BY <1>1, <2>5, <2>6, <2>7, NextMatchStep
<1>5. CASE ReplaySubstCallout
  BY <1>4, <1>5 DEF ReplaySubstCallout, ByteToInt
<1>6. CASE RunSubstCallout
  BY <1>4, <1>6 DEF RunSubstCallout, IntToByte
<1> QED
  BY <1>2, <1>3, <1>5, <1>6 DEF Answered

LEMMA FinishPassStep ==
  ASSUME TypeOK, HeapInv, FinishPass
  PROVE  PassStep
<1> DEFINE rest == CheckMemCpy(buf, Kept(pos, input.length))
           b == CheckMemCpy(rest, Terminator)
<1>1. pc = "tail" /\ pc \in InPass
  BY DEF FinishPass, InPass, Passes
<1>2. Kept(pos, input.length) \in Seq(Tokens)
  BY <1>1, KeptText, PassTypes, InputIsTyped
<1>3. /\ rest \in PassBuffers /\ rest.length = buf.length
      /\ buf.overflowed => rest.overflowed
      /\ Len(rest.out) <= rest.length
  BY <1>1, <1>2, CheckMemCpyFits, PassTypes
<1> HIDE DEF rest
<1>4. /\ b \in PassBuffers /\ b.length = buf.length
      /\ buf.overflowed => b.overflowed
      /\ Len(b.out) <= b.length
      /\ ~b.overflowed => Len(b.out) - 1 = Len(rest.out)
  <2>1. Len(rest.out) \in Nat
    BY <1>3, LenProperties DEF PassBuffers
  <2>2. /\ b \in PassBuffers /\ b.length = rest.length
        /\ rest.overflowed => b.overflowed
        /\ Len(rest.out) <= rest.length => Len(b.out) <= rest.length
        /\ ~b.overflowed => Len(b.out) = Len(rest.out) + Len(Terminator)
    BY <1>3, TerminatorText, CheckMemCpyFits
  <2> HIDE DEF b
  <2>3. ~b.overflowed => Len(b.out) - 1 = Len(rest.out)
    BY <2>1, <2>2, TerminatorText
  <2> QED
    BY <1>3, <2>2, <2>3
<1>5. Len(rest.out) \in Nat /\ b.length \in Nat /\ b.extra \in Nat
  BY <1>3, <1>4, LenProperties DEF PassBuffers
<1>6. /\ buf' = b /\ pc' = "returned"
      /\ rc' \in {subs, PCRE2_ERROR_NOMEMORY}
      /\ \/ ~b.overflowed /\ outputLength' = Len(b.out) - 1
         \/ outputLength' \in {b.length + b.extra, outputLength}
      /\ UNCHANGED <<driver, mark, pos, at, subs, global, outcome>>
  BY DEF FinishPass, rest
<1> HIDE DEF b
<1>7. rc' \in Int
  BY <1>1, <1>6, PassTypes DEF PCRE2_ERROR_NOMEMORY
<1>8. outputLength' \in Nat
  <2>1. b.length + b.extra \in Nat /\ outputLength \in Nat
    BY <1>1, <1>5, PassTypes
  <2>2. ~b.overflowed => Len(b.out) - 1 \in Nat
    BY <1>4, <1>5
  <2> QED
    BY <1>6, <2>1, <2>2
<1> QED
  BY <1>1, <1>4, <1>6, <1>7, <1>8, PassTypes
    DEF PassStep, BufferStep, InPass, Passes

LEMMA EngineStepIsPassStep ==
  ASSUME TypeOK, HeapInv, EngineStep
  PROVE  PassStep
<1>1. CASE NoMatch
  <2>1. pc \in InPass
    BY <1>1 DEF NoMatch, InPass, Passes
  <2> QED
    BY <1>1, <2>1, PassTypes DEF NoMatch, engine, PassStep, BufferStep, InPass, Passes
<1>2. CASE SearchFails
  <2>1. pc \in InPass /\ rc' \in Int
    BY <1>2, SubstituteAssumption DEF SearchFails, InPass, Passes
  <2> QED
    BY <1>2, <2>1, PassTypes DEF SearchFails, engine, PassStep, BufferStep, InPass, Passes
<1> QED
  BY <1>1, <1>2, TriedStep, CasedStep, AnsweredStep, FinishPassStep DEF EngineStep

-----------------------------------------------------------------------------
(* The queues and the logs. *)

LEMMA EnqueueType ==
  ASSUME NEW q \in ReplayQueues, NEW result \in Byte, NEW grown \in BOOLEAN
  PROVE  /\ TryEnqueue(q, result, grown) \in ReplayQueues
         /\ grown => TryEnqueue(q, result, grown).results = Append(q.results, result)
         /\ grown => TryEnqueue(q, result, grown).replayed = Len(q.results) + 1
<1>1. q.size \in Nat /\ q.results \in Seq(Byte) /\ q.replayed \in Nat /\ Len(q.results) \in Nat
  BY LenProperties DEF ReplayQueues
<1>2. GrownSize(q) \in Nat
  BY <1>1, QueueStartAssumption DEF GrownSize
<1>3. Append(q.results, result) \in Seq(Byte)
  BY <1>1
<1> QED
  BY <1>1, <1>2, <1>3 DEF TryEnqueue, ReplayQueues

LEMMA AnswerBytes ==
  ASSUME NEW answer \in Answers
  PROVE  /\ IntToByte(HandlerResult(answer)) \in Byte
         /\ IntToByte(HandlerResult(answer)) = 0 <=> answer = "Pass"
         /\ ByteToInt(IntToByte(HandlerResult(answer))) = 0 <=> answer = "Pass"
BY DEF Answers, HandlerResult, IntToByte, ByteToInt, Byte

(* What a step may do to the queues, the logs and the exception. *)
QueueStep ==
  /\ matchQueue' \in ReplayQueues /\ substQueue' \in ReplayQueues
  /\ matchLog' \in AnswerLogs /\ substLog' \in AnswerLogs
  /\ exn' \in BOOLEAN
  /\ Threw(matchLog') \/ Threw(substLog') =>
       Threw(matchLog) \/ Threw(substLog) \/ exn'
  /\ exn => exn'

LEMMA AppendedLog ==
  ASSUME NEW log \in AnswerLogs, NEW p \in Nat, NEW answer \in Answers
  PROVE  /\ Append(log, <<p, answer>>) \in AnswerLogs
         /\ Threw(Append(log, <<p, answer>>)) => Threw(log) \/ answer = "Throw"
         /\ Len(log) \in Nat /\ Len(Append(log, <<p, answer>>)) = Len(log) + 1
         /\ \A i \in 1..Len(log) :
              Append(log, <<p, answer>>)[i] = log[i] /\ log[i] \in Nat \X Answers
         /\ Append(log, <<p, answer>>)[Len(log) + 1] = <<p, answer>>
<1>1. log \in Seq(Nat \X Answers) /\ <<p, answer>> \in Nat \X Answers
  BY DEF AnswerLogs
<1>2. /\ Append(log, <<p, answer>>) \in Seq(Nat \X Answers)
      /\ Len(log) \in Nat /\ Len(Append(log, <<p, answer>>)) = Len(log) + 1
      /\ \A i \in 1..Len(log) :
           Append(log, <<p, answer>>)[i] = log[i] /\ log[i] \in Nat \X Answers
      /\ Append(log, <<p, answer>>)[Len(log) + 1] = <<p, answer>>
  BY <1>1
<1> QED
  BY <1>2 DEF AnswerLogs, Threw

LEMMA ReplayedType ==
  ASSUME NEW q \in ReplayQueues
  PROVE  Dequeue(q) \in ReplayQueues /\ StartReplay(q) \in ReplayQueues
BY DEF ReplayQueues, Dequeue, StartReplay

LEMMA EngineStepIsQueueStep ==
  ASSUME TypeOK, EngineStep
  PROVE  QueueStep
<1>1. /\ matchQueue \in ReplayQueues /\ substQueue \in ReplayQueues
      /\ matchLog \in AnswerLogs /\ substLog \in AnswerLogs /\ exn \in BOOLEAN /\ at \in Nat
  BY DEF TypeOK
<1>2. CASE UNCHANGED <<queues, matchLog, substLog>> /\ exn' \in BOOLEAN /\ (exn => exn')
  BY <1>1, <1>2 DEF QueueStep, queues
<1>3. CASE ReplayMatchCallout
  BY <1>1, <1>3, ReplayedType DEF ReplayMatchCallout, history, QueueStep
<1>4. CASE RunMatchCallout
  <2>1. PICK answer \in MatchAnswers, grown \in BOOLEAN :
          /\ exn' = (exn \/ answer = "Throw")
          /\ matchLog' = Append(matchLog, <<at, answer>>)
          /\ matchQueue' = TryEnqueue(matchQueue, IntToByte(HandlerResult(answer)), grown)
          /\ UNCHANGED <<substQueue, substLog>>
    BY <1>4 DEF RunMatchCallout, QueueGrowth
  <2>2. answer \in Answers
    BY SubstituteAssumption
  <2>3. matchQueue' \in ReplayQueues
    BY <1>1, <2>1, <2>2, AnswerBytes, EnqueueType
  <2> QED
    BY <1>1, <2>1, <2>2, <2>3, AppendedLog DEF QueueStep
<1>5. CASE ReplaySubstCallout
  BY <1>1, <1>5, ReplayedType DEF ReplaySubstCallout, AfterSubstCallout, NextMatch, QueueStep
<1>6. CASE RunSubstCallout
  <2>1. PICK answer \in SubstAnswers, grown \in BOOLEAN :
          /\ exn' = (exn \/ answer = "Throw")
          /\ substLog' = Append(substLog, <<at, answer>>)
          /\ substQueue' = TryEnqueue(substQueue, IntToByte(HandlerResult(answer)), grown)
          /\ UNCHANGED <<matchQueue, matchLog>>
    BY <1>6 DEF RunSubstCallout, QueueGrowth
  <2>2. answer \in Answers
    BY SubstituteAssumption
  <2>3. substQueue' \in ReplayQueues
    BY <1>1, <2>1, <2>2, AnswerBytes, EnqueueType
  <2> QED
    BY <1>1, <2>1, <2>2, <2>3, AppendedLog DEF QueueStep
<1>7. CASE RunCaseCallout
  <2>1. UNCHANGED <<queues, matchLog, substLog>>
    BY <1>7 DEF RunCaseCallout
  <2>2. exn' = exn \/ \E f \in CaseFailures : exn' = (exn \/ f = "throw")
    BY <1>7 DEF RunCaseCallout
  <2>3. exn' \in BOOLEAN /\ (exn => exn')
    BY <1>1, <2>2, Zenon
  <2> QED
    BY <1>2, <2>1, <2>3
<1>8. CASE \/ MatchWithoutCallout \/ NoMatch \/ SearchFails
           \/ SkipForceCase \/ GuessCase \/ SkipSubstCallout \/ AssumeWorstCase
           \/ FinishPass
  <2>1. UNCHANGED <<queues, matchLog, substLog, exn>>
    BY <1>8 DEF MatchWithoutCallout, NoMatch, SearchFails, SkipForceCase, GuessCase,
                SkipSubstCallout, AssumeWorstCase, FinishPass, history
  <2> QED
    BY <1>1, <1>2, <2>1
<1> QED
  BY <1>3, <1>4, <1>5, <1>6, <1>7, <1>8 DEF EngineStep, Tried, Cased, Answered

-----------------------------------------------------------------------------
(* Memory and exceptions. *)

LEMMA EngineStepInv ==
  ASSUME TypeOK, HeapInv, ExnInv, EngineStep
  PROVE  TypeOK' /\ HeapInv' /\ ExnInv'
<1>1. PassStep /\ QueueStep
  BY EngineStepIsPassStep, EngineStepIsQueueStep
<1>2. TypeOK'
  BY <1>1 DEF PassStep, BufferStep, QueueStep, TypeOK, PassBuffers, driver, InPass
<1>3. HeapInv'
  <2>1. Capacity' = Capacity
    BY <1>1 DEF PassStep, driver, Capacity
  <2>2. /\ pc \in Passes /\ pc \in InPass /\ pc' \in InPass
        /\ pc' # "done" /\ pc' # "call"
    BY <1>1 DEF PassStep, InPass, Passes
  <2> QED
    BY <1>1, <2>1, <2>2 DEF PassStep, BufferStep, HeapInv, driver
<1>4. ExnInv'
  <2>1. pc' # "done"
    BY <1>1 DEF PassStep, InPass, Passes
  <2> QED
    BY <1>1, <2>1 DEF QueueStep, ExnInv
<1> QED
  BY <1>2, <1>3, <1>4

LEMMA CallSubstituteInv ==
  ASSUME TypeOK, HeapInv, ExnInv, CallSubstitute
  PROVE  TypeOK' /\ HeapInv' /\ ExnInv' /\ pc' \in {"match", "returned"}
<1> DEFINE b == CheckMemCpy(EmptyBuffer(outputLength), Kept(0, input.start))
<1>1. outputLength \in Nat /\ outputLength = Capacity
  BY DEF CallSubstitute, TypeOK, HeapInv
<1>2. b \in PassBuffers /\ b.length = outputLength /\ Len(b.out) <= b.length
  <2> DEFINE e == EmptyBuffer(outputLength)
             text == Kept(0, input.start)
  <2>1. e \in PassBuffers /\ e.length = outputLength /\ Len(e.out) <= e.length
    BY <1>1, EmptyBufferFits
  <2>2. text \in Seq(Tokens)
    BY KeptText, InputIsTyped
  <2> HIDE DEF e, text
  <2>3. /\ CheckMemCpy(e, text) \in PassBuffers /\ CheckMemCpy(e, text).length = e.length
        /\ Len(CheckMemCpy(e, text).out) <= e.length
    BY <2>1, <2>2, CheckMemCpyFits
  <2> QED
    BY <2>1, <2>3 DEF e, text
<1>3. /\ buf' = b /\ pc' \in {"match", "returned"} /\ rc' \in {rc, PCRE2_ERROR_NOMEMORY}
      /\ pc = "call" /\ calls' = IF calls < MaxCalls THEN calls + 1 ELSE calls
      /\ outputLength' = PCRE2_UNSET
      /\ pos' = input.start /\ at' = input.start /\ subs' = 0 /\ global' = input.global
      /\ matchQueue' = StartReplay(matchQueue) /\ substQueue' = StartReplay(substQueue)
      /\ UNCHANGED <<input, output, onHeap, block, bufferLength, mark,
                     matchLog, substLog, exn, outcome>>
  BY DEF CallSubstitute, Write, history
<1> HIDE DEF b
<1>4. calls' \in Nat /\ calls' >= 1 /\ (calls' = 1 => calls = 0)
  BY <1>3 DEF TypeOK, MaxCalls
<1>5. TypeOK'
  <2>1. rc' \in Int /\ outputLength' \in Nat /\ matchQueue' \in ReplayQueues
        /\ substQueue' \in ReplayQueues
    BY <1>3, ReplayedType, SubstituteAssumption DEF TypeOK, PCRE2_ERROR_NOMEMORY
  <2>2. pos' \in Nat /\ at' \in Nat /\ subs' \in Nat /\ global' \in BOOLEAN
    BY <1>3, InputIsTyped
  <2> QED
    BY <1>2, <1>3, <1>4, <2>1, <2>2 DEF TypeOK, PassBuffers, Passes
<1>6. HeapInv'
  <2>1. Capacity' = Capacity
    BY <1>3 DEF Capacity
  <2>2. pc \in Passes /\ pc' \in InPass /\ pc' \notin {"call", "done", "case", "callout"}
    BY <1>3 DEF InPass, Passes
  <2> QED
    BY <1>1, <1>2, <1>3, <1>4, <2>1, <2>2 DEF HeapInv
<1>7. ExnInv'
  BY <1>3 DEF ExnInv
<1> QED
  BY <1>3, <1>5, <1>6, <1>7

(* The steps of the driver after a pass, and of the managed caller. *)
DriverStep == Succeeded \/ Failed \/ AllocateExact \/ AllocateLarger \/ Return

LEMMA DriverStepFrame ==
  ASSUME TypeOK, DriverStep
  PROVE  /\ pc' \in {"call", "managed", "done"}
         /\ UNCHANGED <<input, buf, mark, pos, at, subs, global, rc, matchQueue, substQueue,
                        matchLog, substLog, exn, calls>>
         /\ pc' = "done" => Return
         /\ Return \/ outcome' = outcome
BY DEF DriverStep, Succeeded, Failed, AllocateExact, AllocateLarger, Return, FreeResultMemory,
       driver, engine, queues, history

LEMMA FreedBlock ==
  ASSUME block \in [state : {"none", "live", "freed", "corrupt"}, size : Nat]
  PROVE  /\ Freed(block) \in [state : {"none", "live", "freed", "corrupt"}, size : Nat]
         /\ block.state = "live" => Freed(block).state = "freed"
BY SMT DEF Freed

LEMMA DriverStepInv ==
  ASSUME TypeOK, HeapInv, ExnInv, DriverStep
  PROVE  TypeOK' /\ HeapInv' /\ ExnInv'
<1>1. /\ UNCHANGED <<input, buf, mark, pos, at, subs, global, rc, matchQueue, substQueue,
                     matchLog, substLog, exn, calls>>
      /\ pc' \in {"call", "managed", "done"}
  BY DriverStepFrame
<1>2. /\ block \in [state : {"none", "live", "freed", "corrupt"}, size : Nat]
      /\ bufferLength \in Nat /\ outputLength \in Nat /\ onHeap \in BOOLEAN
      /\ output \in {"null", "stack", "heap"}
  BY DEF TypeOK
<1> DEFINE Memory ==
      /\ block' \in [state : {"none", "live", "freed", "corrupt"}, size : Nat]
      /\ bufferLength' \in Nat /\ outputLength' \in Nat /\ onHeap' \in BOOLEAN
      /\ output' \in {"null", "stack", "heap"}
      /\ block'.state # "corrupt"
      /\ onHeap' <=> block'.state = "live"
      /\ onHeap' <=> output' = "heap"
      /\ pc' = "done" => ~onHeap'
      /\ pc' = "call" => /\ output' = "heap" /\ outputLength' = block'.size /\ calls >= 1
<1>3. ASSUME FreeResultMemory
      PROVE  /\ block' \in [state : {"none", "live", "freed", "corrupt"}, size : Nat]
             /\ output' = "null" /\ onHeap' = FALSE
             /\ block'.state \notin {"corrupt", "live"}
  <2>1. CASE onHeap
    BY <1>2, <1>3, <2>1, FreedBlock DEF FreeResultMemory, HeapInv
  <2>2. CASE ~onHeap
    BY <1>2, <1>3, <2>2 DEF FreeResultMemory, HeapInv
  <2> QED
    BY <2>1, <2>2
<1>4. ASSUME Succeeded PROVE Memory
  BY <1>2, <1>4 DEF Succeeded, driver, HeapInv
<1>5. ASSUME Failed PROVE Memory
  BY <1>2, <1>3, <1>5 DEF Failed
<1>6. ASSUME AllocateExact
      PROVE  Memory
  <2>1. calls = 1 /\ ~onHeap /\ UNCHANGED <<bufferLength, outputLength>>
    BY <1>6 DEF AllocateExact, CanRetry, HeapInv, InPass, Passes
  <2>2. \/ /\ output' = "heap" /\ onHeap' = TRUE
           /\ block' = [state |-> "live", size |-> outputLength]
           /\ pc' = "call"
        \/ output' = "null" /\ pc' = "managed" /\ UNCHANGED <<onHeap, block>>
    BY <1>6 DEF AllocateExact, Allocated
  <2>3. CASE pc' = "call"
    BY <1>2, <2>1, <2>2, <2>3
  <2>4. CASE pc' = "managed"
    BY <1>2, <2>1, <2>2, <2>4 DEF HeapInv
  <2> QED
    BY <2>2, <2>3, <2>4
<1>7. ASSUME AllocateLarger
      PROVE  Memory
  <2>1. GrownBuffer \in Nat /\ bufferLength' = GrownBuffer /\ calls >= 1
    BY <1>2, <1>7, InputIsTyped
      DEF AllocateLarger, GrownBuffer, MaxSize, HeapInv, InPass, Passes
  <2>2. \/ /\ output' = "heap" /\ onHeap' = TRUE
           /\ block' = [state |-> "live", size |-> GrownBuffer]
           /\ outputLength' = GrownBuffer /\ pc' = "call"
        \/ /\ ~onHeap /\ output' = "null" /\ pc' = "managed"
           /\ UNCHANGED <<onHeap, block, outputLength>>
        \/ FreeResultMemory /\ pc' = "managed" /\ UNCHANGED outputLength
    BY <1>7 DEF AllocateLarger, Allocated, Reallocated, HeapInv
  <2>3. CASE FreeResultMemory /\ pc' = "managed" /\ UNCHANGED outputLength
    BY <1>2, <1>3, <2>1, <2>3
  <2>4. CASE /\ ~onHeap /\ output' = "null" /\ pc' = "managed"
             /\ UNCHANGED <<onHeap, block, outputLength>>
    BY <1>2, <2>1, <2>4 DEF HeapInv
  <2>5. CASE /\ output' = "heap" /\ onHeap' = TRUE
             /\ block' = [state |-> "live", size |-> GrownBuffer]
             /\ outputLength' = GrownBuffer /\ pc' = "call"
    BY <1>2, <2>1, <2>5
  <2> QED
    BY <2>2, <2>3, <2>4, <2>5
<1>8. ASSUME Return
      PROVE  Memory
  <2>1. pc' = "done" /\ UNCHANGED <<bufferLength, outputLength>>
    BY <1>8 DEF Return
  <2>2. FreeResultMemory \/ (~onHeap /\ UNCHANGED <<output, onHeap, block>>)
    BY <1>8 DEF Return, HeapInv
  <2>3. CASE FreeResultMemory
    BY <1>2, <1>3, <2>1, <2>3
  <2>4. CASE ~onHeap /\ UNCHANGED <<output, onHeap, block>>
    BY <1>2, <2>1, <2>4 DEF HeapInv
  <2> QED
    BY <2>2, <2>3, <2>4
<1>9. Memory
  BY <1>4, <1>5, <1>6, <1>7, <1>8 DEF DriverStep
<1>10. outcome'.kind \in {"none", "string", "error", "exception"} /\ ExnInv'
  <2>1. CASE Return
    <3>1. outcome' = Outcome
      BY <2>1 DEF Return
    <3>2. Outcome.kind \in {"string", "error", "exception"}
      BY DEF Outcome
    <3>3. exn => Outcome.kind = "exception"
      BY DEF Outcome
    <3> QED
      BY <1>1, <3>1, <3>2, <3>3 DEF ExnInv
  <2>2. CASE ~Return
    BY <1>1, <2>2, DriverStepFrame DEF ExnInv, TypeOK
  <2> QED
    BY <2>1, <2>2
<1>11. TypeOK'
  BY <1>1, <1>9, <1>10 DEF TypeOK, Passes
<1>12. HeapInv'
  <2>1. pc' \notin InPass /\ (pc' \in Passes => pc' = "call")
    BY <1>1 DEF InPass, Passes
  <2>2. pc' = "call" => outputLength' = Capacity'
    BY <1>9 DEF Capacity
  <2> QED
    BY <1>1, <1>9, <2>1, <2>2 DEF HeapInv, TypeOK
<1> QED
  BY <1>10, <1>11, <1>12

-----------------------------------------------------------------------------
(* Replaying the answers of the callouts. *)

LEMMA LogEntries ==
  ASSUME NEW log \in AnswerLogs
  PROVE  /\ Len(log) \in Nat
         /\ \A i \in 1..Len(log) : log[i][1] \in Nat /\ log[i][2] \in Answers
<1>1. Len(log) \in Nat /\ \A i \in 1..Len(log) : log[i] \in Nat \X Answers
  BY LenProperties, ElementOfSeq DEF AnswerLogs
<1> QED
  BY <1>1

(* What an append to a log in order does, when it is to the right of all   *)
(* that is in the log.                                                     *)
LEMMA AppendInOrder ==
  ASSUME NEW log \in AnswerLogs, RunsInOrder(log), NEW p \in Nat, NEW answer \in Answers,
         Len(log) > 0 => log[Len(log)][1] < p
  PROVE  LET longer == Append(log, <<p, answer>>) IN
         /\ RunsInOrder(longer)
         /\ Len(longer) = Len(log) + 1
         /\ \A i \in 1..Len(log) : longer[i] = log[i] /\ log[i][1] < p
         /\ longer[Len(log) + 1][1] = p /\ longer[Len(log) + 1][2] = answer
<1> DEFINE longer == Append(log, <<p, answer>>)
<1>1. /\ Len(log) \in Nat
      /\ \A i \in 1..Len(log) : log[i][1] \in Nat /\ log[i][2] \in Answers
  BY LogEntries
<1>2. /\ longer \in AnswerLogs /\ Len(longer) = Len(log) + 1
      /\ \A i \in 1..Len(log) : longer[i] = log[i]
      /\ longer[Len(log) + 1] = <<p, answer>>
  BY AppendedLog
<1> HIDE DEF longer
<1>3. \A i \in 1..Len(log) : log[i][1] < p
  <2> SUFFICES ASSUME NEW i \in 1..Len(log)
               PROVE  log[i][1] < p
    OBVIOUS
  <2>1. Len(log) \in 1..Len(log) /\ log[Len(log)][1] < p
    BY <1>1
  <2>2. i = Len(log) \/ log[i][1] < log[Len(log)][1]
    BY <1>1, <2>1 DEF RunsInOrder
  <2> QED
    BY <1>1, <2>1, <2>2
<1>4. longer[Len(log) + 1][1] = p /\ longer[Len(log) + 1][2] = answer
  BY <1>2
<1>5. RunsInOrder(longer)
  <2> SUFFICES ASSUME NEW i \in 1..Len(longer), NEW j \in 1..Len(longer), i < j
               PROVE  longer[i][1] < longer[j][1]
    BY DEF RunsInOrder
  <2>1. i \in 1..Len(log)
    BY <1>1, <1>2
  <2>2. CASE j = Len(log) + 1
    BY <1>2, <1>3, <1>4, <2>1, <2>2
  <2>3. CASE j # Len(log) + 1
    <3>1. Len(longer) = Len(log) + 1
      BY <1>2
    <3>2. j \in 1..Len(log)
      BY <1>1, <2>3, <3>1
    <3> QED
      BY <1>2, <2>1, <3>2 DEF RunsInOrder
  <2> QED
    BY <2>2, <2>3
<1> QED
  BY <1>2, <1>3, <1>4, <1>5 DEF longer

(* Nothing that a pass leaves behind when it stops, or a driver when it    *)
(* calls again, touches the queues and the logs.                           *)
LogsKept ==
  /\ UNCHANGED <<input, matchLog, substLog>>
  /\ matchQueue'.results = matchQueue.results /\ substQueue'.results = substQueue.results

LEMMA KeptLogs ==
  ASSUME MatchLogInv, SubstLogInv, LogsKept
  PROVE  MatchLogInv' /\ SubstLogInv'
BY DEF MatchLogInv, SubstLogInv, LogsKept, TriedAt, SubstFrom, NothingMatches, IsMatch,
       RunsInOrder

(* The step after the answer of a match callout, run or replayed. *)
LEMMA MatchAnswered ==
  ASSUME NEW result \in Int, AfterMatchCallout(result)
  PROVE  \/ result = 0 /\ at' = at /\ pc' # "match"
         \/ result > 0 /\ at' = at + 1 /\ pc' = pc
         \/ pc' = "tail"
BY DEF AfterMatchCallout, Matched, Write

(* A match callout is run after the whole log has been replayed, for a     *)
(* position to the right of all that is in it.                             *)
LEMMA MatchLogGrows ==
  ASSUME TypeOK, ReplayInv, pc = "match", input.matchCallout,
         ~CanDequeue(matchQueue), NEW answer \in Answers,
         matchLog' = Append(matchLog, <<at, answer>>),
         matchQueue' = TryEnqueue(matchQueue, IntToByte(HandlerResult(answer)), TRUE),
         UNCHANGED <<input, substLog, substQueue>>
  PROVE  /\ MatchLogInv' /\ SubstLogInv'
         /\ Len(matchLog') = Len(matchLog) + 1 /\ matchQueue'.replayed = Len(matchLog) + 1
         /\ \A i \in 1..Len(matchLog) : matchLog'[i] = matchLog[i] /\ matchLog[i][1] < at
         /\ matchLog'[Len(matchLog) + 1][1] = at /\ matchLog'[Len(matchLog) + 1][2] = answer
<1> DEFINE n == Len(matchLog)
           byte == IntToByte(HandlerResult(answer))
<1>1. /\ matchLog \in AnswerLogs /\ matchQueue \in ReplayQueues /\ at \in Nat
      /\ n \in Nat /\ byte \in Byte /\ Width \in Nat \ {0}
      /\ substLog \in AnswerLogs /\ Len(substLog) \in Nat
  BY LogEntries, AnswerBytes, SubstituteAssumption DEF TypeOK
<1>2. /\ Len(matchQueue.results) = n /\ matchQueue.results \in Seq(Byte)
      /\ matchQueue.replayed = n /\ at = TriedAt(n)
  <2>1. matchQueue.results \in Seq(Byte) /\ matchQueue.replayed \in Nat
    BY <1>1 DEF ReplayQueues
  <2>2. Len(matchQueue.results) = n /\ ~(matchQueue.replayed < Len(matchQueue.results))
    BY DEF ReplayInv, MatchLogInv, CanDequeue
  <2>3. matchQueue.replayed <= n /\ at = TriedAt(matchQueue.replayed)
    BY DEF ReplayInv, MatchCursor, Searching
  <2>4. matchQueue.replayed = n
    BY <1>1, <2>1, <2>2, <2>3
  <2> QED
    BY <2>1, <2>2, <2>3, <2>4
<1>3. \A i \in 1..n : matchLog[i][1] \in Nat /\ matchLog[i][2] \in Answers
  BY <1>1, LogEntries
<1>4. n > 0 => matchLog[n][1] < at
  BY <1>1, <1>2, <1>3 DEF TriedAt
<1>5. /\ RunsInOrder(matchLog') /\ Len(matchLog') = n + 1
      /\ \A i \in 1..n : matchLog'[i] = matchLog[i] /\ matchLog[i][1] < at
      /\ matchLog'[n + 1][1] = at /\ matchLog'[n + 1][2] = answer
  <2>1. RunsInOrder(matchLog) /\ matchLog \in AnswerLogs /\ at \in Nat
    BY DEF ReplayInv, MatchLogInv, TypeOK
  <2>2. Len(matchLog) > 0 => matchLog[Len(matchLog)][1] < at
    BY <1>4
  <2> DEFINE longer == Append(matchLog, <<at, answer>>)
  <2>3. /\ RunsInOrder(longer)
        /\ Len(longer) = Len(matchLog) + 1
        /\ \A i \in 1..Len(matchLog) : longer[i] = matchLog[i] /\ matchLog[i][1] < at
        /\ longer[Len(matchLog) + 1][1] = at /\ longer[Len(matchLog) + 1][2] = answer
    BY <2>1, <2>2, AppendInOrder
  <2>4. matchLog' = longer
    OBVIOUS
  <2> HIDE DEF longer
  <2> QED
    BY <2>3, <2>4 DEF RunsInOrder
<1>6. /\ matchQueue'.results = Append(matchQueue.results, byte)
      /\ matchQueue'.replayed = n + 1
  BY <1>1, <1>2, EnqueueType
<1>7. /\ Len(matchQueue'.results) = n + 1
      /\ \A i \in 1..n : matchQueue'.results[i] = matchQueue.results[i]
      /\ matchQueue'.results[n + 1] = byte
  <2> DEFINE results == matchQueue.results
  <2>1. results \in Seq(Byte) /\ byte \in Byte /\ Len(results) = n
    BY <1>1, <1>2
  <2> HIDE DEF byte, results
  <2>2. /\ Len(Append(results, byte)) = Len(results) + 1
        /\ \A i \in 1..Len(results) : Append(results, byte)[i] = results[i]
        /\ Append(results, byte)[Len(results) + 1] = byte
    BY <2>1, AppendProperties
  <2> QED
    BY <1>6, <2>1, <2>2 DEF results
<1>8. \A k \in 0..n : TriedAt(k)' = TriedAt(k)
  <2> SUFFICES ASSUME NEW k \in 0..n
               PROVE  TriedAt(k)' = TriedAt(k)
    OBVIOUS
  <2>1. k = 0 \/ k \in 1..n
    BY <1>1
  <2>2. k \in 1..n => matchLog'[k] = matchLog[k]
    BY <1>5
  <2> QED
    BY <2>1, <2>2 DEF TriedAt
<1>9. MatchLogInv'
  <2> SUFFICES ASSUME NEW i \in 1..Len(matchLog')
               PROVE  /\ matchQueue'.results[i] = IntToByte(HandlerResult(matchLog'[i][2]))
                      /\ matchLog'[i][1] = TriedAt(i - 1)'
    BY <1>1, <1>5, <1>7 DEF MatchLogInv
  <2>1. CASE i = n + 1
    <3>1. matchQueue'.results[i] = byte /\ matchLog'[i][2] = answer
      BY <1>5, <1>7, <2>1
    <3>2. matchLog'[i][1] = at /\ i - 1 = n /\ n \in 0..n
      BY <1>1, <1>5, <2>1
    <3>3. TriedAt(i - 1)' = TriedAt(i - 1) /\ TriedAt(i - 1) = at
      BY <1>2, <1>8, <3>2
    <3> QED
      BY <3>1, <3>2, <3>3
  <2>2. CASE i # n + 1
    <3>1. i \in 1..n /\ i - 1 \in 0..n
      BY <1>1, <1>5, <2>2
    <3>2. /\ matchQueue.results[i] = IntToByte(HandlerResult(matchLog[i][2]))
          /\ matchLog[i][1] = TriedAt(i - 1)
      BY <3>1 DEF ReplayInv, MatchLogInv
    <3> QED
      BY <1>5, <1>7, <1>8, <3>1, <3>2
  <2> QED
    BY <2>1, <2>2
<1>10. SubstLogInv'
  <2>1. ASSUME NEW k \in 1..Len(substLog)
        PROVE  /\ SubstFrom(k - 1)' <= substLog'[k][1]
               /\ NothingMatches(SubstFrom(k - 1), substLog[k][1])'
               /\ IsMatch(substLog[k][1])'
    <3>1. /\ SubstFrom(k - 1) <= substLog[k][1]
          /\ NothingMatches(SubstFrom(k - 1), substLog[k][1])
          /\ IsMatch(substLog[k][1])
      BY DEF ReplayInv, SubstLogInv
    <3>2. SubstFrom(k - 1)' = SubstFrom(k - 1)
      BY DEF SubstFrom
    <3>3. n + 1 \in Nat /\ \A i \in 1..n : i \in 1..(n + 1)
      BY <1>1
    <3>4. IsMatch(substLog[k][1])'
      BY <1>5, <3>1, <3>3 DEF IsMatch
    <3>5. substLog[k][1] < at /\ substLog[k][1] \in Nat
      BY <1>1, <1>5, <3>1, LogEntries DEF IsMatch
    <3>6. ASSUME NEW i \in 1..(n + 1), matchLog'[i][2] = "Pass"
          PROVE  ~(SubstFrom(k - 1) <= matchLog'[i][1] /\ matchLog'[i][1] < substLog[k][1])
      <4>1. CASE i = n + 1
        BY <1>1, <1>5, <3>5, <4>1
      <4>2. CASE i # n + 1
        <5>1. i \in 1..n
          BY <1>1, <4>2
        <5> QED
          BY <1>5, <3>1, <3>6, <5>1 DEF NothingMatches
      <4> QED
        BY <4>1, <4>2
    <3> QED
      BY <1>5, <3>1, <3>2, <3>4, <3>6 DEF NothingMatches
  <2> QED
    BY <2>1 DEF ReplayInv, SubstLogInv
<1> QED
  BY <1>5, <1>6, <1>9, <1>10

LEMMA RunMatchStep ==
  ASSUME TypeOK, ReplayInv, ~input.faulty, RunMatchCallout, buf.overflowed => buf'.overflowed
  PROVE  ReplayInv'
<1> DEFINE n == Len(matchLog)
           m == Len(substLog)
           r == substQueue.replayed
<1>1. PICK answer \in Answers :
        /\ matchLog' = Append(matchLog, <<at, answer>>)
        /\ matchQueue' = TryEnqueue(matchQueue, IntToByte(HandlerResult(answer)), TRUE)
        /\ AfterMatchCallout(IntToByte(HandlerResult(answer)))
  BY SubstituteAssumption DEF RunMatchCallout, QueueGrowth
<1>2. /\ pc = "match" /\ input.matchCallout /\ ~CanDequeue(matchQueue)
      /\ UNCHANGED <<input, substLog, substQueue>>
  BY DEF RunMatchCallout, CanMatch, driver
<1>3. /\ MatchLogInv' /\ SubstLogInv'
      /\ Len(matchLog') = n + 1 /\ matchQueue'.replayed = n + 1
      /\ \A i \in 1..n : matchLog'[i] = matchLog[i] /\ matchLog[i][1] < at
      /\ matchLog'[n + 1][1] = at /\ matchLog'[n + 1][2] = answer
  BY <1>1, <1>2, MatchLogGrows
<1>4. /\ n \in Nat /\ at \in Nat /\ m \in Nat /\ r \in Nat
      /\ \A k \in 1..m : substLog[k][1] \in Nat
      /\ \A i \in 1..n : matchLog[i][1] \in Nat
  BY LogEntries DEF TypeOK, ReplayQueues
<1>5. \/ answer = "Pass" /\ at' = at /\ pc' # "match"
      \/ answer # "Pass" /\ at' = at + 1 /\ pc' = "match"
      \/ pc' = "tail"
  <2>1. IntToByte(HandlerResult(answer)) \in Int
    BY AnswerBytes DEF Byte
  <2>2. IntToByte(HandlerResult(answer)) = 0 <=> answer = "Pass"
    BY AnswerBytes
  <2> QED
    BY <1>1, <1>2, <2>1, <2>2, MatchAnswered
<1>6. MatchCursor'
  <2>1. CASE answer = "Pass" /\ at' = at /\ pc' # "match"
    BY <1>3, <1>4, <2>1 DEF MatchCursor
  <2>2. CASE answer # "Pass" /\ at' = at + 1 /\ pc' = "match"
    <3>1. TriedAt(matchQueue.replayed)' = at + 1
      BY <1>3, <1>4, <2>2 DEF TriedAt
    <3> QED
      BY <1>3, <1>4, <2>2, <3>1 DEF MatchCursor
  <2>3. CASE pc' = "tail"
    BY <2>3 DEF MatchCursor, Searching
  <2> QED
    BY <1>5, <2>1, <2>2, <2>3
<1>7. SubstCursor'
  <2> SUFFICES ASSUME input.substCallout, pc' \in Searching, ~buf'.overflowed
               PROVE  /\ r <= m
                      /\ SubstFrom(r)' <= at'
                      /\ NothingMatches(SubstFrom(r), at)'
                      /\ r < m => at' <= substLog[r + 1][1]
    BY <1>2 DEF SubstCursor
  <2>1. /\ r <= m /\ SubstFrom(r) <= at
        /\ NothingMatches(SubstFrom(r), at)
        /\ r < m => at <= substLog[r + 1][1]
    BY <1>2 DEF ReplayInv, SubstCursor, Searching
  <2>2. SubstFrom(r)' = SubstFrom(r)
    BY <1>2 DEF SubstFrom
  <2>3. at' \in {at, at + 1}
    BY <1>5 DEF Searching
  <2>4. SubstFrom(r) \in Int
    BY <1>4, <2>1, SubstituteAssumption, InputIsTyped DEF SubstFrom
  <2>5. ASSUME r < m
        PROVE  at' <= substLog[r + 1][1]
    <3>1. r + 1 \in 1..m
      BY <1>4, <2>5
    <3>2. IsMatch(substLog[r + 1][1])
      BY <1>2, <3>1 DEF ReplayInv, SubstLogInv
    <3>3. substLog[r + 1][1] < at
      BY <1>3, <3>2 DEF IsMatch
    <3> QED
      BY <1>4, <2>1, <2>5, <3>1, <3>3
  <2>6. ASSUME NEW i \in 1..(n + 1), matchLog'[i][2] = "Pass"
        PROVE  ~(SubstFrom(r) <= matchLog'[i][1] /\ matchLog'[i][1] < at')
    <3>1. CASE i = n + 1
      BY <1>3, <1>4, <1>5, <2>6, <3>1 DEF Searching
    <3>2. CASE i # n + 1
      <4>1. i \in 1..n
        BY <1>4, <3>2
      <4>2. /\ matchLog'[i] = matchLog[i] /\ matchLog[i][1] < at
            /\ ~(SubstFrom(r) <= matchLog[i][1] /\ matchLog[i][1] < at)
        BY <1>2, <1>3, <2>1, <2>6, <4>1 DEF NothingMatches
      <4> QED
        BY <4>2
    <3> QED
      BY <3>1, <3>2
  <2>7. NothingMatches(SubstFrom(r), at)'
    BY <1>2, <1>3, <2>2, <2>6 DEF NothingMatches
  <2> QED
    BY <1>4, <2>1, <2>2, <2>3, <2>4, <2>5, <2>7
<1> QED
  BY <1>3, <1>6, <1>7 DEF ReplayInv

LEMMA ReplayMatchStep ==
  ASSUME TypeOK, ReplayInv, ReplayMatchCallout, buf.overflowed => buf'.overflowed
  PROVE  ReplayInv'
<1> DEFINE n == Len(matchLog)
           m == Len(substLog)
           r == substQueue.replayed
           q == matchQueue.replayed
           answer == matchLog[q + 1][2]
<1>1. /\ pc = "match" /\ input.matchCallout /\ CanDequeue(matchQueue)
      /\ UNCHANGED <<input, matchLog, substLog, substQueue>>
      /\ matchQueue'.results = matchQueue.results /\ matchQueue'.replayed = q + 1
      /\ AfterMatchCallout(ByteToInt(Dequeued(matchQueue)))
  <2>1. matchQueue' = Dequeue(matchQueue) /\ matchQueue \in ReplayQueues
    BY DEF ReplayMatchCallout, TypeOK
  <2>2. matchQueue'.results = matchQueue.results /\ matchQueue'.replayed = q + 1
    BY <2>1 DEF Dequeue, ReplayQueues
  <2> QED
    BY <2>2 DEF ReplayMatchCallout, CanMatch, driver, history
<1>2. /\ n \in Nat /\ at \in Nat /\ m \in Nat /\ r \in Nat /\ q \in Nat
      /\ \A k \in 1..m : substLog[k][1] \in Nat
      /\ \A i \in 1..n : matchLog[i][1] \in Nat /\ matchLog[i][2] \in Answers
  BY LogEntries DEF TypeOK, ReplayQueues
<1>3. q + 1 \in 1..n
  BY <1>1, <1>2 DEF ReplayInv, MatchLogInv, CanDequeue
<1>4. matchLog[q + 1][1] = at /\ answer \in Answers
  <2>1. matchLog[q + 1][1] = TriedAt((q + 1) - 1)
    BY <1>1, <1>3 DEF ReplayInv, MatchLogInv
  <2>2. at = TriedAt(q) /\ (q + 1) - 1 = q
    BY <1>1, <1>2 DEF ReplayInv, MatchCursor, Searching
  <2>3. matchLog[q + 1][1] = TriedAt(q)
    BY <2>1, <2>2
  <2> QED
    BY <1>2, <1>3, <2>2, <2>3
<1>5. \A i \in 1..n : matchLog[i][1] = at => i = q + 1
  <2> SUFFICES ASSUME NEW i \in 1..n, i # q + 1
               PROVE  matchLog[i][1] # at
    OBVIOUS
  <2>1. RunsInOrder(matchLog)
    BY DEF ReplayInv, MatchLogInv
  <2>2. i < q + 1 \/ q + 1 < i
    BY <1>2
  <2> QED
    BY <1>2, <1>3, <1>4, <2>1, <2>2 DEF RunsInOrder
<1>6. \/ answer = "Pass" /\ at' = at /\ pc' # "match"
      \/ answer # "Pass" /\ at' = at + 1 /\ pc' = "match"
      \/ pc' = "tail"
  <2> DEFINE result == ByteToInt(Dequeued(matchQueue))
  <2>1. Dequeued(matchQueue) = IntToByte(HandlerResult(answer))
    BY <1>1, <1>3 DEF ReplayInv, MatchLogInv, Dequeued
  <2>2. result = 0 <=> answer = "Pass"
    BY <1>4, <2>1, AnswerBytes
  <2>3. result \in Int
    BY <1>4, <2>1, AnswerBytes DEF Byte, ByteToInt
  <2>4. AfterMatchCallout(result)
    BY <1>1
  <2> HIDE DEF result
  <2> QED
    BY <1>1, <2>2, <2>3, <2>4, MatchAnswered
<1>7. MatchLogInv' /\ SubstLogInv'
  BY <1>1, KeptLogs DEF ReplayInv, LogsKept
<1>8. MatchCursor'
  <2>1. CASE answer = "Pass" /\ at' = at /\ pc' # "match"
    BY <1>1, <1>2, <1>3, <1>4, <2>1 DEF MatchCursor
  <2>2. CASE answer # "Pass" /\ at' = at + 1 /\ pc' = "match"
    <3>1. TriedAt(matchQueue.replayed)' = at + 1
      BY <1>1, <1>2, <1>4, <2>2 DEF TriedAt
    <3> QED
      BY <1>1, <1>3, <2>2, <3>1 DEF MatchCursor
  <2>3. CASE pc' = "tail"
    BY <2>3 DEF MatchCursor, Searching
  <2> QED
    BY <1>6, <2>1, <2>2, <2>3
<1>9. SubstCursor'
  <2> SUFFICES ASSUME input.substCallout, pc' \in Searching, ~buf'.overflowed
               PROVE  /\ r <= m
                      /\ SubstFrom(r)' <= at'
                      /\ NothingMatches(SubstFrom(r), at)'
                      /\ r < m => at' <= substLog[r + 1][1]
    BY <1>1 DEF SubstCursor
  <2>1. /\ r <= m /\ SubstFrom(r) <= at
        /\ NothingMatches(SubstFrom(r), at)
        /\ r < m => at <= substLog[r + 1][1]
    BY <1>1 DEF ReplayInv, SubstCursor, Searching
  <2>2. SubstFrom(r)' = SubstFrom(r)
    BY <1>1 DEF SubstFrom
  <2>3. SubstFrom(r) \in Int
    BY <1>2, <2>1, SubstituteAssumption, InputIsTyped DEF SubstFrom
  <2>4. \/ at' = at
        \/ at' = at + 1 /\ answer # "Pass"
    BY <1>6 DEF Searching
  <2>5. ASSUME r < m
        PROVE  at' <= substLog[r + 1][1]
    <3>1. r + 1 \in 1..m
      BY <1>2, <2>5
    <3>2. IsMatch(substLog[r + 1][1])
      BY <1>1, <3>1 DEF ReplayInv, SubstLogInv
    <3>3. answer # "Pass" => substLog[r + 1][1] # at
      BY <1>5, <3>2 DEF IsMatch
    <3> QED
      BY <1>2, <2>1, <2>4, <2>5, <3>1, <3>3
  <2>6. ASSUME NEW i \in 1..n, matchLog[i][2] = "Pass"
        PROVE  ~(SubstFrom(r) <= matchLog[i][1] /\ matchLog[i][1] < at')
    <3>1. ~(SubstFrom(r) <= matchLog[i][1] /\ matchLog[i][1] < at)
      BY <1>1, <2>1, <2>6 DEF NothingMatches
    <3>2. answer # "Pass" => matchLog[i][1] # at
      BY <1>5, <2>6
    <3>3. matchLog[i][1] \in Nat
      BY <1>2
    <3> QED
      BY <1>2, <2>3, <2>4, <3>1, <3>2, <3>3
  <2>7. NothingMatches(SubstFrom(r), at)'
    BY <1>1, <2>2, <2>6 DEF NothingMatches
  <2> QED
    BY <1>2, <2>1, <2>2, <2>3, <2>4, <2>5, <2>7
<1> QED
  BY <1>7, <1>8, <1>9 DEF ReplayInv

(* The search goes on after the match at which a callout has answered.     *)
LEMMA SearchGoesOn ==
  ASSUME TypeOK, ReplayInv, pc = "callout", pc' \in {"match", "tail"}, at' = at + Width,
         UNCHANGED <<input, matchLog, matchQueue>>
  PROVE  MatchLogInv' /\ MatchCursor'
<1>1. MatchLogInv'
  BY DEF ReplayInv, MatchLogInv, TriedAt, RunsInOrder
<1>2. MatchCursor'
  <2> SUFFICES ASSUME input.matchCallout, pc' = "match"
               PROVE  /\ matchQueue.replayed <= Len(matchLog)
                      /\ TriedAt(matchQueue.replayed)' = at + Width
    BY DEF MatchCursor, Searching
  <2>1. LET r == matchQueue.replayed IN
        r <= Len(matchLog) /\ r >= 1 /\ matchLog[r][1] = at /\ matchLog[r][2] = "Pass"
    BY DEF ReplayInv, MatchCursor, Searching
  <2>2. matchQueue.replayed \in Nat
    BY DEF TypeOK, ReplayQueues
  <2> QED
    BY <2>1, <2>2 DEF TriedAt
<1> QED
  BY <1>1, <1>2

(* A substitution callout is run after the whole log has been replayed,    *)
(* for a match to the right of all that is in it.                          *)
LEMMA RunSubstStep ==
  ASSUME TypeOK, ReplayInv, ~input.faulty, RunSubstCallout
  PROVE  ReplayInv'
<1> DEFINE m == Len(substLog)
<1>1. PICK answer \in Answers :
        /\ substLog' = Append(substLog, <<at, answer>>)
        /\ substQueue' = TryEnqueue(substQueue, IntToByte(HandlerResult(answer)), TRUE)
  BY SubstituteAssumption DEF RunSubstCallout, QueueGrowth
<1>2. /\ pc = "callout" /\ input.substCallout /\ ~buf.overflowed /\ ~CanDequeue(substQueue)
      /\ pc' \in {"match", "tail"} /\ at' = at + Width
      /\ UNCHANGED <<input, matchLog, matchQueue>>
  BY DEF RunSubstCallout, AfterSubstCallout, NextMatch, driver
<1>3. /\ m \in Nat /\ at \in Nat /\ Width \in Nat \ {0} /\ substLog \in AnswerLogs
      /\ substQueue \in ReplayQueues /\ substQueue.replayed \in Nat
      /\ \A k \in 1..m : substLog[k][1] \in Nat
  BY LogEntries, SubstituteAssumption DEF TypeOK, ReplayQueues
<1>4. /\ substQueue.replayed = m /\ Len(substQueue.results) = m
      /\ SubstFrom(m) <= at /\ NothingMatches(SubstFrom(m), at)
  <2>1. Len(substQueue.results) = m /\ ~(substQueue.replayed < Len(substQueue.results))
    BY <1>2 DEF ReplayInv, SubstLogInv, CanDequeue
  <2>2. LET r == substQueue.replayed IN
        r <= m /\ SubstFrom(r) <= at /\ NothingMatches(SubstFrom(r), at)
    BY <1>2 DEF ReplayInv, SubstCursor, Searching
  <2>3. substQueue.replayed = m
    BY <1>3, <2>1, <2>2
  <2> QED
    BY <2>1, <2>2, <2>3
<1>5. input.matchCallout => IsMatch(at)
  <2> SUFFICES ASSUME input.matchCallout
               PROVE  IsMatch(at)
    OBVIOUS
  <2> DEFINE q == matchQueue.replayed
  <2>1. q <= Len(matchLog) /\ q >= 1 /\ matchLog[q][1] = at /\ matchLog[q][2] = "Pass"
    BY <1>2 DEF ReplayInv, MatchCursor, Searching
  <2>2. q \in 1..Len(matchLog)
    BY <2>1, LogEntries DEF TypeOK, ReplayQueues
  <2> QED
    BY <2>1, <2>2 DEF IsMatch
<1>6. /\ RunsInOrder(substLog') /\ Len(substLog') = m + 1
      /\ \A k \in 1..m : substLog'[k] = substLog[k]
      /\ substLog'[m + 1][1] = at
  <2>1. RunsInOrder(substLog)
    BY DEF ReplayInv, SubstLogInv
  <2>2. m > 0 => substLog[m][1] < at
    BY <1>3, <1>4 DEF SubstFrom
  <2> DEFINE longer == Append(substLog, <<at, answer>>)
  <2>3. /\ RunsInOrder(longer) /\ Len(longer) = m + 1
        /\ \A k \in 1..m : longer[k] = substLog[k]
        /\ longer[m + 1][1] = at
    BY <1>3, <2>1, <2>2, AppendInOrder
  <2>4. substLog' = longer
    BY <1>1
  <2> HIDE DEF longer
  <2> QED
    BY <2>3, <2>4 DEF RunsInOrder
<1>7. Len(substQueue'.results) = m + 1 /\ substQueue'.replayed = m + 1
  <2> DEFINE byte == IntToByte(HandlerResult(answer))
  <2>1. byte \in Byte
    BY AnswerBytes
  <2>2. substQueue'.results = Append(substQueue.results, byte) /\ substQueue'.replayed = m + 1
    BY <1>1, <1>3, <1>4, <2>1, EnqueueType
  <2> HIDE DEF byte
  <2>3. substQueue.results \in Seq(Byte)
    BY <1>3 DEF ReplayQueues
  <2> QED
    BY <1>4, <2>1, <2>2, <2>3, AppendProperties
<1>8. ASSUME NEW k \in 1..(m + 1)
      PROVE  /\ SubstFrom(k - 1)' = SubstFrom(k - 1)
             /\ SubstFrom(k - 1) <= substLog'[k][1]
             /\ NothingMatches(SubstFrom(k - 1), substLog'[k][1])
             /\ input.matchCallout => IsMatch(substLog'[k][1])
  <2>1. SubstFrom(k - 1)' = SubstFrom(k - 1)
    <3>1. k - 1 = 0 \/ k - 1 \in 1..m
      BY <1>3
    <3>2. k - 1 \in 1..m => substLog'[k - 1] = substLog[k - 1]
      BY <1>6
    <3> QED
      BY <1>2, <3>1, <3>2 DEF SubstFrom
  <2>2. CASE k = m + 1
    <3>1. k - 1 = m /\ substLog'[k][1] = at
      BY <1>3, <1>6, <2>2
    <3> QED
      BY <1>4, <1>5, <2>1, <3>1
  <2>3. CASE k # m + 1
    <3>1. k \in 1..m /\ substLog'[k] = substLog[k]
      BY <1>3, <1>6, <2>3
    <3> QED
      BY <2>1, <3>1 DEF ReplayInv, SubstLogInv
  <2> QED
    BY <2>2, <2>3
<1>9. SubstLogInv'
  <2> SUFFICES ASSUME NEW k \in 1..(m + 1)
               PROVE  /\ SubstFrom(k - 1)' <= substLog'[k][1]
                      /\ NothingMatches(SubstFrom(k - 1), substLog[k][1])'
                      /\ input.matchCallout => IsMatch(substLog[k][1])'
    BY <1>2, <1>6, <1>7 DEF SubstLogInv
  <2> QED
    BY <1>2, <1>8 DEF NothingMatches, IsMatch
<1>10. SubstCursor'
  <2>1. SubstFrom(substQueue.replayed)' = at'
    BY <1>2, <1>3, <1>6, <1>7 DEF SubstFrom
  <2>2. at' \in Nat
    BY <1>2, <1>3
  <2>3. NothingMatches(at, at)'
    <3>1. \A i \in 1..Len(matchLog) : ~(at' <= matchLog[i][1] /\ matchLog[i][1] < at')
      <4>1. \A i \in 1..Len(matchLog) : matchLog[i][1] \in Nat
        BY LogEntries DEF TypeOK
      <4> QED
        BY <2>2, <4>1
    <3> QED
      BY <1>2, <3>1 DEF NothingMatches
  <2> QED
    BY <1>3, <1>6, <1>7, <2>1, <2>2, <2>3 DEF SubstCursor
<1> QED
  BY <1>2, <1>9, <1>10, SearchGoesOn DEF ReplayInv

(* A replayed answer of the substitution callout is the one the callout    *)
(* gave at this match: the earlier pass found no other before it.          *)
LEMMA ReplayedHere ==
  ASSUME TypeOK, ReplayInv, pc = "callout", input.substCallout, ~buf.overflowed,
         CanDequeue(substQueue)
  PROVE  /\ substQueue.replayed + 1 \in 1..Len(substLog)
         /\ substLog[substQueue.replayed + 1][1] = at
<1> DEFINE m == Len(substLog)
           n == Len(matchLog)
           r == substQueue.replayed
<1>1. /\ m \in Nat /\ n \in Nat /\ r \in Nat /\ at \in Nat
      /\ \A k \in 1..m : substLog[k][1] \in Nat
      /\ \A i \in 1..n : matchLog[i][1] \in Nat
  BY LogEntries DEF TypeOK, ReplayQueues
<1>2. r < m
  BY <1>1 DEF ReplayInv, SubstLogInv, CanDequeue
<1>3. /\ SubstFrom(r) <= at /\ NothingMatches(SubstFrom(r), at)
      /\ at <= substLog[r + 1][1]
  BY <1>2 DEF ReplayInv, SubstCursor, Searching
<1>4. r + 1 \in 1..m /\ NothingMatches(SubstFrom(r), substLog[r + 1][1])
  <2>1. r + 1 \in 1..m /\ (r + 1) - 1 = r
    BY <1>1, <1>2
  <2>2. NothingMatches(SubstFrom((r + 1) - 1), substLog[r + 1][1])
    BY <2>1 DEF ReplayInv, SubstLogInv
  <2> QED
    BY <2>1, <2>2
<1>5. substLog[r + 1][1] = at
  <2>1. CASE input.matchCallout
    <3> DEFINE q == matchQueue.replayed
    <3>1. q <= n /\ q >= 1 /\ matchLog[q][1] = at /\ matchLog[q][2] = "Pass"
      BY <2>1 DEF ReplayInv, MatchCursor, Searching
    <3>2. q \in 1..n
      BY <1>1, <3>1 DEF TypeOK, ReplayQueues
    <3>3. ~(at < substLog[r + 1][1])
      BY <1>3, <1>4, <2>1, <3>1, <3>2 DEF NothingMatches
    <3> QED
      BY <1>1, <1>3, <1>4, <3>3
  <2>2. CASE ~input.matchCallout
    BY <1>3, <1>4, <2>2 DEF NothingMatches
  <2> QED
    BY <2>1, <2>2
<1> QED
  BY <1>4, <1>5

LEMMA ReplaySubstStep ==
  ASSUME TypeOK, ReplayInv, ReplaySubstCallout
  PROVE  ReplayInv'
<1> DEFINE m == Len(substLog)
           n == Len(matchLog)
           r == substQueue.replayed
<1>1. /\ pc = "callout" /\ input.substCallout /\ ~buf.overflowed /\ CanDequeue(substQueue)
      /\ pc' \in {"match", "tail"} /\ at' = at + Width
      /\ UNCHANGED <<input, matchLog, matchQueue, substLog>>
      /\ substQueue'.results = substQueue.results /\ substQueue'.replayed = r + 1
  <2>1. substQueue' = Dequeue(substQueue) /\ substQueue \in ReplayQueues
    BY DEF ReplaySubstCallout, TypeOK
  <2>2. substQueue'.results = substQueue.results /\ substQueue'.replayed = r + 1
    BY <2>1 DEF Dequeue, ReplayQueues
  <2> QED
    BY <2>2 DEF ReplaySubstCallout, AfterSubstCallout, NextMatch, driver
<1>2. /\ m \in Nat /\ n \in Nat /\ r \in Nat /\ at \in Nat /\ Width \in Nat \ {0}
      /\ \A k \in 1..m : substLog[k][1] \in Nat
      /\ \A i \in 1..n : matchLog[i][1] \in Nat
  BY LogEntries, SubstituteAssumption DEF TypeOK, ReplayQueues
<1>3. r + 1 \in 1..m /\ r < m /\ substLog[r + 1][1] = at
  <2>1. r + 1 \in 1..m /\ substLog[r + 1][1] = at
    BY <1>1, ReplayedHere
  <2> QED
    BY <1>2, <2>1
<1>4. MatchLogInv' /\ MatchCursor' /\ SubstLogInv'
  BY <1>1, SearchGoesOn, KeptLogs DEF ReplayInv, LogsKept
<1>5. SubstCursor'
  <2>1. SubstFrom(substQueue.replayed)' = at'
    BY <1>1, <1>2, <1>3 DEF SubstFrom
  <2>2. at' \in Nat
    BY <1>1, <1>2
  <2>3. NothingMatches(at, at)'
    <3>1. \A i \in 1..n : ~(at' <= matchLog[i][1] /\ matchLog[i][1] < at')
      BY <1>2, <2>2
    <3> QED
      BY <1>1, <3>1 DEF NothingMatches
  <2>4. ASSUME r + 1 < m
        PROVE  at' <= substLog[(r + 1) + 1][1]
    <3>1. (r + 1) + 1 \in 1..m /\ ((r + 1) + 1) - 1 = r + 1 /\ r + 1 # 0
      BY <1>2, <2>4
    <3>2. SubstFrom(((r + 1) + 1) - 1) <= substLog[(r + 1) + 1][1]
      BY <3>1 DEF ReplayInv, SubstLogInv
    <3>3. SubstFrom(r + 1) = at'
      BY <1>1, <1>3, <3>1 DEF SubstFrom
    <3> QED
      BY <3>1, <3>2, <3>3
  <2> QED
    BY <1>1, <1>2, <1>3, <2>1, <2>2, <2>3, <2>4 DEF SubstCursor
<1> QED
  BY <1>4, <1>5 DEF ReplayInv

(* A new pass starts both replays from the beginning. *)
LEMMA NewPassStep ==
  ASSUME TypeOK, ReplayInv, CallSubstitute, pc' \in {"match", "returned"}
  PROVE  ReplayInv'
<1>1. /\ UNCHANGED <<input, matchLog, substLog>> /\ at' = input.start
      /\ matchQueue' = StartReplay(matchQueue) /\ substQueue' = StartReplay(substQueue)
  BY DEF CallSubstitute, history
<1>2. /\ matchQueue'.results = matchQueue.results /\ matchQueue'.replayed = 0
      /\ substQueue'.results = substQueue.results /\ substQueue'.replayed = 0
  BY <1>1 DEF TypeOK, StartReplay, ReplayQueues
<1>3. MatchLogInv' /\ SubstLogInv'
  BY <1>1, <1>2, KeptLogs DEF ReplayInv, LogsKept
<1>4. /\ Len(matchLog) \in Nat /\ Len(substLog) \in Nat /\ input.start \in Nat
      /\ \A i \in 1..Len(matchLog) : matchLog[i][1] \in Nat
  BY LogEntries, InputIsTyped DEF TypeOK
<1>5. MatchCursor'
  BY <1>1, <1>2, <1>4 DEF MatchCursor, TriedAt, Searching
<1>6. SubstCursor'
  <2>1. SubstFrom(substQueue.replayed)' = at'
    BY <1>1, <1>2 DEF SubstFrom
  <2>2. NothingMatches(at, at)'
    <3>1. \A i \in 1..Len(matchLog) : ~(at' <= matchLog[i][1] /\ matchLog[i][1] < at')
      BY <1>1, <1>4
    <3> QED
      BY <1>1, <3>1 DEF NothingMatches
  <2>3. 0 < Len(substLog) => input.start <= substLog[1][1]
    <3>1. 0 < Len(substLog) => 1 \in 1..Len(substLog)
      BY <1>4
    <3>2. SubstFrom(1 - 1) = input.start
      BY DEF SubstFrom
    <3> QED
      BY <3>1, <3>2 DEF ReplayInv, SubstLogInv
  <2> QED
    BY <1>1, <1>2, <1>4, <2>1, <2>2, <2>3 DEF SubstCursor
<1> QED
  BY <1>3, <1>5, <1>6 DEF ReplayInv

(* A step that ends a pass or is outside one. *)
LEMMA PassOverStep ==
  ASSUME ReplayInv, LogsKept, pc' \notin Searching
  PROVE  ReplayInv'
BY KeptLogs DEF ReplayInv, MatchCursor, SubstCursor

(* A step of a pass that consumes no answer. *)
LEMMA NoAnswerStep ==
  ASSUME ReplayInv, UNCHANGED <<input, queues, matchLog, substLog, at>>,
         buf'.overflowed \in BOOLEAN, buf.overflowed => buf'.overflowed,
         \/ pc = "match" /\ ~input.matchCallout /\ pc' \in {"case", "returned"}
         \/ pc = "case" /\ pc' \in {"callout", "returned"}
  PROVE  ReplayInv'
<1>1. MatchLogInv' /\ SubstLogInv'
  BY KeptLogs DEF ReplayInv, LogsKept, queues
<1>2. MatchCursor'
  BY DEF ReplayInv, MatchCursor, Searching, queues
<1>3. SubstCursor'
  BY DEF ReplayInv, SubstCursor, Searching, SubstFrom, NothingMatches, queues
<1> QED
  BY <1>1, <1>2, <1>3 DEF ReplayInv

LEMMA UnansweredMatchStep ==
  ASSUME TypeOK, ReplayInv, SkipSubstCallout \/ AssumeWorstCase
  PROVE  ReplayInv'
<1>1. /\ pc = "callout" /\ pc' \in {"match", "tail"} /\ at' = at + Width
      /\ UNCHANGED <<input, queues, matchLog, substLog>>
  BY DEF SkipSubstCallout, AssumeWorstCase, NextMatch, driver
<1>2. MatchLogInv' /\ MatchCursor' /\ SubstLogInv'
  BY <1>1, SearchGoesOn, KeptLogs DEF ReplayInv, LogsKept, queues
<1>3. CASE SkipSubstCallout
  BY <1>1, <1>2, <1>3 DEF SkipSubstCallout, SubstCursor, ReplayInv
<1>4. CASE AssumeWorstCase
  <2> DEFINE extra == IF Width - InsertedLength(buf) > 0
                      THEN buf.extra + (Width - InsertedLength(buf)) ELSE buf.extra
  <2>1. buf' = [buf EXCEPT !.extra = extra] /\ buf.overflowed
    BY <1>4 DEF AssumeWorstCase, NextMatch
  <2> HIDE DEF extra
  <2>2. buf'.overflowed
    BY <2>1 DEF TypeOK
  <2> QED
    BY <1>2, <2>2 DEF SubstCursor, ReplayInv
<1> QED
  BY <1>3, <1>4

LEMMA EngineStepReplay ==
  ASSUME TypeOK, HeapInv, ReplayInv, ~input.faulty, EngineStep
  PROVE  ReplayInv'
<1>1. /\ buf.overflowed => buf'.overflowed
      /\ buf'.overflowed \in BOOLEAN
  BY EngineStepIsPassStep DEF PassStep, BufferStep, PassBuffers
<1>2. CASE MatchWithoutCallout
  BY <1>1, <1>2, NoAnswerStep
    DEF MatchWithoutCallout, CanMatch, Matched, Write, driver, history
<1>3. CASE Cased
  <2>1. /\ pc = "case" /\ pc' \in {"callout", "returned"}
        /\ UNCHANGED <<input, queues, matchLog, substLog, at>>
    BY <1>3 DEF Cased, SkipForceCase, GuessCase, RunCaseCallout, driver, engine, history
  <2> QED
    BY <1>1, <2>1, NoAnswerStep
<1>4. CASE NoMatch \/ SearchFails \/ FinishPass
  <2>1. pc' \notin Searching /\ UNCHANGED <<input, queues, matchLog, substLog>>
    BY <1>4 DEF NoMatch, SearchFails, FinishPass, driver, history, Searching
  <2> QED
    BY <2>1, PassOverStep DEF LogsKept, queues
<1>5. CASE ReplayMatchCallout
  BY <1>1, <1>5, ReplayMatchStep
<1>6. CASE RunMatchCallout
  BY <1>1, <1>6, RunMatchStep
<1>7. CASE Answered
  BY <1>7, UnansweredMatchStep, ReplaySubstStep, RunSubstStep DEF Answered
<1> QED
  BY <1>2, <1>3, <1>4, <1>5, <1>6, <1>7 DEF EngineStep, Tried

-----------------------------------------------------------------------------
(* The invariant. *)

LEMMA InitInv == Init => Inv
<1> SUFFICES ASSUME Init PROVE Inv
  OBVIOUS
<1>1. input \in Inputs /\ input \in InputType
  BY SubstituteAssumption DEF Init
<1>2. /\ matchLog = << >> /\ substLog = << >> /\ Len(matchLog) = 0 /\ Len(substLog) = 0
      /\ matchLog \in AnswerLogs /\ substLog \in AnswerLogs
  BY EmptySeq DEF Init, AnswerLogs
<1>3. QueueInit \in ReplayQueues /\ Len(QueueInit.results) = 0
  BY EmptySeq DEF QueueInit, ReplayQueues
<1>4. TypeOK
  <2>1. buf \in [out : Seq(Tokens), length : Nat, extra : Nat, overflowed : BOOLEAN]
    BY EmptySeq DEF Init, EmptyBuffer
  <2>2. bufferLength \in Nat /\ outputLength \in Nat /\ pos \in Nat /\ at \in Nat
        /\ mark \in [offset : Nat, extra : Nat] /\ global \in BOOLEAN
        /\ block \in [state : {"none", "live", "freed", "corrupt"}, size : Nat]
    BY <1>1 DEF Init, InputType
  <2>3. outcome.kind = "none" /\ matchQueue \in ReplayQueues /\ substQueue \in ReplayQueues
    BY <1>3 DEF Init
  <2>4. /\ pc \in Passes /\ output \in {"null", "stack", "heap"}
        /\ calls \in Nat /\ rc \in Int /\ subs \in Nat
    BY DEF Init, Passes
  <2>5. onHeap \in BOOLEAN /\ exn \in BOOLEAN
    BY DEF Init
  <2> QED
    BY <1>1, <1>2, <2>1, <2>2, <2>3, <2>4, <2>5 DEF TypeOK
<1>5. HeapInv
  BY <1>1 DEF Init, HeapInv, InPass, Passes, Capacity, InputType
<1>6. ExnInv
  BY <1>2 DEF Init, ExnInv, Threw
<1>7. ReplayInv
  BY <1>2, <1>3 DEF Init, ReplayInv, MatchLogInv, MatchCursor, SubstLogInv, SubstCursor,
                    RunsInOrder, Searching
<1> QED
  BY <1>4, <1>5, <1>6, <1>7 DEF Inv

LEMMA StepInv == Inv /\ [Next]_vars => Inv'
<1> SUFFICES ASSUME Inv, [Next]_vars PROVE Inv'
  OBVIOUS
<1>1. CASE CallSubstitute
  BY <1>1, CallSubstituteInv, NewPassStep DEF Inv, CallSubstitute
<1>2. CASE EngineStep
  <2>1. input' = input
    BY <1>2, EngineStepIsPassStep DEF Inv, PassStep, driver
  <2> QED
    BY <1>2, <2>1, EngineStepInv, EngineStepReplay DEF Inv
<1>3. CASE DriverStep
  <2>1. LogsKept /\ pc' \notin Searching
    BY <1>3, DriverStepFrame DEF Inv, LogsKept, Searching
  <2> QED
    BY <1>3, <2>1, DriverStepInv, PassOverStep DEF Inv, LogsKept
<1>4. CASE UNCHANGED vars
  <2>1. UNCHANGED <<TypeOK, HeapInv, ExnInv, ReplayInv>>
    BY <1>4 DEF vars, TypeOK, HeapInv, ExnInv, ReplayInv, MatchLogInv, MatchCursor,
                SubstLogInv, SubstCursor, Capacity, TriedAt, SubstFrom, NothingMatches, IsMatch
  <2> QED
    BY <1>4, <2>1 DEF Inv, vars
<1> QED
  BY <1>1, <1>2, <1>3, <1>4 DEF Next, EngineStep, DriverStep, Tried, Cased, Answered, Done

LEMMA Invariance == Spec => []Inv
BY InitInv, StepInv, PTL DEF Spec

(* Every variable of a call of Substitute keeps its type. *)
THEOREM SubstituteTypeOK == Spec => []TypeOK
<1>1. Inv => TypeOK
  BY DEF Inv
<1> QED
  BY <1>1, Invariance, PTL

(* Whatever fails in a call, its output is freed once if it is on the heap *)
(* and never if it is the caller's buffer, and nothing is left behind:     *)
(* free_result_memory and the finally block of                             *)
(* InternalRegex16Bit.Substitute.                                          *)
THEOREM SubstituteHeapSafe == Spec => []HeapSafe
<1>1. Inv => HeapSafe
  BY DEF Inv, HeapInv, HeapSafe
<1> QED
  BY <1>1, Invariance, PTL

(* No pass writes past the memory that result->output points to, whichever *)
(* buffer a retry has switched to.                                         *)
THEOREM SubstituteWritesInBounds == Spec => []WritesInBounds
<1>1. Inv => WritesInBounds
  BY DEF Inv, HeapInv, WritesInBounds, InPass, Passes
<1> QED
  BY <1>1, Invariance, PTL

(* An exception thrown by a match or substitution callout reaches the      *)
(* caller of Substitute.                                                   *)
THEOREM SubstituteExceptionSurfaces == Spec => []ExceptionSurfaces
<1>1. Inv => ExceptionSurfaces
  BY DEF Inv, ExnInv, ExceptionSurfaces
<1> QED
  BY <1>1, Invariance, PTL

(* However many passes a call takes, the match callout runs at most once   *)
(* for a position and the substitution callout at most once for a match,   *)
(* in order, if every answer could be queued.                              *)
THEOREM SubstituteCalloutsRunOnce == Spec => []CalloutsRunOnce
<1>1. Inv => CalloutsRunOnce
  BY DEF Inv, ReplayInv, MatchLogInv, SubstLogInv, CalloutsRunOnce
<1> QED
  BY <1>1, Invariance, PTL
=============================================================================
