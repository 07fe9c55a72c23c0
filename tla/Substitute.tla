------------------------------ MODULE Substitute ------------------------------
(***************************************************************************)
(* PcreRegex.Substitute, from the managed call down to pcre2_substitute.   *)
(*                                                                         *)
(* The native driver (pcrenet_substitute.c) calls pcre2_substitute with    *)
(* the caller's buffer; when the output does not fit it allocates a larger *)
(* one and starts over, replaying the answers of the callouts it has run.  *)
(* pcre2_substitute is modelled over a pattern that can match Width units  *)
(* at every position and calls out once for each position it tries.        *)
(* Every step of one call is an action; the answers of the user's callouts *)
(* and the outcome of every allocation are chosen by the environment.      *)
(***************************************************************************)
EXTENDS ReplayQueue

CONSTANTS
  Inputs,          \* the calls: records of the set InputType
  Width,           \* length of every match
  CaseSlack,       \* constant of pessimistic_case_inflation: 10 in the code
  MatchAnswers,    \* what a match callout may do: subset of Answers
  SubstAnswers,    \* what a substitution callout may do: subset of Answers
  CaseLengths,     \* lengths a case callout may return
  CaseFailures,    \* "null" and "throw", when the case callout may fail
  SearchErrors,    \* errors pcre2_match may return: negative codes
  PCRE2_UNSET      \* ~(PCRE2_SIZE)0: more than malloc can return

Answers == {"Pass", "Fail", "Abort", "Throw"}

(* A call; faulty when allocations and searches may fail during it. *)
InputType ==
  [length : Nat, start : Nat, replacement : Nat, buffer : Nat,
   global : BOOLEAN, replacementOnly : BOOLEAN,
   matchCallout : BOOLEAN, substCallout : BOOLEAN, caseCallout : BOOLEAN,
   faulty : BOOLEAN]

ASSUME SubstituteAssumption ==
  /\ Inputs \subseteq InputType
  /\ Width \in Nat \ {0}
  /\ CaseSlack \in Nat
  /\ MatchAnswers \subseteq Answers
  /\ SubstAnswers \subseteq Answers
  /\ CaseLengths \subseteq Nat
  /\ CaseFailures \subseteq {"null", "throw"}
  /\ SearchErrors \subseteq {e \in Int : e < -2}
  /\ PCRE2_UNSET \in Nat

(* PcreRegex.Substitute throws for a start outside the subject. *)
ASSUME StartAssumption == \A c \in Inputs : c.start <= c.length

PCRE2_ERROR_NOMATCH     == -1
PCRE2_ERROR_NOMEMORY    == -48
PCRE2_ERROR_REPLACECASE == -69

(* Bound: passes are counted up to 3, since the driver only asks whether a *)
(* pass is the first one.                                                  *)
MaxCalls == 3

VARIABLES
  input,         \* the call (constant after Init)
  pc,            \* where the call is
  calls,         \* substitute_call_count
  output,        \* result->output: "null", "stack" or "heap"
  onHeap,        \* result->output_on_heap
  block,         \* the heap block: its state and its size in units
  bufferLength,  \* buffer_length of substitute_with_callout
  outputLength,  \* output_length, overwritten by pcre2_substitute
  rc,            \* result->result_code
  buf,           \* the pass's buffer: its length, what is in it, extra_needed
  mark,          \* where the current insertion begins in buf
  pos,           \* start_offset: end of the last match
  at,            \* position pcre2_match tries next
  subs,          \* substitutions counted by this pass
  global,        \* PCRE2_SUBSTITUTE_GLOBAL still set in this pass
  matchQueue, substQueue,  \* the two replay queues
  matchLog, substLog,      \* history: the user's answers, <<position, answer>>
  caseLen,       \* history: last length returned for the match at a position
  exn,           \* interopInfo.Exception # null
  outcome        \* what the caller of Substitute gets

vars == <<input, pc, calls, output, onHeap, block, bufferLength, outputLength,
          rc, buf, mark, pos, at, subs, global, matchQueue, substQueue,
          matchLog, substLog, caseLen, exn, outcome>>

engine  == <<buf, mark, pos, at, subs, global>>
queues  == <<matchQueue, substQueue>>
history == <<matchLog, substLog, caseLen>>
driver  == <<input, calls, output, onHeap, block, bufferLength>>

-----------------------------------------------------------------------------
(* The text a pass writes, one token for each code unit. *)

Terminator_Missing == << >>                                    \* mutant

Terminator == <<<<"zero", 0>>>>

SubjectText(from, to) == [i \in 1..(to - from) |-> <<"subject", from + i - 1>>]

Inserted(p, n) == [i \in 1..n |-> <<"inserted", p>>]

EmptyBuffer(length) ==
  [out |-> << >>, length |-> length, extra |-> 0, overflowed |-> FALSE]

CheckMemCpy_LastOnly(b, text) ==                               \* mutant
  LET left == b.length - Len(b.out) IN
  IF b.overflowed
  THEN [b EXCEPT !.extra = Len(text)]
  ELSE IF left < Len(text)
  THEN [b EXCEPT !.overflowed = TRUE, !.extra = Len(text) - left]
  ELSE [b EXCEPT !.out = @ \o text]

CheckMemCpy_OffByOne(b, text) ==                               \* mutant
  LET left == b.length - Len(b.out) IN
  IF b.overflowed
  THEN [b EXCEPT !.extra = @ + Len(text)]
  ELSE IF left < Len(text)
  THEN [b EXCEPT !.overflowed = TRUE, !.extra = Len(text) - left - 1]
  ELSE [b EXCEPT !.out = @ \o text]

CheckMemCpy(b, text) ==
  LET left == b.length - Len(b.out) IN
  IF b.overflowed
  THEN [b EXCEPT !.extra = @ + Len(text)]
  ELSE IF left < Len(text)
  THEN [b EXCEPT !.overflowed = TRUE, !.extra = Len(text) - left]
  ELSE [b EXCEPT !.out = @ \o text]

Rewind(b) == [b EXCEPT !.out = SubSeq(@, 1, mark.offset)]

InsertedLength(b) == (Len(b.out) - mark.offset) + (b.extra - mark.extra)

PessimisticCaseInflation(n) == (n \div 8) + CaseSlack

(* Text of the subject, which is left out with REPLACEMENT_ONLY. *)
Kept(from, to) ==
  IF input.replacementOnly THEN << >> ELSE SubjectText(from, to)

HasCallout == input.matchCallout \/ input.substCallout \/ input.caseCallout

(* Only the second pass of substitute_simple runs without                  *)
(* PCRE2_SUBSTITUTE_OVERFLOW_LENGTH.                                       *)
OverflowLength(call) == HasCallout \/ call = 1

(* Store b and go to next, unless the pass must stop at an overflow. *)
Write(b, next, call) ==
  /\ buf' = b
  /\ IF b.overflowed /\ ~OverflowLength(call)
     THEN pc' = "returned" /\ rc' = PCRE2_ERROR_NOMEMORY
     ELSE pc' = next /\ UNCHANGED rc

-----------------------------------------------------------------------------
Init ==
  /\ input \in Inputs
  /\ pc = "call"
  /\ calls = 0
  /\ output = "stack" /\ onHeap = FALSE
  /\ block = [state |-> "none", size |-> 0]
  /\ bufferLength = input.buffer /\ outputLength = input.buffer
  /\ rc = 0
  /\ buf = EmptyBuffer(0) /\ mark = [offset |-> 0, extra |-> 0]
  /\ pos = 0 /\ at = 0 /\ subs = 0 /\ global = input.global
  /\ matchQueue = QueueInit /\ substQueue = QueueInit
  /\ matchLog = << >> /\ substLog = << >> /\ caseLen = << >>
  /\ exn = FALSE
  /\ outcome = [kind |-> "none", text |-> << >>]

(* The head of the loop of substitute_with_callout, or one of the calls of *)
(* substitute_simple, up to the first search.                              *)
CallSubstitute ==
  /\ pc = "call"
  /\ calls' = IF calls < MaxCalls THEN calls + 1 ELSE calls
  /\ matchQueue' = StartReplay(matchQueue)
  /\ substQueue' = StartReplay(substQueue)
  /\ outputLength' = PCRE2_UNSET
  /\ Write(CheckMemCpy(EmptyBuffer(outputLength), Kept(0, input.start)),
           "match", calls')
  /\ pos' = input.start /\ at' = input.start
  /\ subs' = 0 /\ global' = input.global
  /\ UNCHANGED <<input, output, onHeap, block, bufferLength, mark,
                 history, exn, outcome>>

-----------------------------------------------------------------------------
(* pcre2_match, one action for each position it tries. *)

CanMatch == pc = "match" /\ at + Width <= input.length

(* The match at position at is found: copy the text before it and insert   *)
(* the replacement.                                                        *)
Matched ==
  LET before == CheckMemCpy(buf, Kept(pos, at)) IN
  /\ subs' = subs + 1
  /\ mark' = [offset |-> Len(before.out), extra |-> before.extra]
  /\ Write(CheckMemCpy(before, Inserted(at, input.replacement)),
           "case", calls)
  /\ UNCHANGED <<at, outputLength>>

(* What pcre2_match does with the result of the callout at this position.  *)
AfterMatchCallout(result) ==
  \/ result = 0 /\ Matched
  \/ /\ result > 0
     /\ at' = at + 1
     /\ UNCHANGED <<pc, rc, buf, mark, subs, outputLength>>
  \/ /\ result < 0
     /\ pc' = "tail"
     /\ UNCHANGED <<at, rc, buf, mark, subs, outputLength>>

MatchWithoutCallout ==
  /\ CanMatch /\ ~input.matchCallout
  /\ Matched
  /\ UNCHANGED <<driver, pos, global, queues, history, exn, outcome>>

ReplayMatchCallout ==
  /\ CanMatch /\ input.matchCallout
  /\ CanDequeue(matchQueue)
  /\ matchQueue' = Dequeue(matchQueue)
  /\ AfterMatchCallout(ByteToInt(Dequeued(matchQueue)))
  /\ UNCHANGED <<driver, pos, global, substQueue, history, exn, outcome>>

(* What the managed handler returns: a thrown exception is kept for later  *)
(* and turned into Abort.                                                  *)
HandlerResult(answer) ==
  IF answer = "Pass" THEN 0 ELSE IF answer = "Fail" THEN 1 ELSE -1

QueueGrowth == IF input.faulty THEN BOOLEAN ELSE {TRUE}

RunMatchCallout ==
  /\ CanMatch /\ input.matchCallout
  /\ ~CanDequeue(matchQueue)
  /\ \E answer \in MatchAnswers, grown \in QueueGrowth :
       LET result == IntToByte(HandlerResult(answer)) IN
       /\ exn' = (exn \/ answer = "Throw")
       /\ matchLog' = Append(matchLog, <<at, answer>>)
       /\ matchQueue' = TryEnqueue(matchQueue, result, grown)
       /\ AfterMatchCallout(result)
  /\ UNCHANGED <<driver, pos, global, substQueue, substLog, caseLen, outcome>>

NoMatch ==
  /\ pc = "match" /\ ~CanMatch
  /\ pc' = "tail"
  /\ UNCHANGED <<driver, outputLength, rc, engine, queues, history, exn,
                 outcome>>

(* pcre2_match fails: *blength keeps the value PCRE2_UNSET. *)
SearchFails ==
  /\ pc = "match" /\ at = pos /\ input.faulty
  /\ \E e \in SearchErrors : rc' = e
  /\ pc' = "returned"
  /\ UNCHANGED <<driver, outputLength, engine, queues, history, exn, outcome>>

-----------------------------------------------------------------------------
(* DELAYEDFORCECASE over a replacement whose case is forced as a whole.    *)

SkipForceCase ==
  /\ pc = "case"
  /\ ~input.caseCallout \/ InsertedLength(buf) = 0
  /\ pc' = "callout"
  /\ UNCHANGED <<driver, outputLength, rc, engine, queues, history, exn,
                 outcome>>

GuessCase ==
  /\ pc = "case"
  /\ input.caseCallout /\ InsertedLength(buf) > 0
  /\ buf.overflowed
  /\ buf' = [buf EXCEPT !.extra =
               @ + PessimisticCaseInflation(InsertedLength(buf))]
  /\ pc' = "callout"
  /\ UNCHANGED <<driver, outputLength, rc, mark, pos, at, subs, global, queues,
                 history, exn, outcome>>

RunCaseCallout ==
  /\ pc = "case"
  /\ input.caseCallout /\ InsertedLength(buf) > 0
  /\ ~buf.overflowed
  /\ \/ \E n \in CaseLengths :
          /\ buf' = CheckMemCpy(Rewind(buf), Inserted(at, n))
          /\ caseLen' = [p \in DOMAIN caseLen \cup {at} |->
                           IF p = at THEN n ELSE caseLen[p]]
          /\ pc' = "callout"
          /\ UNCHANGED <<rc, exn>>
     \/ \E f \in CaseFailures :
          /\ exn' = (exn \/ f = "throw")
          /\ rc' = PCRE2_ERROR_REPLACECASE
          /\ pc' = "returned"
          /\ UNCHANGED <<buf, caseLen>>
  /\ UNCHANGED <<driver, outputLength, mark, pos, at, subs, global, queues,
                 matchLog, substLog, outcome>>

-----------------------------------------------------------------------------
(* The substitution callout, then the step to the next match. *)

NextMatch(b, again) ==
  /\ buf' = b
  /\ global' = again
  /\ pos' = at + Width /\ at' = at + Width
  /\ pc' = IF again THEN "match" ELSE "tail"
  /\ UNCHANGED <<driver, outputLength, rc, mark, subs, caseLen, outcome>>

(* What pcre2_substitute does with the result of the callout: a non-zero   *)
(* result puts the matched text back, a negative one also stops.           *)
AfterSubstCallout(result) ==
  NextMatch(IF result = 0 THEN buf
            ELSE CheckMemCpy(Rewind(buf), Kept(at, at + Width)),
            global /\ result >= 0)

SkipSubstCallout ==
  /\ pc = "callout" /\ ~input.substCallout
  /\ NextMatch(buf, global)
  /\ UNCHANGED <<queues, matchLog, substLog, exn>>

(* No callout once the buffer has overflowed: ask for the larger of what   *)
(* accepting and rejecting would need.                                     *)
AssumeWorstCase ==
  LET spare == Width - InsertedLength(buf) IN
  /\ pc = "callout" /\ input.substCallout
  /\ buf.overflowed
  /\ NextMatch([buf EXCEPT !.extra = IF spare > 0 THEN @ + spare ELSE @],
               global)
  /\ UNCHANGED <<queues, matchLog, substLog, exn>>

ReplaySubstCallout ==
  /\ pc = "callout" /\ input.substCallout
  /\ ~buf.overflowed /\ CanDequeue(substQueue)
  /\ substQueue' = Dequeue(substQueue)
  /\ AfterSubstCallout(ByteToInt(Dequeued(substQueue)))
  /\ UNCHANGED <<matchQueue, matchLog, substLog, exn>>

RunSubstCallout ==
  /\ pc = "callout" /\ input.substCallout
  /\ ~buf.overflowed /\ ~CanDequeue(substQueue)
  /\ \E answer \in SubstAnswers, grown \in QueueGrowth :
       LET result == IntToByte(HandlerResult(answer)) IN
       /\ exn' = (exn \/ answer = "Throw")
       /\ substLog' = Append(substLog, <<at, answer>>)
       /\ substQueue' = TryEnqueue(substQueue, result, grown)
       /\ AfterSubstCallout(result)
  /\ UNCHANGED <<matchQueue, matchLog>>

-----------------------------------------------------------------------------
(* The rest of the subject and the terminating zero, then the return code  *)
(* and *blength.                                                           *)
FinishPass ==
  LET b == CheckMemCpy(CheckMemCpy(buf, Kept(pos, input.length)), Terminator) IN
  /\ pc = "tail"
  /\ buf' = b
  /\ pc' = "returned"
  /\ \/ /\ ~b.overflowed
        /\ rc' = subs /\ outputLength' = Len(b.out) - 1
     \/ /\ b.overflowed
        /\ rc' = PCRE2_ERROR_NOMEMORY
        /\ outputLength' = IF OverflowLength(calls) THEN b.length + b.extra
                           ELSE outputLength
  /\ UNCHANGED <<driver, mark, pos, at, subs, global, queues, history, exn,
                 outcome>>

-----------------------------------------------------------------------------
(* The driver, when pcre2_substitute has returned. *)

Malloc(length) ==
  IF length >= PCRE2_UNSET THEN {FALSE}
  ELSE IF input.faulty THEN BOOLEAN ELSE {TRUE}

Allocated_InBytes(size) == [state |-> "live", size |-> size \div 2]  \* mutant

Allocated(size) == [state |-> "live", size |-> size]

(* Freeing or reallocating anything but a live block corrupts the heap. *)
Freed(b) == [b EXCEPT !.state = IF @ = "live" THEN "freed" ELSE "corrupt"]

Reallocated(b, size) == IF b.state = "live" THEN Allocated(size) ELSE Freed(b)

MaxSize(a, b) == IF a > b THEN a ELSE b

GrownBuffer_Same == bufferLength                               \* mutant

GrownBuffer ==
  MaxSize(outputLength, MaxSize(2 * bufferLength, 2 * input.length))

(* What a unit of the subject of call c adds at most to the length that is *)
(* asked for: itself, or a match with its replacement, a case callout that *)
(* returns n units, the guess of what it would, and the match put back.    *)
UnitCost(c, n) ==
  1 + Width + c.replacement + n + PessimisticCaseInflation(c.replacement)

MostNeeded(c, n) == (MaxSize(c.start, c.length) + 1) * UnitCost(c, n)

(* What a call may ask for, twice over, is less than what a size_t counts: *)
(* a .NET string has fewer than 2^30 units, and this is below 2^63.        *)
ASSUME SizeAssumption ==
  \A c \in Inputs, n \in CaseLengths \cup {0} : 2 * MostNeeded(c, n) < PCRE2_UNSET

FreeResultMemory_KeepsFlag ==                                  \* mutant
  /\ UNCHANGED <<output, onHeap>>
  /\ block' = IF output # "null" /\ onHeap THEN Freed(block) ELSE block

(* free_result_memory *)
FreeResultMemory ==
  /\ output' = "null" /\ onHeap' = FALSE
  /\ block' = IF output # "null" /\ onHeap THEN Freed(block) ELSE block

Succeeded ==
  /\ pc = "returned" /\ rc >= 0
  /\ pc' = "managed"
  /\ UNCHANGED <<driver, outputLength, rc, engine, queues, history, exn,
                 outcome>>

CanRetry == rc = PCRE2_ERROR_NOMEMORY /\ (HasCallout \/ calls = 1)

Failed ==
  /\ pc = "returned" /\ rc < 0 /\ ~CanRetry
  /\ FreeResultMemory
  /\ pc' = "managed"
  /\ UNCHANGED <<input, calls, bufferLength, outputLength, rc, engine, queues,
                 history, exn, outcome>>

(* The second pass of substitute_simple gets exactly what the first asked. *)
AllocateExact ==
  /\ pc = "returned" /\ CanRetry /\ ~HasCallout
  /\ \E ok \in Malloc(outputLength) :
       IF ok
       THEN /\ output' = "heap" /\ onHeap' = TRUE
            /\ block' = Allocated(outputLength)
            /\ pc' = "call"
       ELSE output' = "null" /\ pc' = "managed" /\ UNCHANGED <<onHeap, block>>
  /\ UNCHANGED <<input, calls, bufferLength, outputLength, rc, engine, queues,
                 history, exn, outcome>>

(* malloc the first time, realloc afterwards. *)
AllocateLarger ==
  /\ pc = "returned" /\ CanRetry /\ HasCallout
  /\ bufferLength' = GrownBuffer
  /\ \E ok \in Malloc(GrownBuffer) :
       \/ /\ ok
          /\ output' = "heap" /\ onHeap' = TRUE
          /\ block' = IF onHeap THEN Reallocated(block, GrownBuffer)
                      ELSE Allocated(GrownBuffer)
          /\ outputLength' = GrownBuffer
          /\ pc' = "call"
       \/ /\ ~ok /\ ~onHeap
          /\ output' = "null" /\ pc' = "managed"
          /\ UNCHANGED <<onHeap, block, outputLength>>
       \/ /\ ~ok /\ onHeap
          /\ FreeResultMemory
          /\ pc' = "managed"
          /\ UNCHANGED outputLength
  /\ UNCHANGED <<input, calls, rc, engine, queues, history, exn, outcome>>

-----------------------------------------------------------------------------
(* InternalRegex16Bit.Substitute, after the native call: the result, then  *)
(* the finally block.                                                      *)
Outcome_ResultFirst ==                                         \* mutant
  IF rc < 0 THEN [kind |-> "error", text |-> << >>]
  ELSE IF rc = 0 THEN [kind |-> "string", text |-> Kept(0, input.length)]
  ELSE [kind |-> "string", text |-> SubSeq(buf.out, 1, outputLength)]

Outcome ==
  IF exn THEN [kind |-> "exception", text |-> << >>]
  ELSE IF rc < 0 THEN [kind |-> "error", text |-> << >>]
  ELSE IF rc = 0 THEN [kind |-> "string", text |-> Kept(0, input.length)]
  ELSE [kind |-> "string", text |-> SubSeq(buf.out, 1, outputLength)]

Return ==
  /\ pc = "managed"
  /\ outcome' = Outcome
  /\ IF output # "null" /\ onHeap THEN FreeResultMemory
     ELSE UNCHANGED <<output, onHeap, block>>
  /\ pc' = "done"
  /\ UNCHANGED <<input, calls, bufferLength, outputLength, rc, engine, queues,
                 history, exn>>

Done == pc = "done" /\ UNCHANGED vars

Next ==
  \/ CallSubstitute
  \/ MatchWithoutCallout \/ ReplayMatchCallout \/ RunMatchCallout
  \/ NoMatch \/ SearchFails
  \/ SkipForceCase \/ GuessCase \/ RunCaseCallout
  \/ SkipSubstCallout \/ AssumeWorstCase
  \/ ReplaySubstCallout \/ RunSubstCallout
  \/ FinishPass
  \/ Succeeded \/ Failed \/ AllocateExact \/ AllocateLarger
  \/ Return \/ Done

Spec == Init /\ [][Next]_vars

(* The call runs on one thread, which keeps running. *)
FairSpec == Spec /\ WF_vars(Next)

-----------------------------------------------------------------------------
(* Properties. *)

Passes == {"call", "match", "case", "callout", "tail", "returned"}

AnswerLogs == Seq(Nat \X Answers)

Tokens == {"subject", "inserted", "zero"} \X Nat

(* Every variable has its type. *)
TypeOK ==
  /\ input \in Inputs
  /\ pc \in Passes \cup {"managed", "done"}
  /\ calls \in Nat
  /\ output \in {"null", "stack", "heap"}
  /\ onHeap \in BOOLEAN
  /\ block \in [state : {"none", "live", "freed", "corrupt"}, size : Nat]
  /\ bufferLength \in Nat /\ outputLength \in Nat
  /\ rc \in Int
  /\ buf \in [out : Seq(Tokens), length : Nat, extra : Nat, overflowed : BOOLEAN]
  /\ mark \in [offset : Nat, extra : Nat]
  /\ pos \in Nat /\ at \in Nat /\ subs \in Nat
  /\ global \in BOOLEAN /\ exn \in BOOLEAN
  /\ matchQueue \in ReplayQueues /\ substQueue \in ReplayQueues
  /\ matchLog \in AnswerLogs /\ substLog \in AnswerLogs
  /\ outcome.kind \in {"none", "string", "error", "exception"}

(* The output is freed exactly once when it is on the heap, never when it  *)
(* is the caller's buffer, and nothing is left behind when the managed     *)
(* call returns: free_result_memory, and the finally block of              *)
(* InternalRegex16Bit.Substitute.                                          *)
HeapSafe ==
  /\ block.state # "corrupt"
  /\ onHeap <=> block.state = "live"
  /\ onHeap => output = "heap"
  /\ pc = "done" => ~onHeap

Capacity == IF output = "stack" THEN input.buffer ELSE block.size

(* A pass never writes past the memory result->output points to, whichever *)
(* buffer a retry has switched to, and only writes to memory it has.       *)
WritesInBounds ==
  pc \in Passes \ {"call"} =>
    /\ output # "null" /\ (output = "heap" => block.state = "live")
    /\ Len(buf.out) <= Capacity

RunsInOrder(log) ==
  \A i, j \in 1..Len(log) : i < j => log[i][1] < log[j][1]

(* However many passes a substitution takes, the user's match callout runs *)
(* at most once for a position and the substitution callout at most once   *)
(* for a match, from left to right (the tests                              *)
(* should_execute_each_match_callout_once and                              *)
(* should_execute_each_substitute_callout_once), unless an answer was lost *)
(* to a queue that could not grow.                                         *)
CalloutsRunOnce ==
  ~input.faulty => RunsInOrder(matchLog) /\ RunsInOrder(substLog)

(* The estimate of the first pass is enough for the second: without a case *)
(* callout no call takes a third pass, whatever the callouts answer once   *)
(* the second pass can run them.                                           *)
TwoPassesAreEnough == ~input.caseCallout /\ ~input.faulty => calls <= 2

(* The caller sees an error only for a failed allocation, a failed search  *)
(* or a case callout that returned null; in particular the exact buffer of *)
(* substitute_simple's second pass is never too small.                     *)
NoSpuriousError ==
  pc = "done" /\ outcome.kind = "error" =>
    \/ rc \in SearchErrors \cup {PCRE2_ERROR_NOMEMORY} /\ input.faulty
    \/ rc = PCRE2_ERROR_REPLACECASE /\ "null" \in CaseFailures

Threw(log) == \E i \in 1..Len(log) : log[i][2] = "Throw"

(* An exception thrown by a callout reaches the caller of Substitute, also *)
(* when later callouts run and the substitution itself succeeds.           *)
ExceptionSurfaces ==
  pc = "done" /\ (Threw(matchLog) \/ Threw(substLog)) =>
    outcome.kind = "exception"

AnswerAt(log, p) ==
  IF \E i \in 1..Len(log) : log[i][1] = p
  THEN log[CHOOSE i \in 1..Len(log) : log[i][1] = p][2]
  ELSE "Pass"

ReplacementAt(p, lengths) ==
  Inserted(p, IF input.caseCallout /\ p \in DOMAIN lengths THEN lengths[p]
              ELSE input.replacement)

(* The text from position p on, as rest gives it for the positions after   *)
(* p: it depends on the answers of the callouts alone, and on no buffer,   *)
(* pass or queue.                                                          *)
TextAt(rest, matches, substs, lengths, p) ==
  LET match == AnswerAt(matches, p)
      subst == AnswerAt(substs, p)
      text  == IF subst = "Pass" THEN ReplacementAt(p, lengths) ELSE Kept(p, p + Width)
      after == IF input.global THEN rest[p + Width] ELSE Kept(p + Width, input.length)
  IN IF p + Width > input.length \/ match = "Abort" THEN Kept(p, input.length)
     ELSE IF match = "Fail" THEN Kept(p, p + 1) \o rest[p + 1]
     ELSE IF subst = "Abort" THEN Kept(p, input.length)
     ELSE text \o after

TextFrom(matches, substs, lengths) ==
  LET Rest[p \in 0..input.length] == TextAt(Rest, matches, substs, lengths, p) IN Rest

(* The text a substitution should give. *)
Documented ==
  Kept(0, input.start) \o TextFrom(matchLog, substLog, caseLen)[input.start]

(* PcreCalloutResult.Abort, "Fail the whole match.": no other position is  *)
(* tried; PcreSubstituteCalloutResult.Abort, "Reject the current            *)
(* substitution and stop looking for the next match": no other match is    *)
(* looked for.                                                             *)
NothingAfterAbort ==
  \A log \in {matchLog, substLog} :
    \A i \in 1..Len(log) : log[i][2] = "Abort" => i = Len(log)

(* The string the caller gets depends on what the callouts answered and    *)
(* not on how many passes, buffers and replays it took to build it, unless *)
(* a callout has run after one that aborted.                               *)
ResultAsDocumented ==
  pc = "done" /\ outcome.kind = "string" /\ ~input.faulty /\ NothingAfterAbort =>
    outcome.text = Documented

(* Every call returns, whatever the case callout makes of the replacement: *)
(* each retry has a buffer larger than the one before.                     *)
Terminates == <>(pc = "done")
=============================================================================
