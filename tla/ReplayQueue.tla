----------------------------- MODULE ReplayQueue -----------------------------
(***************************************************************************)
(* The replay queue of pcrenet_substitute.c: the results of the callouts   *)
(* run by an earlier pass of a substitution, handed out again in order so  *)
(* that a later pass does not run the user's code twice.  A result is      *)
(* stored as a byte (0, 1 or 2) and read back as 0, 1 or -1.               *)
(***************************************************************************)
EXTENDS Integers, Sequences

CONSTANT QueueStart      \* bytes of the first allocation: 64 in the code

ASSUME QueueStartAssumption == QueueStart \in Nat \ {0}

Byte == 0..2

ReplayQueues == [size : Nat, results : Seq(Byte), replayed : Nat]

QueueInit == [size |-> 0, results |-> << >>, replayed |-> 0]

StartReplay_Forgets(q) == QueueInit                            \* mutant

StartReplay(q) == [q EXCEPT !.replayed = 0]

CanDequeue(q) == q.replayed < Len(q.results)

Dequeued(q) == q.results[q.replayed + 1]

Dequeue(q) == [q EXCEPT !.replayed = @ + 1]

IsFull(q) == Len(q.results) = q.size

GrownSize(q) == IF 2 * q.size > QueueStart THEN 2 * q.size ELSE QueueStart

TryEnqueue_KeepsCursor(q, result, grown) ==                    \* mutant
  [size     |-> IF IsFull(q) THEN GrownSize(q) ELSE q.size,
   results  |-> Append(q.results, result),
   replayed |-> q.replayed]

(* grown says whether the realloc of a full queue succeeds: when it does   *)
(* not, the result is dropped without a trace.                             *)
TryEnqueue(q, result, grown) ==
  IF IsFull(q) /\ ~grown
  THEN q
  ELSE [size     |-> IF IsFull(q) THEN GrownSize(q) ELSE q.size,
        results  |-> Append(q.results, result),
        replayed |-> Len(q.results) + 1]

IntToByte(result) == IF result = 0 THEN 0 ELSE IF result > 0 THEN 1 ELSE 2

ByteToInt(byte) == IF byte \in {0, 1} THEN byte ELSE -1
=============================================================================
