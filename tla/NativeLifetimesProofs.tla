-------------------------- MODULE NativeLifetimesProofs --------------------------
(***************************************************************************)
(* Proofs about NativeLifetimes, for every set of threads, of objects and  *)
(* of limits and every depth of nested callouts: no use after free, no     *)
(* double free, nothing lost, matches that stay readable, and, if none is  *)
(* zero, limits that are honoured.                                         *)
(***************************************************************************)
EXTENDS NativeLifetimes, TLAPS

(* A pointer that is not null is to live memory, which the finalizer of    *)
(* its owner will free.                                                    *)
OwnInv == \A o \in owns : native[o] = "live" /\ o \in armed

(* A buffer that can be used has a regex, and the stack of its context is  *)
(* the one its _jitStack field refers to.                                  *)
BufferInv ==
  \A b \in Buffers \cap owns :
    buffer[b].regex \in Regexes /\ buffer[b].stack = buffer[b].context.stack

(* What the program can reach through its variables is in order.           *)
HeldInv ==
  /\ \A r \in held \cap Regexes : r \in owns
  /\ \A b \in held \cap Buffers :
       /\ native[b] # "none"
       /\ buffer[b].regex \in Regexes \cap owns
       /\ b \in owns => buffer[b].context.stack \in owns \cup {None}

MatchInv ==
  \A t \in Threads :
    \/ match[t] = NoMatch
    \/ /\ match[t].owner = match[t].on
       /\ match[t].on \in (Regexes \cup Buffers) \cap owns
       /\ match[t].on \in Buffers => buffer[match[t].on].regex \in Regexes \cap owns

(* What each kind of frame relies on. *)
FrameOK(f) ==
  /\ f.op = "idle" => f = Idle
  /\ f.op \in {"compile", "match"} =>
       f.on \in Regexes \cap owns /\ f.context.stack \in owns \cup {None}
  /\ f.op = "compile" => f.context = NoContext
  /\ f.op = "create" =>
       /\ f.on \in Buffers /\ native[f.on] = "none" /\ f.on \in armed
       /\ buffer[f.on].regex \in Regexes \cap owns
       /\ buffer[f.on].stack = f.context.stack
       /\ f.context.stack \in owns \cup {None}
  /\ f.op = "bufferMatch" =>
       /\ f.on \in Buffers \cap owns
       /\ buffer[f.on].regex \in Regexes \cap owns
       /\ f.context = buffer[f.on].context
       /\ f.context.stack \in owns \cup {None}
  /\ f.op = "dispose" =>
       /\ f.on \in Buffers \ owns /\ native[f.on] = "live"
       /\ f.context = NoContext

FrameInv == \A c \in Slots : FrameOK(call[c])

(* One constructor, and one Dispose that found the pointer, per buffer.    *)
AloneInv ==
  \A c, d \in Slots :
    /\ call[c].op \in {"create", "dispose"}
    /\ call[d].op = call[c].op /\ call[d].on = call[c].on
    => c = d

Inv ==
  /\ TypeOK /\ FreedOnce /\ NothingLost
  /\ OwnInv /\ BufferInv /\ HeldInv /\ MatchInv /\ FrameInv /\ AloneInv

-----------------------------------------------------------------------------
(* What an object that nothing reaches is not. *)
LEMMA Unreached ==
  ASSUME TypeOK, NEW o \in Objects, o \notin Reachable
  PROVE  /\ o \notin held
         /\ \A b \in held \cap Buffers : o # buffer[b].regex /\ o # buffer[b].stack
         /\ \A t \in Threads :
              /\ o # match[t].owner
              /\ match[t].owner \in Buffers => o # buffer[match[t].owner].regex
         /\ \A c \in Slots :
              /\ call[c].op # "idle" => o # call[c].on
              /\ call[c].op = "match" => o # call[c].context.stack
              /\ call[c].op \in {"create", "bufferMatch"} /\ call[c].on \in Buffers =>
                   o # buffer[call[c].on].regex /\ o # buffer[call[c].on].stack
<1> USE LifetimesAssumption
<1>1. o # None
  BY DEF Objects
<1>2. o \notin Roots /\ \A b \in Roots \cap Buffers : o \notin Fields(b)
  BY DEF Reachable
<1>3. \A b \in Roots \cap Buffers : o # buffer[b].regex /\ o # buffer[b].stack
  BY <1>1, <1>2 DEF Fields
<1>4. held \subseteq Roots
  BY DEF Roots
<1>5. \A t \in Threads : match[t].owner \in Roots \cup {None}
  BY DEF Roots
<1>6. \A c \in Slots : KeptAlive(call[c]) \subseteq Roots
  BY DEF Roots
<1>7. \A t \in Threads : match[t].owner \in Buffers => match[t].owner # None
  BY DEF Objects
<1>8. ASSUME NEW c \in Slots
      PROVE  /\ call[c].op # "idle" => o # call[c].on
             /\ call[c].op = "match" => o # call[c].context.stack
             /\ call[c].on \in Roots \cup {None}
  <2>1. KeptAlive(call[c]) \subseteq Roots
    BY <1>6
  <2>2. call[c].on \in Roots \cup {None}
    BY <2>1 DEF KeptAlive
  <2>3. call[c].op = "match" => call[c].context.stack \in Roots \cup {None}
    BY <2>1 DEF KeptAlive
  <2> QED
    BY <1>1, <1>2, <2>2, <2>3
<1>9. \A b \in Buffers : b # None
  BY DEF Objects
<1> QED
  BY <1>1, <1>2, <1>3, <1>4, <1>5, <1>7, <1>8, <1>9

LEMMA InitInv == Init => Inv
<1> SUFFICES ASSUME Init PROVE Inv
  OBVIOUS
<1> USE LifetimesAssumption DEF Init
<1>1. TypeOK
  <2>1. NoContext \in Contexts
    BY DEF NoContext, Contexts
  <2> QED
    BY <2>1 DEF TypeOK, Frames, Idle, NoMatch, NotSet
<1>2. FreedOnce /\ NothingLost /\ OwnInv /\ BufferInv /\ HeldInv
  BY DEF FreedOnce, NothingLost, OwnInv, BufferInv, HeldInv
<1>3. MatchInv /\ FrameInv /\ AloneInv
  BY DEF MatchInv, FrameInv, FrameOK, AloneInv, Idle
<1> QED
  BY <1>1, <1>2, <1>3 DEF Inv

-----------------------------------------------------------------------------
(* Small facts about slots, contexts and frames. *)
LEMMA SlotThread == \A c \in Slots : c[1] \in Threads
BY DEF Slots

LEMMA ContextTypes ==
  ASSUME TypeOK
  PROVE  /\ NoContext \in Contexts /\ Idle \in Frames
         /\ FillMatchSettings \in Contexts
BY LifetimesAssumption
   DEF TypeOK, NoContext, Idle, Frames, Contexts, FillMatchSettings, HeapLimit,
       GetValueOrDefault, apply_settings, NotSet

(* A frame that starts or ends changes its own slot only. *)
LEMMA EnterSlot ==
  ASSUME TypeOK, NEW c \in Slots, NEW op, NEW o, NEW x, Enter(c, op, o, x)
  PROVE  /\ call[c] = Idle
         /\ call'[c] = [op |-> op, on |-> o, context |-> x]
         /\ \A d \in Slots : d # c => call'[d] = call[d]
         /\ [op |-> op, on |-> o, context |-> x] \in Frames => call' \in [Slots -> Frames]
BY DEF TypeOK, Enter

LEMMA LeaveSlot ==
  ASSUME TypeOK, NEW c \in Slots, NEW op, Leave(c, op)
  PROVE  /\ call[c].op = op
         /\ call'[c] = Idle
         /\ \A d \in Slots : d # c => call'[d] = call[d]
         /\ call' \in [Slots -> Frames]
BY ContextTypes DEF TypeOK, Leave

-----------------------------------------------------------------------------
(* Each action preserves the invariant: the finalizers because what frames,  *)
(* matches and variables rely on is reachable, Dispose because of the        *)
(* exchange, the others because they only add or touch what is their own.    *)
LEMMA StepInv == Inv /\ [Next]_vars => Inv'
<1> SUFFICES ASSUME Inv, [Next]_vars PROVE Inv'
  OBVIOUS
<1> USE LifetimesAssumption DEF Inv, Objects
<1>1. ASSUME NEW o \in Objects, Drop(o)
      PROVE  Inv'
  <2>1. TypeOK'
    BY <1>1 DEF Drop, TypeOK, Frames, Contexts, Idle, NoContext, NotSet
  <2>2. FreedOnce'
    BY <1>1 DEF Drop, FreedOnce, TypeOK, OwnInv, FrameInv, FrameOK
  <2>3. NothingLost'
    BY <1>1 DEF Drop, NothingLost, TypeOK, OwnInv, FrameInv, FrameOK
  <2>4. OwnInv'
    BY <1>1 DEF Drop, OwnInv, TypeOK, FrameInv, FrameOK, HeldInv
  <2>5. BufferInv'
    BY <1>1 DEF Drop, BufferInv, TypeOK, OwnInv, FrameInv, FrameOK, HeldInv
  <2>6. HeldInv'
    BY <1>1 DEF Drop, HeldInv, TypeOK, OwnInv, FrameInv, FrameOK
  <2>7. MatchInv'
    BY <1>1 DEF Drop, MatchInv, TypeOK, OwnInv, FrameInv, FrameOK
  <2>8. FrameInv'
    BY <1>1 DEF Drop, FrameInv, FrameOK, TypeOK, OwnInv, HeldInv
  <2>9. AloneInv'
    BY <1>1 DEF Drop, AloneInv, TypeOK, OwnInv, FrameInv, FrameOK, HeldInv
  <2> QED
    BY <2>1, <2>2, <2>3, <2>4, <2>5, <2>6, <2>7, <2>8, <2>9
<1>2. ASSUME NEW n \in Limits \cup {NotSet}, SetHeapLimit(n)
      PROVE  Inv'
  <2>1. TypeOK'
    BY <1>2 DEF SetHeapLimit, TypeOK, Frames, Contexts, Idle, NoContext, NotSet
  <2>2. FreedOnce'
    BY <1>2 DEF SetHeapLimit, FreedOnce, TypeOK, OwnInv, FrameInv, FrameOK
  <2>3. NothingLost'
    BY <1>2 DEF SetHeapLimit, NothingLost, TypeOK, OwnInv, FrameInv, FrameOK
  <2>4. OwnInv'
    BY <1>2 DEF SetHeapLimit, OwnInv, TypeOK, FrameInv, FrameOK, HeldInv
  <2>5. BufferInv'
    BY <1>2 DEF SetHeapLimit, BufferInv, TypeOK, OwnInv, FrameInv, FrameOK, HeldInv
  <2>6. HeldInv'
    BY <1>2 DEF SetHeapLimit, HeldInv, TypeOK, OwnInv, FrameInv, FrameOK
  <2>7. MatchInv'
    BY <1>2 DEF SetHeapLimit, MatchInv, TypeOK, OwnInv, FrameInv, FrameOK
  <2>8. FrameInv'
    BY <1>2 DEF SetHeapLimit, FrameInv, FrameOK, TypeOK, OwnInv, HeldInv
  <2>9. AloneInv'
    BY <1>2 DEF SetHeapLimit, AloneInv, TypeOK, OwnInv, FrameInv, FrameOK, HeldInv
  <2> QED
    BY <2>1, <2>2, <2>3, <2>4, <2>5, <2>6, <2>7, <2>8, <2>9
<1>3. ASSUME NEW s \in Stacks \cup {None}, SetJitStack(s)
      PROVE  Inv'
  <2>1. TypeOK'
    BY <1>3 DEF SetJitStack, TypeOK, Frames, Contexts, Idle, NoContext, NotSet
  <2>2. FreedOnce'
    BY <1>3 DEF SetJitStack, FreedOnce, TypeOK, OwnInv, FrameInv, FrameOK
  <2>3. NothingLost'
    BY <1>3 DEF SetJitStack, NothingLost, TypeOK, OwnInv, FrameInv, FrameOK
  <2>4. OwnInv'
    BY <1>3 DEF SetJitStack, OwnInv, TypeOK, FrameInv, FrameOK, HeldInv
  <2>5. BufferInv'
    BY <1>3 DEF SetJitStack, BufferInv, TypeOK, OwnInv, FrameInv, FrameOK, HeldInv
  <2>6. HeldInv'
    BY <1>3 DEF SetJitStack, HeldInv, TypeOK, OwnInv, FrameInv, FrameOK
  <2>7. MatchInv'
    BY <1>3 DEF SetJitStack, MatchInv, TypeOK, OwnInv, FrameInv, FrameOK
  <2>8. FrameInv'
    BY <1>3 DEF SetJitStack, FrameInv, FrameOK, TypeOK, OwnInv, HeldInv
  <2>9. AloneInv'
    BY <1>3 DEF SetJitStack, AloneInv, TypeOK, OwnInv, FrameInv, FrameOK, HeldInv
  <2> QED
    BY <2>1, <2>2, <2>3, <2>4, <2>5, <2>6, <2>7, <2>8, <2>9
<1>4. ASSUME NEW t \in Threads, DropMatch(t)
      PROVE  Inv'
  <2>1. TypeOK'
    BY <1>4 DEF DropMatch, TypeOK, NoMatch
  <2>2. FreedOnce'
    BY <1>4 DEF DropMatch, FreedOnce, TypeOK, OwnInv, FrameInv, FrameOK
  <2>3. NothingLost'
    BY <1>4 DEF DropMatch, NothingLost, TypeOK, OwnInv, FrameInv, FrameOK
  <2>4. OwnInv'
    BY <1>4 DEF DropMatch, OwnInv, TypeOK, FrameInv, FrameOK, HeldInv
  <2>5. BufferInv'
    BY <1>4 DEF DropMatch, BufferInv, TypeOK, OwnInv, FrameInv, FrameOK, HeldInv
  <2>6. HeldInv'
    BY <1>4 DEF DropMatch, HeldInv, TypeOK, OwnInv, FrameInv, FrameOK
  <2>7. MatchInv'
    BY <1>4 DEF DropMatch, MatchInv, TypeOK, OwnInv, FrameInv, FrameOK
  <2>8. FrameInv'
    BY <1>4 DEF DropMatch, FrameInv, FrameOK, TypeOK, OwnInv, HeldInv
  <2>9. AloneInv'
    BY <1>4 DEF DropMatch, AloneInv, TypeOK, OwnInv, FrameInv, FrameOK, HeldInv
  <2> QED
    BY <2>1, <2>2, <2>3, <2>4, <2>5, <2>6, <2>7, <2>8, <2>9
<1>5. ASSUME NEW s \in Stacks, NewStack(s)
      PROVE  Inv'
  <2>1. TypeOK'
    BY <1>5 DEF NewStack, Unmade, TypeOK, Frames, Contexts, Idle, NoContext, NotSet
  <2>2. FreedOnce'
    BY <1>5 DEF NewStack, Unmade, FreedOnce, TypeOK, OwnInv, FrameInv, FrameOK
  <2>3. NothingLost'
    BY <1>5 DEF NewStack, Unmade, NothingLost, TypeOK, OwnInv, FrameInv, FrameOK
  <2>4. OwnInv'
    BY <1>5 DEF NewStack, Unmade, OwnInv, TypeOK, FrameInv, FrameOK, HeldInv
  <2>5. BufferInv'
    BY <1>5 DEF NewStack, Unmade, BufferInv, TypeOK, OwnInv, FrameInv, FrameOK, HeldInv
  <2>6. HeldInv'
    BY <1>5 DEF NewStack, Unmade, HeldInv, TypeOK, OwnInv, FrameInv, FrameOK
  <2>7. MatchInv'
    BY <1>5 DEF NewStack, Unmade, MatchInv, TypeOK, OwnInv, FrameInv, FrameOK
  <2>8. FrameInv'
    BY <1>5 DEF NewStack, Unmade, FrameInv, FrameOK, TypeOK, OwnInv, HeldInv
  <2>9. AloneInv'
    BY <1>5 DEF NewStack, Unmade, AloneInv, TypeOK, OwnInv, FrameInv, FrameOK, HeldInv
  <2> QED
    BY <2>1, <2>2, <2>3, <2>4, <2>5, <2>6, <2>7, <2>8, <2>9
<1>6. ASSUME NEW s \in Stacks, DisposeStack(s)
      PROVE  Inv'
  <2>1. TypeOK'
    BY <1>6 DEF DisposeStack, Free, TypeOK, Frames, Contexts, Idle, NoContext, NotSet
  <2>2. FreedOnce'
    BY <1>6 DEF DisposeStack, Free, FreedOnce, TypeOK, OwnInv, FrameInv, FrameOK
  <2>3. NothingLost'
    BY <1>6 DEF DisposeStack, Free, NothingLost, TypeOK, OwnInv, FrameInv, FrameOK
  <2>4. OwnInv'
    BY <1>6 DEF DisposeStack, Free, OwnInv, TypeOK, FrameInv, FrameOK, HeldInv
  <2>5. BufferInv'
    BY <1>6 DEF DisposeStack, Free, BufferInv, TypeOK, OwnInv, FrameInv, FrameOK, HeldInv
  <2>6. HeldInv'
    <3>1. \A b \in held \cap Buffers \cap owns : b \in Reachable
      BY DEF Reachable, Roots
    <3> QED
      BY <1>6, <3>1 DEF DisposeStack, HeldInv, TypeOK
  <2>7. MatchInv'
    BY <1>6 DEF DisposeStack, Free, MatchInv, TypeOK, OwnInv, FrameInv, FrameOK
  <2>8. FrameInv'
    BY <1>6 DEF DisposeStack, Free, FrameInv, FrameOK, TypeOK, OwnInv, HeldInv
  <2>9. AloneInv'
    BY <1>6 DEF DisposeStack, Free, AloneInv, TypeOK, OwnInv, FrameInv, FrameOK, HeldInv
  <2> QED
    BY <2>1, <2>2, <2>3, <2>4, <2>5, <2>6, <2>7, <2>8, <2>9
<1>7. ASSUME NEW c \in Slots, NEW r \in Regexes, Compile(c, r)
      PROVE  Inv'
  <2>1. TypeOK'
    <3>1. [op |-> "compile", on |-> r, context |-> NoContext] \in Frames
      BY ContextTypes DEF Frames
    <3>2. call' \in [Slots -> Frames]
      BY <1>7, <3>1, EnterSlot DEF Compile
    <3> QED
      BY <1>7, <3>2 DEF Compile, TypeOK
  <2>2. FreedOnce'
    BY <1>7 DEF Compile, Enter, Unmade, Idle, NoContext, FreedOnce, TypeOK, OwnInv, FrameInv, FrameOK
  <2>3. NothingLost'
    BY <1>7 DEF Compile, Enter, Unmade, Idle, NoContext, NothingLost, TypeOK, OwnInv, FrameInv, FrameOK
  <2>4. OwnInv'
    BY <1>7 DEF Compile, Enter, Unmade, Idle, NoContext, OwnInv, TypeOK, FrameInv, FrameOK, HeldInv
  <2>5. BufferInv'
    BY <1>7 DEF Compile, Enter, Unmade, Idle, NoContext, BufferInv, TypeOK, OwnInv, FrameInv, FrameOK, HeldInv
  <2>6. HeldInv'
    BY <1>7 DEF Compile, Enter, Unmade, Idle, NoContext, HeldInv, TypeOK, OwnInv, FrameInv, FrameOK
  <2>7. MatchInv'
    BY <1>7 DEF Compile, Enter, Unmade, Idle, NoContext, MatchInv, TypeOK, OwnInv, FrameInv, FrameOK
  <2>8. FrameInv'
    BY <1>7 DEF Compile, Enter, Unmade, Idle, NoContext, FrameInv, FrameOK, TypeOK, OwnInv, HeldInv
  <2>9. AloneInv'
    BY <1>7 DEF Compile, Enter, Unmade, Idle, NoContext, AloneInv, TypeOK, OwnInv, FrameInv, FrameOK, HeldInv
  <2> QED
    BY <2>1, <2>2, <2>3, <2>4, <2>5, <2>6, <2>7, <2>8, <2>9
<1>8. ASSUME NEW c \in Slots, EndCompile(c)
      PROVE  Inv'
  <2>1. TypeOK'
    BY <1>8, LeaveSlot DEF EndCompile, FrameInv, FrameOK, TypeOK
  <2>2. FreedOnce'
    BY <1>8 DEF EndCompile, Leave, Idle, NoContext, FreedOnce, TypeOK, OwnInv, FrameInv, FrameOK
  <2>3. NothingLost'
    BY <1>8 DEF EndCompile, Leave, Idle, NoContext, NothingLost, TypeOK, OwnInv, FrameInv, FrameOK
  <2>4. OwnInv'
    BY <1>8 DEF EndCompile, Leave, Idle, NoContext, OwnInv, TypeOK, FrameInv, FrameOK, HeldInv
  <2>5. BufferInv'
    BY <1>8 DEF EndCompile, Leave, Idle, NoContext, BufferInv, TypeOK, OwnInv, FrameInv, FrameOK, HeldInv
  <2>6. HeldInv'
    BY <1>8 DEF EndCompile, Leave, Idle, NoContext, HeldInv, TypeOK, OwnInv, FrameInv, FrameOK
  <2>7. MatchInv'
    BY <1>8 DEF EndCompile, Leave, Idle, NoContext, MatchInv, TypeOK, OwnInv, FrameInv, FrameOK
  <2>8. FrameInv'
    BY <1>8 DEF EndCompile, Leave, Idle, NoContext, FrameInv, FrameOK, TypeOK, OwnInv, HeldInv
  <2>9. AloneInv'
    BY <1>8 DEF EndCompile, Leave, Idle, NoContext, AloneInv, TypeOK, OwnInv, FrameInv, FrameOK, HeldInv
  <2> QED
    BY <2>1, <2>2, <2>3, <2>4, <2>5, <2>6, <2>7, <2>8, <2>9
<1>9. ASSUME NEW c \in Slots, NEW r \in Regexes, Match(c, r)
      PROVE  Inv'
  <2>1. TypeOK'
    <3>1. [op |-> "match", on |-> r, context |-> FillMatchSettings] \in Frames
      BY ContextTypes DEF Frames
    <3>2. call' \in [Slots -> Frames]
      BY <1>9, <3>1, EnterSlot DEF Match
    <3> QED
      BY <1>9, <3>2 DEF Match, TypeOK
  <2>2. FreedOnce'
    BY <1>9 DEF Match, Enter, CanFill, FillMatchSettings, Idle, NoContext, FreedOnce, TypeOK, OwnInv, FrameInv, FrameOK
  <2>3. NothingLost'
    BY <1>9 DEF Match, Enter, CanFill, FillMatchSettings, Idle, NoContext, NothingLost, TypeOK, OwnInv, FrameInv, FrameOK
  <2>4. OwnInv'
    BY <1>9 DEF Match, Enter, CanFill, FillMatchSettings, Idle, NoContext, OwnInv, TypeOK, FrameInv, FrameOK, HeldInv
  <2>5. BufferInv'
    BY <1>9 DEF Match, Enter, CanFill, FillMatchSettings, Idle, NoContext, BufferInv, TypeOK, OwnInv, FrameInv, FrameOK, HeldInv
  <2>6. HeldInv'
    BY <1>9 DEF Match, Enter, CanFill, FillMatchSettings, Idle, NoContext, HeldInv, TypeOK, OwnInv, FrameInv, FrameOK
  <2>7. MatchInv'
    BY <1>9 DEF Match, Enter, CanFill, FillMatchSettings, Idle, NoContext, MatchInv, TypeOK, OwnInv, FrameInv, FrameOK
  <2>8. FrameInv'
    BY <1>9 DEF Match, Enter, CanFill, FillMatchSettings, Idle, NoContext, FrameInv, FrameOK, TypeOK, OwnInv, HeldInv
  <2>9. AloneInv'
    BY <1>9 DEF Match, Enter, CanFill, FillMatchSettings, Idle, NoContext, AloneInv, TypeOK, OwnInv, FrameInv, FrameOK, HeldInv
  <2> QED
    BY <2>1, <2>2, <2>3, <2>4, <2>5, <2>6, <2>7, <2>8, <2>9
<1>10. ASSUME NEW c \in Slots, EndMatch(c)
      PROVE  Inv'
  <2>1. TypeOK'
    <3>1. call' \in [Slots -> Frames]
      BY <1>10, LeaveSlot DEF EndMatch
    <3>2. call[c].on \in Regexes \cup Buffers \cup {None}
      BY DEF TypeOK, Frames
    <3>3. match' \in [Threads -> [owner : Regexes \cup Buffers \cup {None},
                                on : Regexes \cup Buffers \cup {None}]]
      BY <1>10, <3>2, SlotThread DEF EndMatch, OwnerOf, TypeOK
    <3> QED
      BY <1>10, <3>1, <3>3 DEF EndMatch, TypeOK
  <2>2. FreedOnce'
    BY <1>10 DEF EndMatch, Leave, OwnerOf, Idle, NoContext, FreedOnce, TypeOK, OwnInv, FrameInv, FrameOK
  <2>3. NothingLost'
    <3>1. /\ call[c].op # "dispose"
          /\ \A d \in Slots : d # c => call'[d] = call[d]
      BY <1>10, LeaveSlot DEF EndMatch
    <3> QED
      BY <1>10, <3>1 DEF EndMatch, NothingLost
  <2>4. OwnInv'
    BY <1>10 DEF EndMatch, Leave, OwnerOf, Idle, NoContext, OwnInv, TypeOK, FrameInv, FrameOK, HeldInv
  <2>5. BufferInv'
    BY <1>10 DEF EndMatch, Leave, OwnerOf, Idle, NoContext, BufferInv, TypeOK, OwnInv, FrameInv, FrameOK, HeldInv
  <2>6. HeldInv'
    BY <1>10 DEF EndMatch, Leave, OwnerOf, Idle, NoContext, HeldInv, TypeOK, OwnInv, FrameInv, FrameOK
  <2>7. MatchInv'
    BY <1>10 DEF EndMatch, Leave, OwnerOf, Idle, NoContext, MatchInv, TypeOK, OwnInv, FrameInv, FrameOK
  <2>8. FrameInv'
    BY <1>10 DEF EndMatch, Leave, OwnerOf, Idle, NoContext, FrameInv, FrameOK, TypeOK, OwnInv, HeldInv
  <2>9. AloneInv'
    BY <1>10 DEF EndMatch, Leave, OwnerOf, Idle, NoContext, AloneInv, TypeOK, OwnInv, FrameInv, FrameOK, HeldInv
  <2> QED
    BY <2>1, <2>2, <2>3, <2>4, <2>5, <2>6, <2>7, <2>8, <2>9
<1>11. ASSUME NEW c \in Slots, NEW b \in Buffers, NEW r \in Regexes, CreateBuffer(c, b, r)
      PROVE  Inv'
  <2>1. TypeOK'
    <3>1. [op |-> "create", on |-> b, context |-> FillMatchSettings] \in Frames
      BY ContextTypes DEF Frames
    <3>2. call' \in [Slots -> Frames]
      <4>1. CASE CanFill
        BY <1>11, <3>1, <4>1, EnterSlot DEF CreateBuffer
      <4>2. CASE ~CanFill
        BY <1>11, <4>2 DEF CreateBuffer, TypeOK
      <4> QED
        BY <4>1, <4>2
    <3>3. buffer' \in [Buffers -> [regex : Regexes \cup {None},
                                  stack : Stacks \cup {None}, context : Contexts]]
      BY <1>11, ContextTypes DEF CreateBuffer, TypeOK
    <3> QED
      BY <1>11, <3>2, <3>3 DEF CreateBuffer, TypeOK
  <2>2. FreedOnce'
    BY <1>11 DEF CreateBuffer, Enter, Unmade, CanFill, FillMatchSettings, Idle, NoContext, FreedOnce, TypeOK, OwnInv, FrameInv, FrameOK
  <2>3. NothingLost'
    BY <1>11 DEF CreateBuffer, Enter, Unmade, CanFill, FillMatchSettings, Idle, NoContext, NothingLost, TypeOK, OwnInv, FrameInv, FrameOK
  <2>4. OwnInv'
    BY <1>11 DEF CreateBuffer, Enter, Unmade, CanFill, FillMatchSettings, Idle, NoContext, OwnInv, TypeOK, FrameInv, FrameOK, HeldInv
  <2>5. BufferInv'
    BY <1>11 DEF CreateBuffer, Enter, Unmade, CanFill, FillMatchSettings, Idle, NoContext, BufferInv, TypeOK, OwnInv, FrameInv, FrameOK, HeldInv
  <2>6. HeldInv'
    <3>1. b \notin held
      BY <1>11, Unreached DEF CreateBuffer, Unmade
    <3>2. \A d \in Buffers : d # b => buffer'[d] = buffer[d]
      BY <1>11 DEF CreateBuffer, TypeOK
    <3>3. held' = held /\ owns' = owns /\ native' = native
      BY <1>11 DEF CreateBuffer
    <3> QED
      BY <3>1, <3>2, <3>3 DEF HeldInv
  <2>7. MatchInv'
    <3>1. b \notin owns /\ \A d \in Buffers : d # b => buffer'[d] = buffer[d]
      BY <1>11 DEF CreateBuffer, Unmade, OwnInv, TypeOK
    <3> QED
      BY <1>11, <3>1 DEF CreateBuffer, MatchInv
  <2>8. FrameInv'
    BY <1>11 DEF CreateBuffer, Enter, Unmade, CanFill, FillMatchSettings, Idle, NoContext, FrameInv, FrameOK, TypeOK, OwnInv, HeldInv
  <2>9. AloneInv'
    BY <1>11 DEF CreateBuffer, Enter, Unmade, CanFill, FillMatchSettings, Idle, NoContext, AloneInv, TypeOK, OwnInv, FrameInv, FrameOK, HeldInv
  <2> QED
    BY <2>1, <2>2, <2>3, <2>4, <2>5, <2>6, <2>7, <2>8, <2>9
<1>12. ASSUME NEW c \in Slots, EndCreate(c)
      PROVE  Inv'
  <2>1. TypeOK'
    <3>1. call[c].on \in Buffers /\ call[c].context \in Contexts
      BY <1>12 DEF EndCreate, Leave, FrameInv, FrameOK, TypeOK, Frames
    <3>2. call' \in [Slots -> Frames]
      BY <1>12, LeaveSlot DEF EndCreate
    <3> QED
      BY <1>12, <3>1, <3>2 DEF EndCreate, TypeOK
  <2>2. FreedOnce'
    BY <1>12 DEF EndCreate, Leave, Idle, NoContext, FreedOnce, TypeOK, OwnInv, FrameInv, FrameOK
  <2>3. NothingLost'
    BY <1>12 DEF EndCreate, Leave, Idle, NoContext, NothingLost, TypeOK, OwnInv, FrameInv, FrameOK
  <2>4. OwnInv'
    BY <1>12 DEF EndCreate, Leave, Idle, NoContext, OwnInv, TypeOK, FrameInv, FrameOK, HeldInv
  <2>5. BufferInv'
    BY <1>12 DEF EndCreate, Leave, Idle, NoContext, BufferInv, TypeOK, OwnInv, FrameInv, FrameOK, HeldInv
  <2>6. HeldInv'
    <3>1. FrameOK(call[c]) /\ call[c].op = "create"
      BY <1>12 DEF EndCreate, Leave, FrameInv
    <3>2. \A d \in Buffers : /\ buffer'[d].regex = buffer[d].regex
                             /\ d # call[c].on => buffer'[d] = buffer[d]
      BY <1>12 DEF EndCreate, TypeOK
    <3> QED
      BY <1>12, <3>1, <3>2 DEF EndCreate, FrameOK, HeldInv, TypeOK
  <2>7. MatchInv'
    <3>1. \A d \in Buffers : buffer'[d].regex = buffer[d].regex
      BY <1>12 DEF EndCreate, TypeOK
    <3>2. match' = match /\ owns \subseteq owns'
      BY <1>12 DEF EndCreate
    <3> QED
      BY <3>1, <3>2 DEF MatchInv
  <2>8. FrameInv'
    <3> DEFINE b == call[c].on
    <3>1. FrameOK(call[c]) /\ call[c].op = "create"
      BY <1>12 DEF EndCreate, Leave, FrameInv
    <3>2. call'[c] = Idle /\ \A d \in Slots : d # c => call'[d] = call[d]
      BY <1>12, LeaveSlot DEF EndCreate
    <3>3. \A d \in Buffers : /\ buffer'[d].regex = buffer[d].regex
                             /\ buffer'[d].stack = buffer[d].stack
                             /\ d # b => buffer'[d] = buffer[d]
      BY <1>12 DEF EndCreate, TypeOK
    <3>4. owns \subseteq owns' /\ owns' \subseteq owns \cup {b} /\ armed' = armed
      BY <1>12 DEF EndCreate
    <3>5. \A o \in Objects : o # b => native'[o] = native[o]
      BY <1>12 DEF EndCreate, TypeOK
    <3>6. ASSUME NEW d \in Slots, d # c
          PROVE  FrameOK(call[d])'
      <4>1. FrameOK(call[d])
        BY DEF FrameInv
      <4>2. call[d].on = b => call[d].op \in {"idle", "compile", "match"}
        BY <3>1, <3>6, <4>1 DEF FrameOK, AloneInv, OwnInv, TypeOK, Frames
      <4>3. call[d].on # b
        BY <3>1, <4>1, <4>2 DEF FrameOK, Idle
      <4>4. CASE call[d].op = "idle"
        BY <3>2, <3>3, <3>4, <3>5, <3>6, <4>1, <4>3, <4>4 DEF FrameOK, Idle, NoContext
      <4>5. CASE call[d].op \in {"compile", "match"}
        BY <3>2, <3>3, <3>4, <3>5, <3>6, <4>1, <4>3, <4>5 DEF FrameOK, Idle, NoContext
      <4>6. CASE call[d].op = "create"
        BY <3>2, <3>3, <3>4, <3>5, <3>6, <4>1, <4>3, <4>6 DEF FrameOK
      <4>7. CASE call[d].op = "bufferMatch"
        BY <3>2, <3>3, <3>4, <3>5, <3>6, <4>1, <4>3, <4>7 DEF FrameOK
      <4>8. CASE call[d].op = "dispose"
        BY <3>2, <3>3, <3>4, <3>5, <3>6, <4>1, <4>3, <4>8 DEF FrameOK, Idle, NoContext
      <4>9. call[d].op \in {"idle", "compile", "match", "create", "bufferMatch", "dispose"}
        BY DEF TypeOK, Frames
      <4> QED
        BY <4>4, <4>5, <4>6, <4>7, <4>8, <4>9
    <3>7. FrameOK(call[c])'
      BY <3>2 DEF FrameOK, Idle
    <3> QED
      BY <3>6, <3>7 DEF FrameInv
  <2>9. AloneInv'
    BY <1>12 DEF EndCreate, Leave, Idle, NoContext, AloneInv, TypeOK, OwnInv, FrameInv, FrameOK, HeldInv
  <2> QED
    BY <2>1, <2>2, <2>3, <2>4, <2>5, <2>6, <2>7, <2>8, <2>9
<1>13. ASSUME NEW c \in Slots, NEW b \in Buffers, BufferMatch(c, b)
      PROVE  Inv'
  <2>1. TypeOK'
    <3>1. [op |-> "bufferMatch", on |-> b, context |-> buffer[b].context] \in Frames
      BY DEF Frames, TypeOK
    <3>2. call' \in [Slots -> Frames]
      BY <1>13, <3>1, EnterSlot DEF BufferMatch
    <3> QED
      BY <1>13, <3>2 DEF BufferMatch, TypeOK
  <2>2. FreedOnce'
    BY <1>13 DEF BufferMatch, Enter, Idle, NoContext, FreedOnce, TypeOK, OwnInv, FrameInv, FrameOK
  <2>3. NothingLost'
    BY <1>13 DEF BufferMatch, Enter, Idle, NoContext, NothingLost, TypeOK, OwnInv, FrameInv, FrameOK
  <2>4. OwnInv'
    BY <1>13 DEF BufferMatch, Enter, Idle, NoContext, OwnInv, TypeOK, FrameInv, FrameOK, HeldInv
  <2>5. BufferInv'
    BY <1>13 DEF BufferMatch, Enter, Idle, NoContext, BufferInv, TypeOK, OwnInv, FrameInv, FrameOK, HeldInv
  <2>6. HeldInv'
    BY <1>13 DEF BufferMatch, Enter, Idle, NoContext, HeldInv, TypeOK, OwnInv, FrameInv, FrameOK
  <2>7. MatchInv'
    BY <1>13 DEF BufferMatch, Enter, Idle, NoContext, MatchInv, TypeOK, OwnInv, FrameInv, FrameOK
  <2>8. FrameInv'
    BY <1>13 DEF BufferMatch, Enter, Idle, NoContext, FrameInv, FrameOK, TypeOK, OwnInv, HeldInv
  <2>9. AloneInv'
    BY <1>13 DEF BufferMatch, Enter, Idle, NoContext, AloneInv, TypeOK, OwnInv, FrameInv, FrameOK, HeldInv
  <2> QED
    BY <2>1, <2>2, <2>3, <2>4, <2>5, <2>6, <2>7, <2>8, <2>9
<1>14. ASSUME NEW c \in Slots, NEW b \in Buffers, DisposeBuffer(c, b)
      PROVE  Inv'
  <2>1. TypeOK'
    <3>1. [op |-> "dispose", on |-> b, context |-> NoContext] \in Frames
      BY ContextTypes DEF Frames
    <3>2. call' \in [Slots -> Frames]
      BY <1>14, <3>1, EnterSlot DEF DisposeBuffer, TypeOK
    <3>3. buffer' \in [Buffers -> [regex : Regexes \cup {None},
                                  stack : Stacks \cup {None}, context : Contexts]]
      BY <1>14 DEF DisposeBuffer, TypeOK
    <3>4. owns' \subseteq owns /\ armed' \subseteq armed
      BY <1>14 DEF DisposeBuffer
    <3> QED
      BY <1>14, <3>2, <3>3, <3>4 DEF DisposeBuffer, TypeOK
  <2>2. FreedOnce'
    BY <1>14 DEF DisposeBuffer, Enter, Idle, NoContext, FreedOnce, TypeOK, OwnInv, FrameInv, FrameOK
  <2>3. NothingLost'
    <3>1. CASE b \in owns
      <4>1. /\ call[c] = Idle
            /\ call'[c].op = "dispose" /\ call'[c].on = b
            /\ \A d \in Slots : d # c => call'[d] = call[d]
        <5>1. Enter(c, "dispose", b, NoContext)
          BY <1>14, <3>1 DEF DisposeBuffer
        <5>2. call'[c] = [op |-> "dispose", on |-> b, context |-> NoContext]
          BY <5>1, EnterSlot
        <5>3. call[c] = Idle /\ \A d \in Slots : d # c => call'[d] = call[d]
          BY <5>1, EnterSlot
        <5> QED
          BY <5>2, <5>3
      <4> QED
        BY <1>14, <3>1, <4>1 DEF DisposeBuffer, NothingLost, Idle
    <3>2. CASE b \notin owns
      BY <1>14, <3>2 DEF DisposeBuffer, NothingLost
    <3> QED
      BY <3>1, <3>2
  <2>4. OwnInv'
    BY <1>14 DEF DisposeBuffer, Enter, Idle, NoContext, OwnInv, TypeOK, FrameInv, FrameOK, HeldInv
  <2>5. BufferInv'
    BY <1>14 DEF DisposeBuffer, Enter, Idle, NoContext, BufferInv, TypeOK, OwnInv, FrameInv, FrameOK, HeldInv
  <2>6. HeldInv'
    <3>1. \A d \in Buffers : /\ buffer'[d].regex = buffer[d].regex
                             /\ buffer'[d].context = buffer[d].context
      BY <1>14 DEF DisposeBuffer, TypeOK
    <3>2. /\ held' = held /\ native' = native
          /\ owns' \subseteq owns /\ owns \ owns' \subseteq {b}
      BY <1>14 DEF DisposeBuffer
    <3>3. \A d \in Buffers : buffer[d].regex # b /\ buffer[d].context.stack # b
      BY DEF TypeOK, Contexts
    <3>4. \A r \in Regexes : r # b
      OBVIOUS
    <3> QED
      BY <3>1, <3>2, <3>3, <3>4 DEF HeldInv
  <2>7. MatchInv'
    BY <1>14 DEF DisposeBuffer, Enter, Idle, NoContext, MatchInv, TypeOK, OwnInv, FrameInv, FrameOK
  <2>8. FrameInv'
    <3>1. \A d \in Buffers : /\ buffer'[d].regex = buffer[d].regex
                             /\ buffer'[d].context = buffer[d].context
                             /\ d # b => buffer'[d] = buffer[d]
      BY <1>14 DEF DisposeBuffer, TypeOK
    <3>2. /\ owns' \subseteq owns /\ owns \ owns' \subseteq {b} /\ native' = native
          /\ armed \ armed' \subseteq {b} /\ b \notin owns'
      BY <1>14 DEF DisposeBuffer
    <3>3. native[b] # "none" /\ (b \in owns => native[b] = "live")
      BY <1>14 DEF DisposeBuffer, HeldInv, OwnInv
    <3>4. ASSUME NEW d \in Slots, call'[d] = call[d]
          PROVE  FrameOK(call[d])'
      <4>1. FrameOK(call[d])
        BY DEF FrameInv
      <4>2. call[d].on = b => call[d].op \notin {"bufferMatch", "create"}
        BY <1>14, <3>3, <4>1 DEF DisposeBuffer, FrameOK
      <4>3. call[d].context.stack # b /\ \A e \in Buffers : buffer[e].regex # b
        BY DEF TypeOK, Frames, Contexts
      <4>4. CASE call[d].op = "idle"
        BY <3>1, <3>2, <3>4, <4>1, <4>2, <4>3, <4>4 DEF FrameOK, Idle, NoContext
      <4>5. CASE call[d].op \in {"compile", "match"}
        BY <3>1, <3>2, <3>4, <4>1, <4>2, <4>3, <4>5 DEF FrameOK, Idle, NoContext
      <4>6. CASE call[d].op = "create"
        BY <3>1, <3>2, <3>4, <4>1, <4>2, <4>3, <4>6 DEF FrameOK
      <4>7. CASE call[d].op = "bufferMatch"
        BY <3>1, <3>2, <3>4, <4>1, <4>2, <4>3, <4>7 DEF FrameOK
      <4>8. CASE call[d].op = "dispose"
        BY <3>1, <3>2, <3>4, <4>1, <4>2, <4>3, <4>8 DEF FrameOK, Idle, NoContext
      <4>9. call[d].op \in {"idle", "compile", "match", "create", "bufferMatch", "dispose"}
        BY DEF TypeOK, Frames
      <4> QED
        BY <4>4, <4>5, <4>6, <4>7, <4>8, <4>9
    <3>5. ASSUME b \in owns
          PROVE  FrameOK(call[c])'
      <4>1. call'[c] = [op |-> "dispose", on |-> b, context |-> NoContext]
        BY <1>14, <3>5, EnterSlot DEF DisposeBuffer
      <4> QED
        BY <3>2, <3>3, <3>5, <4>1 DEF FrameOK
    <3>6. \A d \in Slots : (b \in owns /\ d = c) \/ call'[d] = call[d]
      BY <1>14, EnterSlot DEF DisposeBuffer
    <3> QED
      BY <3>4, <3>5, <3>6 DEF FrameInv
  <2>9. AloneInv'
    BY <1>14 DEF DisposeBuffer, Enter, Idle, NoContext, AloneInv, TypeOK, OwnInv, FrameInv, FrameOK, HeldInv
  <2> QED
    BY <2>1, <2>2, <2>3, <2>4, <2>5, <2>6, <2>7, <2>8, <2>9
<1>15. ASSUME NEW c \in Slots, EndDispose(c)
      PROVE  Inv'
  <2>1. TypeOK'
    <3>1. call' \in [Slots -> Frames]
      BY <1>15, LeaveSlot DEF EndDispose
    <3> QED
      BY <1>15, <3>1 DEF EndDispose, Free, TypeOK
  <2>2. FreedOnce'
    BY <1>15 DEF EndDispose, Leave, Free, Idle, NoContext, FreedOnce, TypeOK, OwnInv, FrameInv, FrameOK
  <2>3. NothingLost'
    BY <1>15 DEF EndDispose, Leave, Free, Idle, NoContext, NothingLost, TypeOK, OwnInv, FrameInv, FrameOK
  <2>4. OwnInv'
    BY <1>15 DEF EndDispose, Leave, Free, Idle, NoContext, OwnInv, TypeOK, FrameInv, FrameOK, HeldInv
  <2>5. BufferInv'
    BY <1>15 DEF EndDispose, Leave, Free, Idle, NoContext, BufferInv, TypeOK, OwnInv, FrameInv, FrameOK, HeldInv
  <2>6. HeldInv'
    BY <1>15 DEF EndDispose, Leave, Free, Idle, NoContext, HeldInv, TypeOK, OwnInv, FrameInv, FrameOK
  <2>7. MatchInv'
    BY <1>15 DEF EndDispose, Leave, Free, Idle, NoContext, MatchInv, TypeOK, OwnInv, FrameInv, FrameOK
  <2>8. FrameInv'
    <3> DEFINE b == call[c].on
    <3>1. FrameOK(call[c]) /\ call[c].op = "dispose"
      BY <1>15 DEF EndDispose, Leave, FrameInv
    <3>2. call'[c] = Idle /\ \A d \in Slots : d # c => call'[d] = call[d]
      BY <1>15, LeaveSlot DEF EndDispose
    <3>3. owns' = owns /\ buffer' = buffer /\ armed' = armed \ {b}
      BY <1>15 DEF EndDispose
    <3>4. \A o \in Objects : o # b => native'[o] = native[o]
      BY <1>15 DEF EndDispose, TypeOK
    <3>5. ASSUME NEW d \in Slots, d # c
          PROVE  FrameOK(call[d])'
      <4>1. FrameOK(call[d])
        BY DEF FrameInv
      <4>2. call[d].op \in {"create", "dispose"} => call[d].on # b
        BY <3>1, <3>5, <4>1 DEF FrameOK, AloneInv
      <4> QED
        BY <3>2, <3>3, <3>4, <3>5, <4>1, <4>2 DEF FrameOK
    <3>6. FrameOK(call[c])'
      BY <3>2 DEF FrameOK, Idle
    <3> QED
      BY <3>5, <3>6 DEF FrameInv
  <2>9. AloneInv'
    BY <1>15 DEF EndDispose, Leave, Free, Idle, NoContext, AloneInv, TypeOK, OwnInv, FrameInv, FrameOK, HeldInv
  <2> QED
    BY <2>1, <2>2, <2>3, <2>4, <2>5, <2>6, <2>7, <2>8, <2>9
<1>16. ASSUME NEW o \in Objects, Finalize(o)
      PROVE  Inv'
  <2>1. TypeOK'
    BY <1>16 DEF Finalize, Free, TypeOK
  <2>2. FreedOnce'
    BY <1>16 DEF Finalize, Free, FreedOnce, TypeOK, OwnInv, FrameInv, FrameOK
  <2>3. NothingLost'
    BY <1>16 DEF Finalize, Free, NothingLost, TypeOK, OwnInv, FrameInv, FrameOK
  <2>4. OwnInv'
    BY <1>16 DEF Finalize, Free, OwnInv, TypeOK, FrameInv, FrameOK, HeldInv
  <2>5. BufferInv'
    BY <1>16 DEF Finalize, Free, BufferInv, TypeOK, OwnInv, FrameInv, FrameOK, HeldInv
  <2>6. HeldInv'
    <3>1. /\ o \notin held
          /\ \A b \in held \cap Buffers : o # buffer[b].regex /\ o # buffer[b].stack
      BY <1>16, Unreached DEF Finalize
    <3>2. \A b \in Buffers : b # o => buffer'[b] = buffer[b]
      BY <1>16 DEF Finalize, TypeOK
    <3>3. \A p \in Objects : p # o => native'[p] = native[p]
      BY <1>16 DEF Finalize, TypeOK
    <3>4. held' = held /\ owns' = owns \ {o}
      BY <1>16 DEF Finalize
    <3> QED
      BY <3>1, <3>2, <3>3, <3>4 DEF HeldInv, BufferInv
  <2>7. MatchInv'
    <3>1. \A t \in Threads :
            /\ o # match[t].owner
            /\ match[t].owner \in Buffers => o # buffer[match[t].owner].regex
      BY <1>16, Unreached DEF Finalize
    <3>2. \A b \in Buffers : b # o => buffer'[b] = buffer[b]
      BY <1>16 DEF Finalize, TypeOK
    <3>3. match' = match /\ owns' = owns \ {o}
      BY <1>16 DEF Finalize
    <3> QED
      BY <3>1, <3>2, <3>3 DEF MatchInv
  <2>8. FrameInv'
    <3>1. \A b \in Buffers : b # o => buffer'[b] = buffer[b]
      BY <1>16 DEF Finalize, TypeOK
    <3>2. \A p \in Objects : p # o => native'[p] = native[p]
      BY <1>16 DEF Finalize, TypeOK
    <3>3. call' = call /\ owns' = owns \ {o} /\ armed' = armed \ {o}
      BY <1>16 DEF Finalize
    <3>4. ASSUME NEW c \in Slots
          PROVE  FrameOK(call[c])'
      <4>1. FrameOK(call[c])
        BY DEF FrameInv
      <4>2. /\ call[c].op # "idle" => o # call[c].on
            /\ call[c].op = "match" => o # call[c].context.stack
            /\ call[c].op \in {"create", "bufferMatch"} /\ call[c].on \in Buffers =>
                 o # buffer[call[c].on].regex /\ o # buffer[call[c].on].stack
        BY <1>16, Unreached DEF Finalize
      <4>3. call[c].op = "compile" => o # call[c].context.stack
        BY <4>1 DEF FrameOK, NoContext
      <4> QED
        BY <3>1, <3>2, <3>3, <4>1, <4>2, <4>3 DEF FrameOK, BufferInv
    <3> QED
      BY <3>4 DEF FrameInv
  <2>9. AloneInv'
    BY <1>16 DEF Finalize, Free, AloneInv, TypeOK, OwnInv, FrameInv, FrameOK, HeldInv
  <2> QED
    BY <2>1, <2>2, <2>3, <2>4, <2>5, <2>6, <2>7, <2>8, <2>9
<1>17. CASE UNCHANGED vars
  BY <1>17 DEF vars, TypeOK, FreedOnce, NothingLost, OwnInv, BufferInv,
    HeldInv, MatchInv, FrameInv, FrameOK, AloneInv
<1> QED
  BY <1>1, <1>2, <1>3, <1>4, <1>5, <1>6, <1>7, <1>8, <1>9, <1>10, <1>11, <1>12, <1>13, <1>14, <1>15, <1>16, <1>17 DEF Next

LEMMA Invariance == Spec => []Inv
<1> QED
  BY InitInv, StepInv, PTL DEF Spec

-----------------------------------------------------------------------------
(* Every variable has its type. *)
THEOREM LifetimesTypeOK == Spec => []TypeOK
<1>1. Inv => TypeOK
  BY DEF Inv
<1> QED
  BY <1>1, Invariance, PTL

(* No native code ever works on freed memory. *)
THEOREM LifetimesNoUseAfterFree == Spec => []NoUseAfterFree
<1>1. Inv => NoUseAfterFree
  <2> SUFFICES ASSUME Inv, NEW c \in Slots, NEW o \in Uses(call[c])
               PROVE  native[o] = "live"
    BY DEF NoUseAfterFree
  <2>1. FrameOK(call[c]) /\ \A p \in owns : native[p] = "live"
    BY DEF Inv, FrameInv, OwnInv
  <2>2. o # None
    BY DEF Uses
  <2>3. CASE call[c].op = "create"
    BY <2>1, <2>2, <2>3 DEF FrameOK, Uses
  <2>4. CASE call[c].op \in {"compile", "match"}
    BY <2>1, <2>2, <2>4 DEF FrameOK, Uses
  <2>5. CASE call[c].op = "bufferMatch"
    BY <2>1, <2>2, <2>5 DEF FrameOK, Uses
  <2>6. CASE call[c].op \in {"dispose", "idle"}
    BY <2>1, <2>2, <2>6 DEF FrameOK, Uses, Idle, NoContext
  <2>7. call[c].op \in {"idle", "compile", "match", "create", "bufferMatch", "dispose"}
    BY DEF Inv, TypeOK, Frames
  <2> QED
    BY <2>3, <2>4, <2>5, <2>6, <2>7
<1> QED
  BY <1>1, Invariance, PTL

(* No memory is freed twice. *)
THEOREM LifetimesFreedOnce == Spec => []FreedOnce
<1>1. Inv => FreedOnce
  BY DEF Inv
<1> QED
  BY <1>1, Invariance, PTL

(* Memory that is not freed has an owner or a Dispose that will free it. *)
THEOREM LifetimesNothingLost == Spec => []NothingLost
<1>1. Inv => NothingLost
  BY DEF Inv
<1> QED
  BY <1>1, Invariance, PTL

(* The memory a match reads is live for as long as the match is kept. *)
THEOREM LifetimesMatchReadable == Spec => []MatchReadable
<1>1. Inv => MatchReadable
  <2> SUFFICES ASSUME Inv, NEW t \in Threads, NEW o \in Reads(match[t])
               PROVE  native[o] = "live"
    BY DEF MatchReadable
  <2>1. o \in owns
    <3>1. CASE match[t] = NoMatch
      BY <3>1, LifetimesAssumption DEF Reads, NoMatch, Objects
    <3>2. CASE match[t] # NoMatch
      BY <3>2 DEF Inv, MatchInv, Reads
    <3> QED
      BY <3>1, <3>2
  <2> QED
    BY <2>1 DEF Inv, OwnInv
<1> QED
  BY <1>1, Invariance, PTL

-----------------------------------------------------------------------------
(* Limits, when the program gives none that is zero. *)

Honest(context) == context.limit = context.shown

LimitInv ==
  /\ settings.limit # 0
  /\ \A c \in Slots : Honest(call[c].context)
  /\ \A b \in Buffers : Honest(buffer[b].context)

LEMMA HonestContexts ==
  ASSUME LimitInv
  PROVE  Honest(NoContext) /\ Honest(Idle.context) /\ Honest(FillMatchSettings)
BY DEF LimitInv, Honest, NoContext, Idle, FillMatchSettings, HeapLimit, GetValueOrDefault,
       apply_settings, NotSet

LEMMA LimitStep ==
  ASSUME 0 \notin Limits, TypeOK, LimitInv, [Next]_vars
  PROVE  LimitInv'
<1>1. ASSUME NEW c \in Slots, NEW op, NEW o, NEW x, Honest(x), Enter(c, op, o, x)
      PROVE  \A d \in Slots : Honest(call'[d].context)
  <2>1. call'[c].context = x /\ \A d \in Slots \ {c} : call'[d] = call[d]
    BY <1>1 DEF Enter, TypeOK
  <2> QED
    BY <1>1, <2>1 DEF LimitInv, Honest
<1>2. ASSUME NEW c \in Slots, NEW op, Leave(c, op)
      PROVE  \A d \in Slots : Honest(call'[d].context)
  BY <1>2, LeaveSlot, HonestContexts DEF LimitInv
<1>3. ASSUME NEW n \in Limits \cup {NotSet}, SetHeapLimit(n)
      PROVE  LimitInv'
  BY <1>3 DEF SetHeapLimit, LimitInv, Honest, TypeOK, NotSet
<1>4. ASSUME NEW s \in Stacks \cup {None}, SetJitStack(s)
      PROVE  LimitInv'
  BY <1>4 DEF SetJitStack, LimitInv, Honest, TypeOK
<1>5. ASSUME UNCHANGED <<settings, buffer, call>>
      PROVE  LimitInv'
  BY <1>5 DEF LimitInv, Honest
<1>6. ASSUME NEW c \in Slots, NEW r \in Regexes, Compile(c, r) \/ Match(c, r)
      PROVE  LimitInv'
  <2>1. \A d \in Slots : Honest(call'[d].context)
    BY <1>1, <1>6, HonestContexts DEF Compile, Match
  <2> QED
    BY <1>6, <2>1 DEF Compile, Match, LimitInv, Honest
<1>7. ASSUME NEW c \in Slots, NEW b \in Buffers, NEW r \in Regexes, CreateBuffer(c, b, r)
      PROVE  LimitInv'
  <2>1. \A d \in Slots : Honest(call'[d].context)
    BY <1>1, <1>7, HonestContexts DEF CreateBuffer, LimitInv
  <2>2. \A d \in Buffers : Honest(buffer'[d].context)
    BY <1>7, HonestContexts DEF CreateBuffer, LimitInv, TypeOK
  <2> QED
    BY <1>7, <2>1, <2>2 DEF CreateBuffer, LimitInv, Honest
<1>8. ASSUME NEW c \in Slots, NEW b \in Buffers, BufferMatch(c, b)
      PROVE  LimitInv'
  <2>1. \A d \in Slots : Honest(call'[d].context)
    BY <1>1, <1>8 DEF BufferMatch, LimitInv
  <2> QED
    BY <1>8, <2>1 DEF BufferMatch, LimitInv, Honest
<1>9. ASSUME NEW c \in Slots, NEW b \in Buffers, DisposeBuffer(c, b)
      PROVE  LimitInv'
  <2>1. \A d \in Slots : Honest(call'[d].context)
    BY <1>1, <1>9, HonestContexts DEF DisposeBuffer, LimitInv
  <2>2. \A d \in Buffers : Honest(buffer'[d].context)
    BY <1>9 DEF DisposeBuffer, LimitInv, Honest, TypeOK
  <2> QED
    BY <1>9, <2>1, <2>2 DEF DisposeBuffer, LimitInv, Honest
<1>10. ASSUME NEW o \in Objects, Finalize(o)
       PROVE  LimitInv'
  <2>1. \A d \in Buffers : Honest(buffer'[d].context)
    BY <1>10 DEF Finalize, LimitInv, Honest, TypeOK
  <2> QED
    BY <1>10, <2>1 DEF Finalize, LimitInv, Honest
<1>11. ASSUME NEW c \in Slots, EndCompile(c) \/ EndMatch(c) \/ EndCreate(c) \/ EndDispose(c)
       PROVE  LimitInv'
  <2>1. \A d \in Slots : Honest(call'[d].context)
    BY <1>2, <1>11 DEF EndCompile, EndMatch, EndCreate, EndDispose
  <2>2. \A d \in Buffers : Honest(buffer'[d].context)
    <3>1. CASE EndCreate(c)
      BY <3>1 DEF EndCreate, LimitInv, Honest, TypeOK
    <3>2. CASE ~EndCreate(c)
      BY <1>11, <3>2 DEF EndCompile, EndMatch, EndDispose, LimitInv, Honest
    <3> QED
      BY <3>1, <3>2
  <2>3. settings' = settings
    BY <1>11 DEF EndCompile, EndMatch, EndCreate, EndDispose
  <2> QED
    BY <2>1, <2>2, <2>3 DEF LimitInv
<1>12. ASSUME \/ \E o \in Objects : Drop(o)
              \/ \E s \in Stacks : NewStack(s) \/ DisposeStack(s)
              \/ \E t \in Threads : DropMatch(t)
              \/ UNCHANGED vars
       PROVE  LimitInv'
  BY <1>5, <1>12 DEF Drop, NewStack, DisposeStack, DropMatch, vars
<1> QED
  BY <1>3, <1>4, <1>6, <1>7, <1>8, <1>9, <1>10, <1>11, <1>12 DEF Next

(* A program that sets no limit to zero has every match run under the      *)
(* limit its settings showed, whether it goes through a buffer or not.     *)
THEOREM LifetimesLimitsAreHonoured ==
  ASSUME 0 \notin Limits
  PROVE  Spec => []LimitsAreHonoured
<1>1. Init => LimitInv
  BY HonestContexts DEF Init, LimitInv, Honest, Idle, NoContext, NotSet
<1>2. Inv /\ LimitInv /\ [Next]_vars => LimitInv'
  BY LimitStep DEF Inv
<1>3. LimitInv => LimitsAreHonoured
  BY DEF LimitInv, Honest, LimitsAreHonoured
<1> QED
  BY <1>1, <1>2, <1>3, Invariance, PTL DEF Spec
=============================================================================
