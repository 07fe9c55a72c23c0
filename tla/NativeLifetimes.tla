----------------------------- MODULE NativeLifetimes -----------------------------
(***************************************************************************)
(* The native memory behind the managed objects: the compiled code of an   *)
(* InternalRegex, the native buffer of a PcreMatchBuffer and the stack of  *)
(* a PcreJitStack.  Native code works on raw pointers, which keep nothing  *)
(* alive; a managed object lives as long as a variable, a field of another *)
(* one or a GC.KeepAlive ahead refers to it, and its finalizer runs at any *)
(* time after that, in any order with the finalizers of the others.        *)
(*                                                                         *)
(* A native pointer is identified with the object that allocated it.  A    *)
(* call of native code is a frame, which starts when the raw pointers have *)
(* been read; it is the pair of a thread and a depth, for a callout of a   *)
(* running match may start another one.                                    *)
(***************************************************************************)
EXTENDS Integers

CONSTANTS
  Threads, Regexes, Buffers, Stacks,
  MaxDepth,       \* per thread, the bound on the nesting of matches in callouts
  Limits,         \* the values the program gives to HeapLimit
  DefaultLimit,   \* the limit PCRE2 is built with
  PatternLimit    \* (*LIMIT_HEAP=...) of each regex, or a larger value

None == "none"
NotSet == -1      \* null

Objects == Regexes \cup Buffers \cup Stacks
Slots == UNION {{t} \X (1..MaxDepth[t]) : t \in Threads}

ASSUME LifetimesAssumption ==
  /\ MaxDepth \in [Threads -> Nat]
  /\ Limits \subseteq Nat
  /\ DefaultLimit \in Nat
  /\ PatternLimit \in [Regexes -> Nat]
  /\ None \notin Objects
  /\ Regexes \cap Buffers = {} /\ Regexes \cap Stacks = {} /\ Buffers \cap Stacks = {}

VARIABLES
  native,    \* the memory each object allocated
  owns,      \* objects whose pointer field is not null
  armed,     \* objects whose finalizer is still to run
  held,      \* objects the program's variables (and its caches) refer to
  settings,  \* a PcreMatchSettings: JitStack and _heapLimit
  buffer,    \* per PcreMatchBuffer: Regex, _jitStack and the native context
  call,      \* the frame of native code in each slot
  match      \* the PcreRefMatch each thread keeps

vars == <<native, owns, armed, held, settings, buffer, call, match>>

-----------------------------------------------------------------------------
(* PcreMatchSettings and pcrenet_match.c.  The match, depth and heap limits *)
(* are treated alike: one stands for them.                                 *)

GetValueOrDefault_Raw(limit) == limit                          \* mutant

GetValueOrDefault(limit) == IF limit = NotSet THEN 0 ELSE limit

Limit_Dropped(n) == DefaultLimit                               \* mutant

apply_settings(n) == IF n # 0 THEN n ELSE DefaultLimit

(* What the getter of HeapLimit shows to the program. *)
HeapLimit == IF settings.limit = NotSet THEN DefaultLimit ELSE settings.limit

(* PcreJitStack.GetStack throws when the stack was disposed. *)
CanFill == settings.stack \in owns \cup {None}

(* The native match context, with what the settings showed for it. *)
FillMatchSettings ==
  [stack |-> settings.stack,
   limit |-> apply_settings(GetValueOrDefault(settings.limit)),
   shown |-> HeapLimit]

(* The limit in force when regex r is matched under a context. *)
Effective(limit, r) == IF limit < PatternLimit[r] THEN limit ELSE PatternLimit[r]

NoContext == [stack |-> None, limit |-> DefaultLimit, shown |-> DefaultLimit]
Idle == [op |-> "idle", on |-> None, context |-> NoContext]
NoMatch == [owner |-> None, on |-> None]

-----------------------------------------------------------------------------
(* The garbage collector. *)

KeptAlive_NoStack(f) == {f.on} \ {None}                        \* mutant

(* The objects of the GC.KeepAlive calls (or of the SuppressFinalize(this)) *)
(* that follow the native call.                                            *)
KeptAlive(f) ==
  {f.on, IF f.op = "match" THEN f.context.stack ELSE None} \ {None}

Roots ==
  held \cup ({settings.stack} \ {None}) \cup ({match[t].owner : t \in Threads} \ {None})
       \cup UNION {KeptAlive(call[c]) : c \in Slots}

Fields(b) == {buffer[b].regex, buffer[b].stack} \ {None}

Reachable == Roots \cup UNION {Fields(b) : b \in Roots \cap Buffers}

(* The memory the native code of a frame works on. *)
Uses(f) ==
  ({IF f.op = "create" THEN None ELSE f.on, f.context.stack}
     \cup IF f.op \in {"create", "bufferMatch"} THEN {buffer[f.on].regex} ELSE {})
  \ {None}

(* The memory a match reads for its groups and its mark. *)
Reads(m) ==
  ({m.on} \cup (IF m.on \in Buffers THEN {buffer[m.on].regex} ELSE {})) \ {None}

-----------------------------------------------------------------------------
Unmade(o) == native[o] = "none" /\ o \notin armed /\ o \notin Reachable

Free(n) == IF n = "live" THEN "freed" ELSE "corrupt"

InNative(f) == f.op \in {"match", "bufferMatch"}

(* A frame starts in a free slot: the program's own, or a callout's. *)
Enter(c, op, o, context) ==
  /\ call[c] = Idle
  /\ c[2] > 1 => InNative(call[<<c[1], c[2] - 1>>])
  /\ call' = [call EXCEPT ![c] = [op |-> op, on |-> o, context |-> context]]

Leave(c, op) ==
  /\ call[c].op = op
  /\ c[2] < MaxDepth[c[1]] => call[<<c[1], c[2] + 1>>] = Idle
  /\ call' = [call EXCEPT ![c] = Idle]

Init ==
  /\ native = [o \in Objects |-> "none"]
  /\ owns = {} /\ armed = {} /\ held = {}
  /\ settings = [stack |-> None, limit |-> NotSet]
  /\ buffer = [b \in Buffers |-> [regex |-> None, stack |-> None, context |-> NoContext]]
  /\ call = [c \in Slots |-> Idle]
  /\ match = [t \in Threads |-> NoMatch]

(* The program's own variables and settings. *)

Drop(o) ==
  /\ o \in held
  /\ held' = held \ {o}
  /\ UNCHANGED <<native, owns, armed, settings, buffer, call, match>>

SetHeapLimit(n) ==
  /\ settings' = [settings EXCEPT !.limit = n]
  /\ UNCHANGED <<native, owns, armed, held, buffer, call, match>>

SetJitStack(s) ==
  /\ s \in held \cup {None}
  /\ settings' = [settings EXCEPT !.stack = s]
  /\ UNCHANGED <<native, owns, armed, held, buffer, call, match>>

DropMatch(t) ==
  /\ match[t] # NoMatch
  /\ match' = [match EXCEPT ![t] = NoMatch]
  /\ UNCHANGED <<native, owns, armed, held, settings, buffer, call>>

(* PcreJitStack: jit_stack_create may return NULL, which nothing checks. *)

NewStack(s) ==
  /\ Unmade(s)
  /\ armed' = armed \cup {s}
  /\ held' = held \cup {s}
  /\ \/ native' = [native EXCEPT ![s] = "live"] /\ owns' = owns \cup {s}
     \/ UNCHANGED <<native, owns>>
  /\ UNCHANGED <<settings, buffer, call, match>>

(* PcreJitStack.Dispose.  It is not thread-safe and the program has to know *)
(* that no match and no usable buffer works on the stack.                  *)
DisposeStack(s) ==
  /\ s \in held
  /\ \A c \in Slots : call[c].context.stack # s
  /\ \A b \in Reachable \cap Buffers \cap owns : buffer[b].context.stack # s
  /\ native' = IF s \in owns THEN [native EXCEPT ![s] = Free(native[s])] ELSE native
  /\ owns' = owns \ {s}
  /\ armed' = armed \ {s}
  /\ UNCHANGED <<held, settings, buffer, call, match>>

(* InternalRegex: the constructor stores the code, then reads its table of *)
(* names.  A pattern in error allocates nothing and is disposed at once.   *)

Compile(c, r) ==
  /\ Unmade(r)
  /\ native' = [native EXCEPT ![r] = "live"]
  /\ owns' = owns \cup {r}
  /\ armed' = armed \cup {r}
  /\ Enter(c, "compile", r, NoContext)
  /\ UNCHANGED <<held, settings, buffer, match>>

EndCompile(c) ==
  /\ Leave(c, "compile")
  /\ held' = held \cup {call[c].on}
  /\ UNCHANGED <<native, owns, armed, settings, buffer, match>>

(* A match of the regex itself, which stands for every native call made    *)
(* through one.  It ends with a match, or with an exception and without.   *)

Match(c, r) ==
  /\ r \in held /\ CanFill
  /\ Enter(c, "match", r, FillMatchSettings)
  /\ UNCHANGED <<native, owns, armed, held, settings, buffer, match>>

OwnerOf_Regex(o) == IF o \in Buffers THEN buffer[o].regex ELSE o  \* mutant

(* The object a match keeps alive: the regex, or the buffer. *)
OwnerOf(o) == o

EndMatch(c) ==
  /\ Leave(c, "match") \/ Leave(c, "bufferMatch")
  /\ \/ match' = [match EXCEPT ![c[1]] =
                    [owner |-> OwnerOf(call[c].on), on |-> call[c].on]]
     \/ UNCHANGED match
  /\ UNCHANGED <<native, owns, armed, held, settings, buffer>>

(* PcreMatchBuffer: the constructor takes the raw pointers, or throws and  *)
(* leaves an object whose finalizer will run; then the native buffer is    *)
(* made, or is not and the constructor throws.                             *)

CreateBuffer(c, b, r) ==
  /\ Unmade(b) /\ r \in held
  /\ armed' = armed \cup {b}
  /\ IF CanFill
     THEN /\ Enter(c, "create", b, FillMatchSettings)
          /\ buffer' = [buffer EXCEPT ![b] =
               [regex |-> r, stack |-> settings.stack, context |-> NoContext]]
     ELSE /\ buffer' = [buffer EXCEPT ![b] =
               [regex |-> r, stack |-> None, context |-> NoContext]]
          /\ UNCHANGED call
  /\ UNCHANGED <<native, owns, held, settings, match>>

EndCreate(c) ==
  LET b == call[c].on IN
  /\ Leave(c, "create")
  /\ \/ /\ native' = [native EXCEPT ![b] = "live"]
        /\ owns' = owns \cup {b}
        /\ held' = held \cup {b}
        /\ buffer' = [buffer EXCEPT ![b].context = call[c].context]
     \/ UNCHANGED <<native, owns, held, buffer>>
  /\ UNCHANGED <<armed, settings, match>>

(* BufferMatch throws when the buffer was disposed.  A buffer runs one     *)
(* match at a time: it is "not thread-safe and not reentrant".             *)
BufferMatch(c, b) ==
  /\ b \in held /\ b \in owns
  /\ \A d \in Slots : call[d].op = "bufferMatch" => call[d].on # b
  /\ Enter(c, "bufferMatch", b, buffer[b].context)
  /\ UNCHANGED <<native, owns, armed, held, settings, buffer, match>>

DisposeBuffer_CheckThenFree(c, b) ==                           \* mutant
  /\ b \in held /\ b \in owns
  /\ \A d \in Slots : call[d].op = "bufferMatch" => call[d].on # b
  /\ \A t \in Threads : match[t].on # b
  /\ Enter(c, "dispose", b, NoContext)
  /\ UNCHANGED <<native, owns, armed, held, settings, buffer, match>>

(* Dispose: the field is exchanged with null, then what it held is freed.  *)
(* Two calls may overlap; a running match, or one still read, may not.     *)
DisposeBuffer(c, b) ==
  /\ b \in held
  /\ \A d \in Slots : call[d].op = "bufferMatch" => call[d].on # b
  /\ \A t \in Threads : match[t].on # b
  /\ buffer' = [buffer EXCEPT ![b].stack = None]
  /\ IF b \in owns
     THEN /\ owns' = owns \ {b}
          /\ Enter(c, "dispose", b, NoContext)
          /\ UNCHANGED armed
     ELSE /\ armed' = armed \ {b}
          /\ UNCHANGED <<owns, call>>
  /\ UNCHANGED <<native, held, settings, match>>

EndDispose_Forgets(c) ==                                       \* mutant
  /\ Leave(c, "dispose")
  /\ armed' = armed \ {call[c].on}
  /\ UNCHANGED <<native, owns, held, settings, buffer, match>>

EndDispose(c) ==
  LET b == call[c].on IN
  /\ Leave(c, "dispose")
  /\ native' = [native EXCEPT ![b] = Free(native[b])]
  /\ armed' = armed \ {b}
  /\ UNCHANGED <<owns, held, settings, buffer, match>>

Finalize_Stacks(o) ==                                          \* mutant
  /\ o \in armed \cap Stacks /\ o \notin Reachable
  /\ native' = IF o \in owns THEN [native EXCEPT ![o] = Free(native[o])] ELSE native
  /\ owns' = owns \ {o}
  /\ armed' = armed \ {o}
  /\ UNCHANGED <<held, settings, buffer, call, match>>

(* The finalizers: FreeCode, FreeBuffer and FreeStack. *)
Finalize(o) ==
  /\ o \in armed /\ o \notin Reachable
  /\ native' = IF o \in owns THEN [native EXCEPT ![o] = Free(native[o])] ELSE native
  /\ owns' = owns \ {o}
  /\ armed' = armed \ {o}
  /\ buffer' = IF o \in Buffers THEN [buffer EXCEPT ![o].stack = None] ELSE buffer
  /\ UNCHANGED <<held, settings, call, match>>

Next ==
  \/ \E o \in Objects : Drop(o) \/ Finalize(o)
  \/ \E n \in Limits \cup {NotSet} : SetHeapLimit(n)
  \/ \E s \in Stacks : NewStack(s) \/ DisposeStack(s)
  \/ \E s \in Stacks \cup {None} : SetJitStack(s)
  \/ \E t \in Threads : DropMatch(t)
  \/ \E c \in Slots :
       \/ \E r \in Regexes : Compile(c, r) \/ Match(c, r)
       \/ \E b \in Buffers, r \in Regexes : CreateBuffer(c, b, r)
       \/ \E b \in Buffers : BufferMatch(c, b) \/ DisposeBuffer(c, b)
       \/ EndCompile(c) \/ EndMatch(c) \/ EndCreate(c) \/ EndDispose(c)

Spec == Init /\ [][Next]_vars

(* The runtime finalizes every object that became unreachable. *)
FairSpec == Spec /\ \A o \in Objects : WF_vars(Finalize(o))

-----------------------------------------------------------------------------
(* Properties. *)

Contexts ==
  [stack : Stacks \cup {None}, limit : Nat, shown : Nat]

Frames ==
  [op : {"idle", "compile", "match", "create", "bufferMatch", "dispose"},
   on : Regexes \cup Buffers \cup {None},
   context : Contexts]

(* Every variable has its type. *)
TypeOK ==
  /\ native \in [Objects -> {"none", "live", "freed", "corrupt"}]
  /\ owns \subseteq Objects /\ armed \subseteq Objects /\ held \subseteq Objects
  /\ settings \in [stack : Stacks \cup {None}, limit : Nat \cup {NotSet}]
  /\ buffer \in [Buffers -> [regex : Regexes \cup {None},
                             stack : Stacks \cup {None}, context : Contexts]]
  /\ call \in [Slots -> Frames]
  /\ match \in [Threads -> [owner : Regexes \cup Buffers \cup {None},
                            on : Regexes \cup Buffers \cup {None}]]

(* Native code never works on freed memory: the KeepAlive calls, with the  *)
(* references a buffer has to its regex and its stack, are enough whatever *)
(* the program drops, and whatever it starts in a callout, meanwhile ("The *)
(* buffer keeps alive all the other required stuff").                      *)
NoUseAfterFree ==
  \A c \in Slots : \A o \in Uses(call[c]) : native[o] = "live"

(* No memory is freed twice, by overlapping calls of Dispose of one buffer *)
(* or by Dispose and the finalizer.                                        *)
FreedOnce == \A o \in Objects : native[o] # "corrupt"

(* Memory that is not freed yet has someone left to free it: an object     *)
(* with its pointer and its finalizer, or a Dispose in progress.           *)
NothingLost ==
  \A o \in Objects :
    native[o] = "live" =>
      \/ o \in owns /\ o \in armed
      \/ \E c \in Slots : call[c].op = "dispose" /\ call[c].on = o

(* The groups and the mark of a match can be read for as long as the match *)
(* is kept ("Needs to be kept alive as long as this match is used"), also  *)
(* when its regex or its buffer has no other reference left.               *)
MatchReadable ==
  \A t \in Threads : \A o \in Reads(match[t]) : native[o] = "live"

(* A match runs under the limit its settings showed when they were given:  *)
(* at the call, or when the buffer was created; a limit of the pattern     *)
(* counts when it is the smaller one.                                      *)
LimitsAreHonoured ==
  \A c \in Slots :
    InNative(call[c]) =>
      LET f == call[c]
          r == IF f.on \in Buffers THEN buffer[f.on].regex ELSE f.on
      IN Effective(f.context.limit, r) = Effective(f.context.shown, r)

(* Memory nobody can reach any more is freed in the end, whichever         *)
(* constructor failed and in whatever order the finalizers run: there is   *)
(* always a later moment without any.                                      *)
EventuallyFreed ==
  []<>(\A o \in Objects : native[o] = "live" => o \in Reachable)
=============================================================================
