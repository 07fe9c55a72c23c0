-------------------------------- MODULE RegexKey --------------------------------
(***************************************************************************)
(* The key of the cache of regexes: a pattern with a snapshot of its       *)
(* PcreRegexSettings; and the way the settings reach pcre2_compile, through *)
(* the compile input and the compile context.                              *)
(*                                                                         *)
(* A flag enumeration is the set of its flags.  A field that is not set is *)
(* Null; the native side takes 0 for "not set".                            *)
(***************************************************************************)
EXTENDS Integers, Sequences

CONSTANTS
  Patterns, PcreOptions, ExtraOptions, JitOptions, Directives,
  Build     \* what PCRE2 is built with: NewLine, BackslashR, ParensLimit

Null == -1
MAX_VARLOOKBEHIND == 255
Unlimited == "unlimited"

BuildFields == {"newLine", "backslashR", "parensLimit"}

(* The build has no setting of zero. *)
ASSUME BuildAssumption == Build \in [BuildFields -> Nat \ {0}]

Nullable == Nat \cup {Null}

(* The private fields of PcreRegexSettings. *)
Settings ==
  [options : SUBSET PcreOptions, extraCompileOptions : SUBSET ExtraOptions,
   jitCompileOptions : SUBSET JitOptions,
   newLine : Nullable, backslashR : Nullable, parensLimit : Nullable,
   maxPatternLength : Nullable, maxPatternCompiledLength : Nullable,
   maxVarLookbehind : Nullable, optimizationDirectives : Seq(Directives)]

RegexKeys == [pattern : Patterns, settings : Settings]

Getter(s, f) == IF s[f] = Null THEN Build[f] ELSE s[f]

MaxVarLookbehind(s) == IF s.maxVarLookbehind = Null THEN 255 ELSE s.maxVarLookbehind

(* PcreOptions.Compiled and CompiledPartial ask for the JIT compiler. *)
ToJitCompileOptions(options) ==
  (IF "Compiled" \in options THEN {"Complete"} ELSE {})
    \cup (IF "CompiledPartial" \in options THEN {"PartialSoft", "PartialHard"} ELSE {})

JitCompileOptions(s) == s.jitCompileOptions \cup ToJitCompileOptions(s.options)

(* The upper half of the flags is the library's own. *)
ToPatternOptions(options) == options \ {"Compiled", "CompiledPartial"}

CompareValues_NoDirectives(a, b) ==                            \* mutant
  /\ a.options = b.options
  /\ \A f \in BuildFields : Getter(a, f) = Getter(b, f)
  /\ a.maxPatternLength = b.maxPatternLength
  /\ a.maxPatternCompiledLength = b.maxPatternCompiledLength
  /\ MaxVarLookbehind(a) = MaxVarLookbehind(b)
  /\ a.extraCompileOptions = b.extraCompileOptions
  /\ JitCompileOptions(a) = JitCompileOptions(b)

CompareValues(a, b) ==
  /\ a.options = b.options
  /\ \A f \in BuildFields : Getter(a, f) = Getter(b, f)
  /\ a.maxPatternLength = b.maxPatternLength
  /\ a.maxPatternCompiledLength = b.maxPatternCompiledLength
  /\ MaxVarLookbehind(a) = MaxVarLookbehind(b)
  /\ a.extraCompileOptions = b.extraCompileOptions
  /\ JitCompileOptions(a) = JitCompileOptions(b)
  /\ a.optimizationDirectives = b.optimizationDirectives

(* A read-only copy of every field, which later setters do not reach. *)
ToReadOnlySnapshot(s, additionalOptions) ==
  [s EXCEPT !.options = @ \cup additionalOptions]

(* The key a PcreRegex looks its pattern up with. *)
NewKey(pattern, s) ==
  [pattern |-> pattern,
   settings |-> ToReadOnlySnapshot(ToReadOnlySnapshot(s, {"Utf"}), {})]

(* RegexKey.Equals; the hash code is that of the pattern alone. *)
Equals(k, l) == k.pattern = l.pattern /\ CompareValues(k.settings, l.settings)

GetHashCode(k) == k.pattern

(* Nullable<T>.GetValueOrDefault *)
OrZero(v) == IF v = Null THEN 0 ELSE v

FillCompileInput(s) ==
  [flags |-> ToPatternOptions(s.options), flags_jit |-> JitCompileOptions(s),
   new_line |-> OrZero(s.newLine), bsr |-> OrZero(s.backslashR),
   parens_nest_limit |-> OrZero(s.parensLimit),
   max_pattern_length |-> OrZero(s.maxPatternLength),
   max_pattern_compiled_length |-> OrZero(s.maxPatternCompiledLength),
   max_var_lookbehind |-> MaxVarLookbehind(s),
   compile_extra_options |-> s.extraCompileOptions,
   optimization_directives |-> s.optimizationDirectives]

(* pcrenet_compile.c: what pcre2_compile and pcre2_jit_compile are given,  *)
(* where a value of zero leaves the one the context was created with.      *)
CompileContext(input) ==
  LET Set(value, default) == IF value # 0 THEN value ELSE default IN
  [options |-> input.flags, jit |-> input.flags_jit,
   newline |-> Set(input.new_line, Build["newLine"]),
   bsr |-> Set(input.bsr, Build["backslashR"]),
   parens_nest_limit |-> Set(input.parens_nest_limit, Build["parensLimit"]),
   max_pattern_length |-> Set(input.max_pattern_length, Unlimited),
   max_pattern_compiled_length |-> Set(input.max_pattern_compiled_length, Unlimited),
   max_varlookbehind |-> IF input.max_var_lookbehind # MAX_VARLOOKBEHIND
                         THEN input.max_var_lookbehind ELSE MAX_VARLOOKBEHIND,
   extra_options |-> input.compile_extra_options,
   optimize |-> input.optimization_directives]

(* What the factory of the cache compiles for a key. *)
Compiled(k) == <<k.pattern, CompileContext(FillCompileInput(k.settings))>>
=============================================================================
