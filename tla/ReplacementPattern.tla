--------------------------- MODULE ReplacementPattern ---------------------------
(***************************************************************************)
(* The replacement strings of PcreRegex.Replace: ReplacementPattern.Parse   *)
(* cuts one into parts, and the function it returns appends the text of    *)
(* each part for a match.  Each step of the scanner is an action.          *)
(***************************************************************************)
EXTENDS MatchGroups

CONSTANTS
  Chars,
  Patterns,      \* the replacement strings
  Subject,
  AllCaptures,   \* what the match may have captured
  MaxInt         \* bound of int.TryParse: 2147483647 in the code

DigitValues ==
  LET digit == <<"0", "1", "2", "3", "4", "5", "6", "7", "8", "9">> IN
  [d \in {digit[i] : i \in 1..10} |-> (CHOOSE i \in 1..10 : digit[i] = d) - 1]

Digits == DOMAIN DigitValues

ASSUME ReplacementAssumption ==
  /\ Patterns \subseteq Seq(Chars)
  /\ Subject \in Seq(Chars)
  /\ AllCaptures \subseteq Captures
  /\ \A c \in AllCaptures : \A i \in Captured(c) :
       c[i][1] <= Len(Subject) /\ c[i][2] <= Len(Subject)
  /\ MaxInt \in Nat /\ CaptureCount <= MaxInt

VARIABLES
  pattern,    \* replacementPattern
  captures,   \* what the last match replaced has captured: << >> before the first
  pc,         \* where Parse is
  idx,        \* idx
  startIdx,   \* startIdx
  parts,      \* parts
  ends,       \* history: idx after each part
  sb          \* the text that replaced it

vars == <<pattern, captures, pc, idx, startIdx, parts, ends, sb>>

Slice(s, from, length) == SubSeq(s, from + 1, from + length)

(* The kinds of parts; the text of a LiteralPart is its literal text, that *)
(* of a group the fallback for when the pattern has no such group.         *)
LiteralPart(text) == [kind |-> "literal", text |-> text]
Dollar == LiteralPart(<<"$">>)
IndexedGroupPart(index, fallback) == [kind |-> "indexed", index |-> index, text |-> fallback]
NamedGroupPart(name, index, fallback) ==
  [kind |-> "named", name |-> name, index |-> index, text |-> fallback]
Instance(kind) == [kind |-> kind]

Decimal(s) ==
  LET Value[n \in 0..Len(s)] == IF n = 0 THEN 0 ELSE 10 * Value[n - 1] + DigitValues[s[n]] IN
  Value[Len(s)]

TryParse_Unbounded(s) ==                                       \* mutant
  IF \A i \in 1..Len(s) : s[i] \in Digits THEN Decimal(s) ELSE -1

IsNumeral(s) == s # << >> /\ \A i \in 1..Len(s) : s[i] \in Digits

(* int.TryParse with NumberStyles.None; -1 when it fails. *)
TryParse(s) ==
  IF IsNumeral(s) /\ Decimal(s) \in 0..MaxInt THEN Decimal(s) ELSE -1

AtEnd == idx >= Len(pattern)
Char == pattern[idx + 1]

(* Consumes the pattern up to end, which part stands for. *)
Add(part, end) ==
  /\ parts' = Append(parts, part)
  /\ idx' = end
  /\ ends' = Append(ends, end)

Goto(label) == pc' = label

Init ==
  /\ pattern \in Patterns /\ captures = << >>
  /\ pc = "start"
  /\ idx = 0 /\ startIdx = 0
  /\ parts = << >> /\ ends = << >> /\ sb = << >>

Dollars == {i \in 1..Len(pattern) : pattern[i] = "$"}

(* What is before the first dollar, or all of the pattern. *)
Start ==
  /\ pc = "start"
  /\ \/ /\ Len(pattern) = 0
        /\ Goto("parsed") /\ UNCHANGED <<parts, idx, ends>>
     \/ /\ Len(pattern) > 0 /\ Dollars = {}
        /\ Add(LiteralPart(pattern), Len(pattern))
        /\ Goto("parsed")
     \/ \E i \in Dollars :
          /\ \A j \in Dollars : i <= j
          /\ Goto("top")
          /\ IF i > 1 THEN Add(LiteralPart(Slice(pattern, 0, i - 1)), i - 1)
             ELSE UNCHANGED <<parts, idx, ends>>
  /\ UNCHANGED <<pattern, captures, startIdx, sb>>

Top ==
  /\ pc = "top"
  /\ \/ AtEnd /\ Goto("parsed") /\ UNCHANGED <<idx, startIdx>>
     \/ ~AtEnd /\ Char = "$" /\ idx' = idx + 1 /\ Goto("dollar") /\ UNCHANGED startIdx
     \/ ~AtEnd /\ Char # "$" /\ startIdx' = idx /\ Goto("text") /\ UNCHANGED idx
  /\ UNCHANGED <<pattern, captures, parts, ends, sb>>

Text ==
  /\ pc = "text"
  /\ IF ~AtEnd /\ Char # "$"
     THEN idx' = idx + 1 /\ UNCHANGED <<pc, parts, ends>>
     ELSE Add(LiteralPart(Slice(pattern, startIdx, idx - startIdx)), idx) /\ Goto("top")
  /\ UNCHANGED <<pattern, captures, startIdx, sb>>

(* The quote and the backquote are written as words: in a string, TLA+'s   *)
(* lexer takes a backquote for the beginning of a quotation.               *)
Special(char) ==
  CASE char = "$" -> Dollar
    [] char = "&" -> IndexedGroupPart(0, << >>)
    [] char = "backquote" -> Instance("preMatch")
    [] char = "quote" -> Instance("postMatch")
    [] char = "_" -> Instance("fullInput")
    [] char = "+" -> Instance("lastMatchedGroup")
    [] OTHER -> LiteralPart(<<"$", char>>)

(* The switch on the character after a dollar. *)
AfterDollar ==
  /\ pc = "dollar"
  /\ \/ AtEnd /\ Add(Dollar, idx) /\ Goto("parsed") /\ UNCHANGED startIdx
     \/ /\ ~AtEnd /\ Char \in {"{"} \cup Digits
        /\ startIdx' = idx
        /\ Goto(IF Char = "{" THEN "brace" ELSE "digits")
        /\ UNCHANGED <<parts, idx, ends>>
     \/ /\ ~AtEnd /\ Char \notin {"{"} \cup Digits
        /\ Add(Special(Char), idx + 1) /\ Goto("top") /\ UNCHANGED startIdx
  /\ UNCHANGED <<pattern, captures, sb>>

BraceEnd_Swallowed ==                                          \* mutant
  Add(LiteralPart(Slice(pattern, startIdx - 1, idx - startIdx + 1)),
      IF AtEnd THEN idx ELSE idx + 1)

(* No name, or no closing brace: the text up to here is left as it is.     *)
BraceEnd == Add(LiteralPart(Slice(pattern, startIdx - 1, idx - startIdx + 1)), idx)

Brace ==
  /\ pc = "brace"
  /\ \/ ~AtEnd /\ Char # "}" /\ idx' = idx + 1 /\ UNCHANGED <<pc, parts, ends>>
     \/ /\ ~AtEnd /\ Char = "}" /\ idx > startIdx + 1
        /\ LET name == Slice(pattern, startIdx + 1, idx - startIdx - 1) IN
             Add(NamedGroupPart(name, TryParse(name),
                                Slice(pattern, startIdx - 1, idx - startIdx + 2)),
                 idx + 1)
        /\ Goto("top")
     \/ /\ ~AtEnd => Char = "}" /\ idx = startIdx + 1
        /\ BraceEnd /\ Goto("top")
  /\ UNCHANGED <<pattern, captures, startIdx, sb>>

DigitsPart_NoOverflow(text, fallback) ==                       \* mutant
  IndexedGroupPart(TryParse(text), << >>)

DigitsPart(text, fallback) ==
  IF TryParse(text) >= 0 THEN IndexedGroupPart(TryParse(text), fallback)
  ELSE LiteralPart(fallback)

DigitRun ==
  /\ pc = "digits"
  /\ IF ~AtEnd /\ Char \in Digits
     THEN idx' = idx + 1 /\ UNCHANGED <<pc, parts, ends>>
     ELSE /\ Add(DigitsPart(Slice(pattern, startIdx, idx - startIdx),
                            Slice(pattern, startIdx - 1, idx - startIdx + 1)), idx)
          /\ Goto("top")
  /\ UNCHANGED <<pattern, captures, startIdx, sb>>

-----------------------------------------------------------------------------
(* The function Parse returns, and ReplacementPart.Append.                 *)

ValueOf(g) == Slice(Subject, g.index, GroupLength(g))

GroupText(g, fallback) ==
  IF ~g.defined THEN fallback ELSE IF Success(g) THEN ValueOf(g) ELSE << >>

LastMatchedGroup(m) ==
  LET set == {i \in 1..CaptureCount : Success(GetGroup(m, i))} IN
  IF set = {} THEN Empty ELSE GetGroup(m, CHOOSE i \in set : \A j \in set : j <= i)

NamedGroupText(part, m) ==
  LET g == GetNamedGroup(m, part.name) IN
  GroupText(IF g.defined THEN g ELSE GetGroup(m, part.index), part.text)

PartText(part, m) ==
  CASE part.kind = "literal" -> part.text
    [] part.kind = "indexed" -> GroupText(GetGroup(m, part.index), part.text)
    [] part.kind = "named" -> NamedGroupText(part, m)
    [] part.kind = "preMatch" -> Slice(Subject, 0, GetGroup(m, 0).index)
    [] part.kind = "postMatch" ->
         LET end == GetGroup(m, 0).endIndex IN Slice(Subject, end, Len(Subject) - end)
    [] part.kind = "fullInput" -> Subject
    [] part.kind = "lastMatchedGroup" -> GroupText(LastMatchedGroup(m), << >>)

(* The function is called for match after match, also from the cache; the  *)
(* constant that literals alone are replaced with is the same text.        *)
AppendParts(c) ==
  LET Text_[k \in 0..Len(parts)] ==
        IF k = 0 THEN << >> ELSE Text_[k - 1] \o PartText(parts[k], RealMatch(c)) IN
  /\ pc = "parsed"
  /\ captures' = c
  /\ sb' = Text_[Len(parts)]
  /\ UNCHANGED <<pattern, pc, idx, startIdx, parts, ends>>

Next ==
  \/ Start \/ Top \/ Text \/ AfterDollar \/ Brace \/ DigitRun
  \/ \E c \in AllCaptures : AppendParts(c)

Spec == Init /\ [][Next]_vars

-----------------------------------------------------------------------------
(* Properties. *)

Parts ==
  [kind : {"literal"}, text : Seq(Chars \cup {"$"})]
    \cup [kind : {"indexed"}, index : 0..MaxInt, text : Seq(Chars)]
    \cup [kind : {"named"}, name : Seq(Chars), index : -1..MaxInt, text : Seq(Chars)]
    \cup [kind : {"preMatch", "postMatch", "fullInput", "lastMatchedGroup"}]

(* Every variable has its type; a group number fits an int.                *)
TypeOK ==
  /\ pattern \in Patterns
  /\ captures \in AllCaptures \cup {<< >>}
  /\ pc \in {"start", "top", "text", "dollar", "brace", "digits", "parsed"}
  /\ idx \in 0..Len(pattern) /\ startIdx \in 0..Len(pattern)
  /\ parts \in Seq(Parts)
  /\ ends \in Seq(0..Len(pattern))

Begin(k) == IF k = 1 THEN 0 ELSE ends[k - 1]

Source(k) == SubSeq(pattern, Begin(k) + 1, ends[k])

(* The text a part keeps is the characters it stands for, but for a dollar *)
(* that escapes another; the parts without a text stand for two.           *)
StandsFor(part, source) ==
  CASE part.kind = "literal" -> part.text = source \/ (part = Dollar /\ source = <<"$", "$">>)
    [] part.kind = "named" -> part.text = source
    [] part.kind = "indexed" -> part.text = source \/ source = <<"$", "&">>
    [] OTHER -> source[1] = "$" /\ Len(source) = 2

Covered == IF ends = << >> THEN 0 ELSE ends[Len(ends)]

(* The parts cut the replacement string without a gap or an overlap, and   *)
(* what is not a placeholder, or names no group, keeps its text: nothing   *)
(* of a string that ends in the middle of a placeholder, or has a number   *)
(* that is too large, is lost or repeated.                                 *)
PartsCoverPattern ==
  /\ Len(ends) = Len(parts)
  /\ \A k \in 1..Len(parts) : Begin(k) < ends[k] /\ StandsFor(parts[k], Source(k))
  /\ pc = "parsed" => Covered = Len(pattern)

AsCaptured(c, i) ==
  IF i \in Captured(c) THEN Group(c[i][1], c[i][2]) ELSE Empty

Reads(m, i, g) == GetGroup(m, i) = g /\ Shown(RefGetGroup(m, i)) = g

(* Whatever object a match is read through - the result of a match, of a   *)
(* partial match whose vector holds offsets of an earlier one, the match   *)
(* of a callout - a group shows what the pattern has captured and nothing  *)
(* else, and PcreRefGroup, which shifts the offsets, agrees with PcreGroup.*)
GroupsAsCaptured ==
  captures # << >> =>
    \A i \in -1..(CaptureCount + 1) :
      IF i \notin Groups
      THEN \A m \in {RealMatch(captures), PartialMatch(captures),
                     CalloutMatch(captures), NoMatch} : Reads(m, i, Undefined)
      ELSE /\ Reads(RealMatch(captures), i, AsCaptured(captures, i))
           /\ Reads(CalloutMatch(captures), i, AsCaptured(captures, i))
           /\ Reads(PartialMatch(captures), i,
                    IF i = 0 THEN AsCaptured(captures, 0) ELSE Empty)
           /\ Reads(NoMatch, i, Empty)
=============================================================================
