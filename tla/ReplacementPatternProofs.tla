------------------------ MODULE ReplacementPatternProofs ------------------------
(***************************************************************************)
(* Proofs about the parser of replacement strings, for every string: the   *)
(* parts it makes have their types and cover the string, and the text they *)
(* append is what the grammar gives; and about the groups of a match, for  *)
(* everything that it may have captured.                                   *)
(***************************************************************************)
EXTENDS ReplacementGrammar, SequenceTheorems, NaturalsInduction, WellFoundedInduction, TLAPS

(* The parts made so far stand for the characters consumed so far. *)
Tiles ==
  /\ Len(ends) = Len(parts)
  /\ \A k \in 1..Len(parts) : Begin(k) < ends[k] /\ StandsFor(parts[k], Source(k))

(* Where the scanner is in relation to the last part it has made. *)
Position ==
  /\ pc = "start" => ends = << >> /\ idx = 0
  /\ pc = "top" => Covered = idx
  /\ pc = "text" =>
       Covered = startIdx /\ startIdx <= idx /\ (startIdx = idx => ~AtEnd /\ Char # "$")
  /\ pc = "dollar" => Covered = idx - 1 /\ idx >= 1 /\ pattern[idx] = "$"
  /\ pc \in {"brace", "digits"} =>
       Covered = startIdx - 1 /\ startIdx >= 1 /\ startIdx <= idx
  /\ pc = "parsed" => Covered = Len(pattern)

Inv == TypeOK /\ Tiles /\ Position

-----------------------------------------------------------------------------
(* The number a string of digits stands for fits an int, or is -1. *)
LEMMA TryParseRange == \A s : TryParse(s) \in -1..MaxInt
  BY ReplacementAssumption DEF TryParse

(* A slice of the pattern, as a sequence. *)
LEMMA PatternSlice ==
  ASSUME NEW p \in Seq(Chars), NEW m \in 1..(Len(p) + 1), NEW n \in Nat, n <= Len(p),
         m <= n + 1
  PROVE  SubSeq(p, m, n) \in Seq(Chars) /\ Len(SubSeq(p, m, n)) = n - m + 1
         /\ \A i \in 1..(n - m + 1) : SubSeq(p, m, n)[i] = p[m + i - 1]
<1>1. Len(p) \in Nat /\ \A i \in m..n : p[i] \in Chars
  BY ElementOfSeq, LenProperties
<1> QED
  BY <1>1, SubSeqProperties

(* The two characters that end at end. *)
LEMMA TwoChars ==
  ASSUME NEW p \in Seq(Chars), NEW n \in 1..(Len(p) - 1)
  PROVE  SubSeq(p, n, n + 1) = <<p[n], p[n + 1]>>
<1>1. Len(p) \in Nat /\ p[n] \in Chars /\ p[n + 1] \in Chars
  BY ElementOfSeq, LenProperties
<1>2. /\ SubSeq(p, n, n + 1) \in Seq(Chars)
      /\ Len(SubSeq(p, n, n + 1)) = 2
      /\ \A i \in 1..2 : SubSeq(p, n, n + 1)[i] = p[n + i - 1]
  BY <1>1, PatternSlice
<1>3. <<p[n], p[n + 1]>> \in Seq(Chars) /\ Len(<<p[n], p[n + 1]>>) = 2
  BY <1>1
<1>4. \A i \in 1..2 : SubSeq(p, n, n + 1)[i] = <<p[n], p[n + 1]>>[i]
  BY <1>1, <1>2
<1> QED
  BY <1>2, <1>3, <1>4, SeqEqual

(* Adding a part that stands for the characters up to end. *)
LEMMA AddTiles ==
  ASSUME TypeOK, Tiles, pattern' = pattern, NEW part \in Parts, NEW end \in 0..Len(pattern),
         parts' = Append(parts, part), ends' = Append(ends, end), idx' = end,
         Covered < end, StandsFor(part, SubSeq(pattern, Covered + 1, end))
  PROVE  Tiles' /\ Covered' = end /\ parts' \in Seq(Parts) /\ ends' \in Seq(0..Len(pattern'))
         /\ idx' = end
<1>1. /\ parts \in Seq(Parts) /\ ends \in Seq(0..Len(pattern))
      /\ Len(parts) \in Nat /\ Len(ends) = Len(parts)
      /\ parts' = Append(parts, part) /\ ends' = Append(ends, end) /\ idx' = end
  BY LenProperties DEF TypeOK, Tiles
<1>2. /\ parts' \in Seq(Parts) /\ ends' \in Seq(0..Len(pattern'))
      /\ Len(parts') = Len(parts) + 1 /\ Len(ends') = Len(parts) + 1
      /\ \A k \in 1..Len(parts) : parts'[k] = parts[k] /\ ends'[k] = ends[k]
      /\ parts'[Len(parts) + 1] = part /\ ends'[Len(parts) + 1] = end
  BY <1>1, AppendProperties
<1>3. Covered' = end
  BY <1>1, <1>2 DEF Covered
<1>4. \A k \in 1..Len(parts)' :
        (Begin(k) < ends[k])' /\ StandsFor(parts[k], Source(k))'
  <2> SUFFICES ASSUME NEW k \in 1..Len(parts)'
               PROVE  Begin(k)' < ends'[k] /\ StandsFor(parts'[k], Source(k)')
    BY DEF StandsFor, Dollar, LiteralPart
  <2>1. CASE k <= Len(parts)
    <3>1. k \in 1..Len(parts) /\ ends'[k] = ends[k] /\ parts'[k] = parts[k]
      BY <1>1, <1>2, <2>1
    <3>2. Begin(k)' = Begin(k)
      <4>1. k # 1 => k - 1 \in 1..Len(parts)
        BY <1>1, <3>1
      <4> QED
        BY <1>2, <4>1 DEF Begin
    <3>3. Source(k)' = Source(k)
      BY <3>1, <3>2 DEF Source
    <3> QED
      BY <3>1, <3>2, <3>3 DEF Tiles
  <2>2. CASE k = Len(parts) + 1
    <3>1. Begin(k)' = Covered
      BY <1>1, <1>2, <2>2 DEF Begin, Covered
    <3>2. Source(k)' = SubSeq(pattern, Covered + 1, end)
      BY <3>1, <1>2, <2>2 DEF Source
    <3> QED
      BY <3>1, <3>2, <1>2, <2>2
  <2> QED
    BY <1>1, <1>2, <2>1, <2>2
<1> QED
  BY <1>1, <1>2, <1>3, <1>4 DEF Tiles
-----------------------------------------------------------------------------
(* A whole string is a slice of itself. *)
LEMMA WholeSlice ==
  ASSUME NEW p \in Seq(Chars), Len(p) > 0
  PROVE  SubSeq(p, 1, Len(p)) = p
<1>1. Len(p) \in Nat
  BY LenProperties
<1>2. /\ SubSeq(p, 1, Len(p)) \in Seq(Chars) /\ Len(SubSeq(p, 1, Len(p))) = Len(p)
      /\ \A i \in 1..Len(p) : SubSeq(p, 1, Len(p))[i] = p[i]
  BY <1>1, PatternSlice
<1> QED
  BY <1>2, SeqEqual

(* A slice of the pattern kept as a literal. *)
LEMMA LiteralSlice ==
  ASSUME NEW p \in Seq(Chars), NEW m \in 1..(Len(p) + 1), NEW n \in Nat, n <= Len(p),
         m <= n + 1
  PROVE  /\ LiteralPart(SubSeq(p, m, n)) \in Parts
         /\ StandsFor(LiteralPart(SubSeq(p, m, n)), SubSeq(p, m, n))
<1>1. SubSeq(p, m, n) \in Seq(Chars)
  BY PatternSlice
<1>2. SubSeq(p, m, n) \in Seq(Chars \cup {"$"})
  BY <1>1
<1> QED
  BY <1>2 DEF LiteralPart, Parts, StandsFor

(* What follows a dollar, when it is one character. *)
LEMMA SpecialPart ==
  ASSUME NEW char \in Chars, NEW source, source = <<"$", char>>
  PROVE  Special(char) \in Parts /\ StandsFor(Special(char), source)
<1>1. /\ source[1] = "$" /\ Len(source) = 2
      /\ <<"$", char>> \in Seq(Chars \cup {"$"}) /\ <<"$">> \in Seq(Chars \cup {"$"})
      /\ << >> \in Seq(Chars) /\ 0 \in 0..MaxInt
  BY ReplacementAssumption
<1>2. CASE char = "$"
  <2>1. Special(char) = Dollar
    BY <1>2 DEF Special
  <2> QED
    BY <2>1, <1>1, <1>2 DEF Dollar, LiteralPart, Parts, StandsFor
<1>3. CASE char = "&"
  <2>1. Special(char) = IndexedGroupPart(0, << >>)
    BY <1>3 DEF Special
  <2> QED
    BY <2>1, <1>1, <1>3 DEF IndexedGroupPart, Parts, StandsFor
<1>4. CASE char \in {"quote", "backquote", "_", "+"}
  <2>1. PICK kind \in {"preMatch", "postMatch", "fullInput", "lastMatchedGroup"} :
          Special(char) = Instance(kind)
    BY <1>4 DEF Special
  <2> QED
    BY <2>1, <1>1 DEF Instance, Parts, StandsFor
<1>5. CASE char \notin {"$", "&", "quote", "backquote", "_", "+"}
  <2>1. Special(char) = LiteralPart(source)
    BY <1>5 DEF Special
  <2> QED
    BY <2>1, <1>1 DEF LiteralPart, Parts, StandsFor
<1> QED
  BY <1>2, <1>3, <1>4, <1>5

-----------------------------------------------------------------------------
(* The facts every step starts from. *)
LEMMA Bounds ==
  ASSUME Inv
  PROVE  /\ pattern \in Seq(Chars) /\ Len(pattern) \in Nat
         /\ idx \in Nat /\ idx <= Len(pattern) /\ startIdx \in Nat
         /\ Covered \in Nat
         /\ idx < Len(pattern) => pattern[idx + 1] \in Chars
<1>1. pattern \in Seq(Chars)
  BY ReplacementAssumption DEF Inv, TypeOK
<1>2. Len(pattern) \in Nat
  BY <1>1, LenProperties
<1>3. idx \in Nat /\ idx <= Len(pattern) /\ startIdx \in Nat
  BY <1>2 DEF Inv, TypeOK
<1>4. Covered \in Nat
  <2>1. ends \in Seq(0..Len(pattern)) /\ Len(ends) \in Nat
    BY LenProperties DEF Inv, TypeOK
  <2>2. CASE ends # << >>
    <3>1. Len(ends) \in 1..Len(ends)
      BY <2>1, <2>2, EmptySeq
    <3> QED
      BY <2>1, <2>2, <3>1, ElementOfSeq DEF Covered
  <2> QED
    BY <2>2 DEF Covered
<1>5. idx < Len(pattern) => pattern[idx + 1] \in Chars
  BY <1>1, <1>2, <1>3, ElementOfSeq
<1> QED
  BY <1>1, <1>2, <1>3, <1>4, <1>5

LEMMA InitInv == Init => Inv
<1> SUFFICES ASSUME Init PROVE Inv
  OBVIOUS
<1>1. pattern \in Seq(Chars) /\ Len(pattern) \in Nat
  BY ReplacementAssumption, LenProperties DEF Init
<1>2. TypeOK
  BY <1>1 DEF Init, TypeOK
<1>3. Tiles /\ Position
  BY DEF Init, Tiles, Position
<1> QED
  BY <1>2, <1>3 DEF Inv

(* A step that makes no part and keeps the pattern. *)
LEMMA SameTiles ==
  ASSUME Tiles, UNCHANGED <<pattern, parts, ends>>
  PROVE  Tiles' /\ Covered' = Covered
  BY DEF Tiles, Covered, Begin, Source, StandsFor, Dollar, LiteralPart

LEMMA StartInv == Inv /\ Start => Inv'
<1> SUFFICES ASSUME Inv, Start PROVE Inv'
  OBVIOUS
<1>1. /\ pc = "start" /\ UNCHANGED <<pattern, captures, startIdx, sb>>
      /\ Covered = 0 /\ ends = << >> /\ idx = 0
  BY DEF Start, Inv, Position, Covered
<1> USE Bounds
<1>2. CASE Len(pattern) = 0 /\ Goto("parsed") /\ UNCHANGED <<parts, idx, ends>>
  <2>1. Tiles' /\ Covered' = Covered
    BY <1>1, <1>2, SameTiles DEF Inv
  <2> QED
    BY <1>1, <1>2, <2>1 DEF Inv, TypeOK, Position, Goto
<1>3. CASE Len(pattern) > 0 /\ Add(LiteralPart(pattern), Len(pattern)) /\ Goto("parsed")
  <2>1. SubSeq(pattern, 1, Len(pattern)) = pattern
    BY <1>3, WholeSlice
  <2>2. /\ LiteralPart(SubSeq(pattern, 1, Len(pattern))) \in Parts
        /\ StandsFor(LiteralPart(SubSeq(pattern, 1, Len(pattern))),
                     SubSeq(pattern, 1, Len(pattern)))
    <3>1. 1 \in 1..(Len(pattern) + 1) /\ 1 <= Len(pattern) + 1
      OBVIOUS
    <3> QED
      BY <3>1, LiteralSlice
  <2>4. TypeOK /\ Tiles
    BY DEF Inv
  <2>5. /\ pattern' = pattern /\ Covered + 1 = 1
        /\ Covered < Len(pattern) /\ Len(pattern) \in 0..Len(pattern)
    BY <1>1, <1>3
  <2>6. /\ LiteralPart(pattern) \in Parts
        /\ StandsFor(LiteralPart(pattern), SubSeq(pattern, Covered + 1, Len(pattern)))
    BY <2>1, <2>2, <2>5
  <2>3. /\ Tiles' /\ Covered' = Len(pattern) /\ parts' \in Seq(Parts)
        /\ ends' \in Seq(0..Len(pattern')) /\ idx' = Len(pattern)
    BY <1>3, <2>4, <2>5, <2>6, AddTiles DEF Add
  <2> QED
    BY <1>1, <1>3, <2>3 DEF Inv, TypeOK, Position, Goto
<1>4. ASSUME NEW i \in Dollars, Goto("top"),
             IF i > 1 THEN Add(LiteralPart(Slice(pattern, 0, i - 1)), i - 1)
             ELSE UNCHANGED <<parts, idx, ends>>
      PROVE  Inv'
  <2>1. i \in 1..Len(pattern)
    BY DEF Dollars
  <2>2. CASE i > 1
    <3>1. Slice(pattern, 0, i - 1) = SubSeq(pattern, 1, i - 1)
      BY <2>1 DEF Slice
    <3>2. /\ LiteralPart(SubSeq(pattern, 1, i - 1)) \in Parts
          /\ StandsFor(LiteralPart(SubSeq(pattern, 1, i - 1)), SubSeq(pattern, 1, i - 1))
      BY <2>1, <2>2, LiteralSlice
    <3>4. TypeOK /\ Tiles
      BY DEF Inv
    <3>6. /\ pattern' = pattern /\ Covered + 1 = 1
          /\ Covered < i - 1 /\ i - 1 \in 0..Len(pattern)
      BY <1>1, <2>1, <2>2
    <3>5. StandsFor(LiteralPart(SubSeq(pattern, 1, i - 1)),
                    SubSeq(pattern, Covered + 1, i - 1))
      BY <3>2, <3>6
    <3>3. /\ Tiles' /\ Covered' = i - 1 /\ parts' \in Seq(Parts)
          /\ ends' \in Seq(0..Len(pattern')) /\ idx' = i - 1
      BY <1>4, <2>2, <3>1, <3>2, <3>4, <3>5, <3>6, AddTiles DEF Add
    <3> QED
      BY <1>1, <1>4, <2>1, <3>3 DEF Inv, TypeOK, Position, Goto
  <2>3. CASE ~(i > 1)
    <3>1. Tiles' /\ Covered' = Covered
      BY <1>1, <1>4, <2>3, SameTiles DEF Inv
    <3> QED
      BY <1>1, <1>4, <2>3, <3>1 DEF Inv, TypeOK, Position, Goto
  <2> QED
    BY <2>2, <2>3
<1> QED
  BY <1>2, <1>3, <1>4 DEF Start

LEMMA TopInv == Inv /\ Top => Inv'
<1> SUFFICES ASSUME Inv, Top PROVE Inv'
  OBVIOUS
<1>1. /\ pc = "top" /\ Covered = idx /\ UNCHANGED <<pattern, captures, parts, ends, sb>>
  BY DEF Top, Inv, Position
<1>2. Tiles' /\ Covered' = Covered
  BY <1>1, SameTiles DEF Inv
<1> USE Bounds
<1>3. CASE AtEnd /\ Goto("parsed") /\ UNCHANGED <<idx, startIdx>>
  BY <1>1, <1>2, <1>3 DEF Inv, TypeOK, Position, Goto, AtEnd
<1>4. CASE ~AtEnd /\ Char = "$" /\ idx' = idx + 1 /\ Goto("dollar") /\ UNCHANGED startIdx
  <2>1. pc' = "dollar" /\ idx' = idx + 1 /\ pattern'[idx'] = "$" /\ idx' <= Len(pattern)
    BY <1>1, <1>4 DEF AtEnd, Char, Goto
  <2> QED
    BY <1>1, <1>2, <1>4, <2>1 DEF Inv, TypeOK, Position
<1>5. CASE ~AtEnd /\ Char # "$" /\ startIdx' = idx /\ Goto("text") /\ UNCHANGED idx
  <2>1. pc' = "text" /\ startIdx' = idx' /\ ~AtEnd' /\ Char' # "$"
    BY <1>1, <1>5 DEF AtEnd, Char, Goto
  <2> QED
    BY <1>1, <1>2, <1>5, <2>1 DEF Inv, TypeOK, Position
<1> QED
  BY <1>3, <1>4, <1>5 DEF Top

LEMMA TextInv == Inv /\ Text => Inv'
<1> SUFFICES ASSUME Inv, Text PROVE Inv'
  OBVIOUS
<1>1. /\ pc = "text" /\ UNCHANGED <<pattern, captures, startIdx, sb>>
      /\ Covered = startIdx /\ startIdx <= idx /\ (startIdx = idx => ~AtEnd /\ Char # "$")
  BY DEF Text, Inv, Position
<1> USE Bounds
<1>2. CASE ~AtEnd /\ Char # "$"
  <2>1. idx' = idx + 1 /\ UNCHANGED <<pc, parts, ends>> /\ idx' <= Len(pattern)
    BY <1>2 DEF Text, AtEnd
  <2>2. Tiles' /\ Covered' = Covered
    BY <1>1, <2>1, SameTiles DEF Inv
  <2> QED
    BY <1>1, <2>1, <2>2 DEF Inv, TypeOK, Position
<1>3. CASE ~(~AtEnd /\ Char # "$")
  <2>1. /\ Add(LiteralPart(Slice(pattern, startIdx, idx - startIdx)), idx)
        /\ pc' = "top" /\ startIdx < idx
    BY <1>1, <1>3 DEF Text, Goto
  <2>2. Slice(pattern, startIdx, idx - startIdx) = SubSeq(pattern, startIdx + 1, idx)
    BY DEF Slice
  <2>3. /\ LiteralPart(SubSeq(pattern, startIdx + 1, idx)) \in Parts
        /\ StandsFor(LiteralPart(SubSeq(pattern, startIdx + 1, idx)),
                     SubSeq(pattern, startIdx + 1, idx))
    BY <2>1, LiteralSlice
  <2>5. TypeOK /\ Tiles
    BY DEF Inv
  <2>7. /\ pattern' = pattern
        /\ Covered < idx /\ idx \in 0..Len(pattern) /\ Covered = startIdx
    BY <1>1, <2>1
  <2>6. StandsFor(LiteralPart(SubSeq(pattern, startIdx + 1, idx)),
                  SubSeq(pattern, Covered + 1, idx))
    BY <2>3, <2>7
  <2>4. /\ Tiles' /\ Covered' = idx /\ parts' \in Seq(Parts)
        /\ ends' \in Seq(0..Len(pattern')) /\ idx' = idx
    BY <2>1, <2>2, <2>3, <2>5, <2>6, <2>7, AddTiles DEF Add
  <2> QED
    BY <1>1, <2>1, <2>4 DEF Inv, TypeOK, Position
<1> QED
  BY <1>2, <1>3

(* The character at n. *)
LEMMA OneChar ==
  ASSUME NEW p \in Seq(Chars), NEW n \in 1..Len(p)
  PROVE  SubSeq(p, n, n) = <<p[n]>>
<1>1. Len(p) \in Nat /\ p[n] \in Chars
  BY ElementOfSeq, LenProperties
<1>2. /\ SubSeq(p, n, n) \in Seq(Chars) /\ Len(SubSeq(p, n, n)) = 1
      /\ \A i \in 1..1 : SubSeq(p, n, n)[i] = p[n + i - 1]
  BY <1>1, PatternSlice
<1>3. <<p[n]>> \in Seq(Chars) /\ Len(<<p[n]>>) = 1
  BY <1>1
<1>4. \A i \in 1..1 : SubSeq(p, n, n)[i] = <<p[n]>>[i]
  BY <1>1, <1>2
<1> QED
  BY <1>2, <1>3, <1>4, SeqEqual

LEMMA AfterDollarInv == Inv /\ AfterDollar => Inv'
<1> SUFFICES ASSUME Inv, AfterDollar PROVE Inv'
  OBVIOUS
<1>1. /\ pc = "dollar" /\ UNCHANGED <<pattern, captures, sb>>
      /\ Covered = idx - 1 /\ idx >= 1 /\ pattern[idx] = "$"
  BY DEF AfterDollar, Inv, Position
<1> USE Bounds
<1>2. TypeOK /\ Tiles /\ pattern' = pattern /\ Covered + 1 = idx
  BY <1>1 DEF Inv
<1>3. CASE AtEnd /\ Add(Dollar, idx) /\ Goto("parsed") /\ UNCHANGED startIdx
  <2>1. idx = Len(pattern) /\ Covered < idx /\ idx \in 0..Len(pattern)
    BY <1>1, <1>3 DEF AtEnd
  <2>2. SubSeq(pattern, Covered + 1, idx) = <<"$">>
    BY <1>1, <1>2, <2>1, OneChar
  <2>3. Dollar \in Parts /\ StandsFor(Dollar, SubSeq(pattern, Covered + 1, idx))
    <3>1. <<"$">> \in Seq(Chars \cup {"$"})
      OBVIOUS
    <3>2. Dollar \in Parts
      BY <3>1 DEF Dollar, LiteralPart, Parts
    <3> QED
      BY <2>2, <3>2 DEF Dollar, LiteralPart, StandsFor
  <2>4. /\ Tiles' /\ Covered' = idx /\ parts' \in Seq(Parts)
        /\ ends' \in Seq(0..Len(pattern')) /\ idx' = idx
    BY <1>2, <1>3, <2>1, <2>3, AddTiles DEF Add
  <2> QED
    BY <1>1, <1>3, <2>1, <2>4 DEF Inv, TypeOK, Position, Goto
<1>4. CASE /\ ~AtEnd /\ startIdx' = idx /\ UNCHANGED <<parts, idx, ends>>
           /\ pc' \in {"brace", "digits"}
  <2>1. Tiles' /\ Covered' = Covered
    BY <1>1, <1>4, SameTiles DEF Inv
  <2> QED
    BY <1>1, <1>4, <2>1 DEF Inv, TypeOK, Position
<1>5. CASE ~AtEnd /\ Add(Special(Char), idx + 1) /\ Goto("top") /\ UNCHANGED startIdx
  <2>1. idx < Len(pattern) /\ Covered < idx + 1 /\ idx + 1 \in 0..Len(pattern)
    BY <1>1, <1>5 DEF AtEnd
  <2>2. SubSeq(pattern, Covered + 1, idx + 1) = <<"$", Char>> /\ Char \in Chars
    <3>1. idx \in 1..(Len(pattern) - 1) /\ Char = pattern[idx + 1]
      BY <1>1, <2>1 DEF Char
    <3>2. SubSeq(pattern, idx, idx + 1) = <<pattern[idx], pattern[idx + 1]>>
      BY <3>1, TwoChars
    <3> QED
      BY <1>1, <1>2, <2>1, <3>1, <3>2
  <2>3. /\ Special(Char) \in Parts
        /\ StandsFor(Special(Char), SubSeq(pattern, Covered + 1, idx + 1))
    BY <2>2, SpecialPart
  <2>4. /\ Tiles' /\ Covered' = idx + 1 /\ parts' \in Seq(Parts)
        /\ ends' \in Seq(0..Len(pattern')) /\ idx' = idx + 1
    BY <1>2, <1>5, <2>1, <2>3, AddTiles DEF Add
  <2> QED
    BY <1>1, <1>5, <2>1, <2>4 DEF Inv, TypeOK, Position, Goto
<1> QED
  BY <1>3, <1>4, <1>5 DEF AfterDollar, Goto

(* A placeholder that ends at end, and keeps its text as a literal. *)
LEMMA FallbackSlice ==
  ASSUME Inv, pc \in {"brace", "digits"}, NEW end \in idx..Len(pattern)
  PROVE  /\ Slice(pattern, startIdx - 1, end - startIdx + 1) = SubSeq(pattern, Covered + 1, end)
         /\ SubSeq(pattern, Covered + 1, end) \in Seq(Chars)
         /\ LiteralPart(SubSeq(pattern, Covered + 1, end)) \in Parts
         /\ StandsFor(LiteralPart(SubSeq(pattern, Covered + 1, end)),
                      SubSeq(pattern, Covered + 1, end))
         /\ Covered < end /\ end \in 0..Len(pattern)
<1> USE Bounds
<1>1. Covered = startIdx - 1 /\ startIdx >= 1 /\ startIdx <= end /\ end \in Nat
  BY DEF Inv, Position
<1>2. Slice(pattern, startIdx - 1, end - startIdx + 1) = SubSeq(pattern, Covered + 1, end)
  <2>1. /\ (startIdx - 1) + 1 = Covered + 1
        /\ (startIdx - 1) + (end - startIdx + 1) = end
    BY <1>1
  <2> QED
    BY <2>1 DEF Slice
<1>3. /\ Covered + 1 \in 1..(Len(pattern) + 1) /\ end <= Len(pattern)
      /\ Covered + 1 <= end + 1
  BY <1>1
<1>4. SubSeq(pattern, Covered + 1, end) \in Seq(Chars)
  BY <1>1, <1>3, PatternSlice
<1>5. /\ LiteralPart(SubSeq(pattern, Covered + 1, end)) \in Parts
      /\ StandsFor(LiteralPart(SubSeq(pattern, Covered + 1, end)),
                   SubSeq(pattern, Covered + 1, end))
  <2>1. PICK m \in 1..(Len(pattern) + 1) : m = Covered + 1
    BY <1>3
  <2>2. /\ LiteralPart(SubSeq(pattern, m, end)) \in Parts
        /\ StandsFor(LiteralPart(SubSeq(pattern, m, end)), SubSeq(pattern, m, end))
    BY <1>1, <1>3, <2>1, LiteralSlice
  <2> QED
    BY <2>1, <2>2
<1>6. Covered < end /\ end \in 0..Len(pattern)
  BY <1>1, <1>3
<1> QED
  BY <1>2, <1>4, <1>5, <1>6, Zenon

LEMMA BraceInv == Inv /\ Brace => Inv'
<1> SUFFICES ASSUME Inv, Brace PROVE Inv'
  OBVIOUS
<1>1. /\ pc = "brace" /\ UNCHANGED <<pattern, captures, startIdx, sb>>
      /\ Covered = startIdx - 1 /\ startIdx >= 1 /\ startIdx <= idx
  BY DEF Brace, Inv, Position
<1> USE Bounds
<1>2. TypeOK /\ Tiles /\ pattern' = pattern
  BY <1>1 DEF Inv
<1>3. CASE ~AtEnd /\ idx' = idx + 1 /\ UNCHANGED <<pc, parts, ends>>
  <2>1. Tiles' /\ Covered' = Covered
    BY <1>1, <1>3, SameTiles DEF Inv
  <2>2. idx' = idx + 1 /\ idx' \in 0..Len(pattern) /\ startIdx <= idx' /\ UNCHANGED <<pc, parts, ends>>
    BY <1>1, <1>3 DEF AtEnd
  <2>3. TypeOK'
    BY <1>1, <2>2 DEF Inv, TypeOK
  <2>4. Position'
    BY <1>1, <2>1, <2>2 DEF Position
  <2> QED
    BY <2>1, <2>3, <2>4 DEF Inv
<1>4. ASSUME NEW name, name = Slice(pattern, startIdx + 1, idx - startIdx - 1),
             NEW fallback, fallback = Slice(pattern, startIdx - 1, idx - startIdx + 2),
             ~AtEnd, idx > startIdx + 1,
             Add(NamedGroupPart(name, TryParse(name), fallback), idx + 1), Goto("top")
      PROVE  Inv'
  <2>1. idx + 1 \in idx..Len(pattern) /\ idx - startIdx + 2 = (idx + 1) - startIdx + 1
    BY <1>1, <1>4 DEF AtEnd
  <2>2. /\ fallback = SubSeq(pattern, Covered + 1, idx + 1) /\ fallback \in Seq(Chars)
        /\ Covered < idx + 1 /\ idx + 1 \in 0..Len(pattern)
    BY <1>1, <1>4, <2>1, FallbackSlice
  <2>3. name \in Seq(Chars)
    <3>1. /\ (startIdx + 1) + 1 = startIdx + 2
          /\ (startIdx + 1) + (idx - startIdx - 1) = idx
      BY <1>1
    <3>2. name = SubSeq(pattern, startIdx + 2, idx)
      BY <1>4, <3>1 DEF Slice
    <3>3. startIdx + 2 \in 1..(Len(pattern) + 1) /\ startIdx + 2 <= idx + 1
      BY <1>1, <1>4, <2>1
    <3> QED
      BY <3>2, <3>3, PatternSlice
  <2>4. /\ NamedGroupPart(name, TryParse(name), fallback) \in Parts
        /\ StandsFor(NamedGroupPart(name, TryParse(name), fallback),
                     SubSeq(pattern, Covered + 1, idx + 1))
    <3>1. TryParse(name) \in -1..MaxInt
      BY TryParseRange
    <3> QED
      BY <2>2, <2>3, <3>1 DEF NamedGroupPart, Parts, StandsFor
  <2>5. /\ Tiles' /\ Covered' = idx + 1 /\ parts' \in Seq(Parts)
        /\ ends' \in Seq(0..Len(pattern')) /\ idx' = idx + 1
    BY <1>2, <1>4, <2>2, <2>4, AddTiles DEF Add
  <2> QED
    BY <1>1, <1>4, <2>2, <2>5 DEF Inv, TypeOK, Position, Goto
<1>5. CASE BraceEnd /\ Goto("top")
  <2>1. idx \in idx..Len(pattern)
    OBVIOUS
  <2>2. /\ Slice(pattern, startIdx - 1, idx - startIdx + 1) = SubSeq(pattern, Covered + 1, idx)
        /\ LiteralPart(SubSeq(pattern, Covered + 1, idx)) \in Parts
        /\ StandsFor(LiteralPart(SubSeq(pattern, Covered + 1, idx)),
                     SubSeq(pattern, Covered + 1, idx))
        /\ Covered < idx /\ idx \in 0..Len(pattern)
    BY <1>1, <2>1, FallbackSlice
  <2>3. /\ Tiles' /\ Covered' = idx /\ parts' \in Seq(Parts)
        /\ ends' \in Seq(0..Len(pattern')) /\ idx' = idx
    BY <1>2, <1>5, <2>2, AddTiles DEF Add, BraceEnd
  <2> QED
    BY <1>1, <1>5, <2>2, <2>3 DEF Inv, TypeOK, Position, Goto
<1> QED
  BY <1>3, <1>4, <1>5 DEF Brace

LEMMA DigitRunInv == Inv /\ DigitRun => Inv'
<1> SUFFICES ASSUME Inv, DigitRun PROVE Inv'
  OBVIOUS
<1>1. /\ pc = "digits" /\ UNCHANGED <<pattern, captures, startIdx, sb>>
      /\ Covered = startIdx - 1 /\ startIdx >= 1 /\ startIdx <= idx
  BY DEF DigitRun, Inv, Position
<1> USE Bounds
<1>2. TypeOK /\ Tiles /\ pattern' = pattern
  BY <1>1 DEF Inv
<1>3. CASE ~AtEnd /\ idx' = idx + 1 /\ UNCHANGED <<pc, parts, ends>>
  <2>1. Tiles' /\ Covered' = Covered
    BY <1>1, <1>3, SameTiles DEF Inv
  <2>2. idx' = idx + 1 /\ idx' \in 0..Len(pattern) /\ startIdx <= idx' /\ UNCHANGED <<pc, parts, ends>>
    BY <1>1, <1>3 DEF AtEnd
  <2>3. TypeOK'
    BY <1>1, <2>2 DEF Inv, TypeOK
  <2>4. Position'
    BY <1>1, <2>1, <2>2 DEF Position
  <2> QED
    BY <2>1, <2>3, <2>4 DEF Inv
<1>4. ASSUME NEW text, NEW fallback,
             fallback = Slice(pattern, startIdx - 1, idx - startIdx + 1),
             Add(DigitsPart(text, fallback), idx), Goto("top")
      PROVE  Inv'
  <2>1. idx \in idx..Len(pattern)
    OBVIOUS
  <2>2. /\ fallback = SubSeq(pattern, Covered + 1, idx) /\ fallback \in Seq(Chars)
        /\ LiteralPart(fallback) \in Parts
        /\ StandsFor(LiteralPart(fallback), SubSeq(pattern, Covered + 1, idx))
        /\ Covered < idx /\ idx \in 0..Len(pattern)
    BY <1>1, <1>4, <2>1, FallbackSlice
  <2>3. /\ DigitsPart(text, fallback) \in Parts
        /\ StandsFor(DigitsPart(text, fallback), SubSeq(pattern, Covered + 1, idx))
    <3>1. CASE TryParse(text) >= 0
      <4>1. PICK index \in 0..MaxInt : index = TryParse(text)
        BY <3>1, TryParseRange, ReplacementAssumption
      <4>2. DigitsPart(text, fallback) = IndexedGroupPart(index, fallback)
        BY <3>1, <4>1 DEF DigitsPart
      <4>3. IndexedGroupPart(index, fallback) \in Parts
        BY <2>2 DEF IndexedGroupPart, Parts
      <4>4. StandsFor(IndexedGroupPart(index, fallback), fallback)
        BY DEF IndexedGroupPart, StandsFor
      <4> QED
        BY <2>2, <4>2, <4>3, <4>4
    <3>2. CASE ~(TryParse(text) >= 0)
      <4>1. DigitsPart(text, fallback) = LiteralPart(fallback)
        BY <3>2 DEF DigitsPart
      <4> QED
        BY <2>2, <4>1
    <3> QED
      BY <3>1, <3>2
  <2>4. /\ Tiles' /\ Covered' = idx /\ parts' \in Seq(Parts)
        /\ ends' \in Seq(0..Len(pattern')) /\ idx' = idx
    BY <1>2, <1>4, <2>2, <2>3, AddTiles DEF Add
  <2> QED
    BY <1>1, <1>4, <2>2, <2>4 DEF Inv, TypeOK, Position, Goto
<1> QED
  BY <1>3, <1>4 DEF DigitRun

-----------------------------------------------------------------------------
(* Every step keeps the invariant; the function Parse returns changes      *)
(* nothing of the parts.                                                   *)
LEMMA StepInv == Inv /\ [Next]_vars => Inv'
<1> SUFFICES ASSUME Inv, [Next]_vars PROVE Inv'
  OBVIOUS
<1>1. ASSUME NEW c \in AllCaptures, AppendParts(c) PROVE Inv'
  <2>1. /\ UNCHANGED <<pattern, pc, idx, startIdx, parts, ends>>
        /\ captures' = c /\ pc = "parsed"
    BY <1>1 DEF AppendParts
  <2>2. Tiles' /\ Covered' = Covered
    BY <2>1, SameTiles DEF Inv
  <2> QED
    BY <2>1, <2>2 DEF Inv, TypeOK, Position
<1>2. CASE UNCHANGED vars
  <2>1. Tiles' /\ Covered' = Covered
    BY <1>2, SameTiles DEF Inv, vars
  <2> QED
    BY <1>2, <2>1 DEF Inv, TypeOK, Position, AtEnd, Char, vars
<1> QED
  BY <1>1, <1>2, StartInv, TopInv, TextInv, AfterDollarInv, BraceInv, DigitRunInv DEF Next

LEMMA Invariant == Spec => []Inv
  BY InitInv, StepInv, PTL DEF Spec

(* The types, for every set of replacement strings: a group number fits an *)
(* int, and the scanner stays inside the string.                           *)
THEOREM ReplacementTypeOK == Spec => []TypeOK
<1>1. Inv => TypeOK
  BY DEF Inv
<1> QED
  BY <1>1, Invariant, PTL

(* The parts cut every replacement string without a gap or an overlap, and *)
(* keep the text of what is not a placeholder or names no group.           *)
THEOREM ReplacementPartsCoverPattern == Spec => []PartsCoverPattern
<1>1. Inv => PartsCoverPattern
  BY DEF Inv, Tiles, Position, PartsCoverPattern
<1> QED
  BY <1>1, Invariant, PTL

-----------------------------------------------------------------------------
(* The groups of a match.                                                  *)

(* A set of numbers has a least one. *)
LEMMA NatMin ==
  ASSUME NEW T, T \subseteq Nat, T # {}
  PROVE  \E n \in T : \A m \in T : n <= m
<1>1. IsWellFoundedOn(OpToRel(<,Nat), Nat)
  BY NatLessThanWellFounded
<1>2. PICK n \in T : \A m \in T : ~(<<m, n>> \in OpToRel(<,Nat))
  BY <1>1, WFMin
<1>3. ASSUME NEW m \in T PROVE n <= m
  <2>1. ~(m < n)
    BY <1>2 DEF OpToRel
  <2> QED
    BY <2>1
<1> QED
  BY <1>3

(* A set group has two offsets, an unset one two units of -1.              *)
LEMMA PairOfGroup ==
  ASSUME NEW c \in Captures, NEW i \in Groups
  PROVE  /\ c[i] = UnsetPair => c[i][1] = -1 /\ c[i][2] = -1
         /\ c[i] # UnsetPair => c[i][1] \in Nat /\ c[i][2] \in Nat
<1>1. c[i] = UnsetPair \/ c[i] \in Nat \X Nat
  BY DEF Captures
<1> QED
  BY <1>1 DEF UnsetPair

(* The groups from n on are unset, and the one before is set.              *)
Tops(c) ==
  {n \in 1..(CaptureCount + 1) :
     (n = 1 \/ c[n - 1] # UnsetPair) /\ \A i \in n..CaptureCount : c[i] = UnsetPair}

(* The result code is one more than the highest group that is set.         *)
LEMMA CaptureTopIsTop ==
  ASSUME NEW c \in Captures
  PROVE  /\ CaptureTop(c) \in 1..(CaptureCount + 1)
         /\ \A i \in Groups : i >= CaptureTop(c) => c[i] = UnsetPair
<1> DEFINE T == {n \in 1..(CaptureCount + 1) : \A i \in n..CaptureCount : c[i] = UnsetPair}
<1>1. CaptureCount \in Nat
  BY MatchGroupsAssumption
<1>2. CaptureCount + 1 \in T
  BY <1>1
<1>3. T \subseteq Nat /\ T # {}
  BY <1>2
<1>4. PICK n \in T : \A m \in T : n <= m
  BY <1>3, NatMin
<1>5. n \in 1..(CaptureCount + 1) /\ \A i \in n..CaptureCount : c[i] = UnsetPair
  OBVIOUS
<1>6. n = 1 \/ c[n - 1] # UnsetPair
  <2> SUFFICES ASSUME n # 1, c[n - 1] = UnsetPair
               PROVE  FALSE
    OBVIOUS
  <2>1. n - 1 \in 1..(CaptureCount + 1) /\ ~(n <= n - 1)
    BY <1>1, <1>5
  <2>2. \A i \in (n - 1)..CaptureCount : i = n - 1 \/ i \in n..CaptureCount
    BY <1>1, <1>5
  <2>3. n - 1 \in T
    BY <1>5, <2>1, <2>2
  <2> QED
    BY <1>4, <2>1, <2>3
<1> HIDE DEF T
<1>7. n \in Tops(c)
  BY <1>5, <1>6 DEF Tops
<1>8. CaptureTop(c) \in Tops(c)
  <2>1. \E t \in 1..(CaptureCount + 1) :
          (t = 1 \/ c[t - 1] # UnsetPair) /\ \A i \in t..CaptureCount : c[i] = UnsetPair
    BY <1>7 DEF Tops
  <2> QED
    BY <2>1 DEF CaptureTop, Tops
<1>9. \A i \in Groups : i >= CaptureTop(c) => i \in CaptureTop(c)..CaptureCount
  BY <1>1, <1>8 DEF Groups, Tops
<1> QED
  BY <1>8, <1>9 DEF Tops

(* The vector holds the offsets of the groups that it is long enough for.  *)
LEMMA PairInVector ==
  ASSUME NEW c, NEW n \in 1..(CaptureCount + 1), NEW i \in Groups
  PROVE  /\ Len(OutputVector(c, n)) = 2 * n /\ OutputVector(c, n) # << >>
         /\ i < n => /\ OutputVector(c, n)[2 * i + 1] = c[i][1]
                     /\ OutputVector(c, n)[2 * i + 2] = c[i][2]
<1>1. n \in Nat /\ n >= 1 /\ 2 * n \in Nat /\ 2 * n >= 1 /\ i \in Nat
  BY MatchGroupsAssumption DEF Groups
<1>2. Len(OutputVector(c, n)) = 2 * n
  <2>1. DOMAIN OutputVector(c, n) = 1..(2 * n)
    BY DEF OutputVector
  <2>2. OutputVector(c, n) \in Seq(Range(OutputVector(c, n)))
    <3>1. OutputVector(c, n) \in [1..(2 * n) -> Range(OutputVector(c, n))]
      BY <2>1 DEF OutputVector, Range
    <3> QED
      BY <1>1, <3>1, SeqDef
  <2> QED
    BY <1>1, <2>1, <2>2, LenProperties
<1>3. OutputVector(c, n) # << >>
  BY <1>1, <1>2
<1>4. ASSUME i < n
      PROVE  /\ OutputVector(c, n)[2 * i + 1] = c[i][1]
             /\ OutputVector(c, n)[2 * i + 2] = c[i][2]
  <2>1. 2 * i + 1 \in 1..(2 * n) /\ 2 * i + 2 \in 1..(2 * n)
    BY <1>1, <1>4
  <2>2. \A j \in 1..(2 * n) : OutputVector(c, n)[j] = c[(j - 1) \div 2][1 + ((j - 1) % 2)]
    BY DEF OutputVector
  <2>3. PICK j \in 1..(2 * n) : j = 2 * i + 1
    BY <2>1
  <2>4. PICK k \in 1..(2 * n) : k = 2 * i + 2
    BY <2>1
  <2>5. (j - 1) \div 2 = i /\ 1 + ((j - 1) % 2) = 1
    BY <1>1, <2>3
  <2>6. (k - 1) \div 2 = i /\ 1 + ((k - 1) % 2) = 2
    BY <1>1, <2>4
  <2>7. OutputVector(c, n)[j] = c[i][1]
    BY <2>2, <2>5
  <2>8. OutputVector(c, n)[k] = c[i][2]
    BY <2>2, <2>6
  <2> QED
    BY <2>3, <2>4, <2>7, <2>8
<1> QED
  BY <1>2, <1>3, <1>4

(* The group that a match shows for a pair of offsets that it gives, or    *)
(* does not give, access to.                                               *)
ShownAs(pair, available) ==
  IF available /\ pair[1] >= 0 THEN Group(pair[1], pair[2]) ELSE Empty

LEMMA ShownFields ==
  ASSUME NEW r, NEW defined \in BOOLEAN, NEW start, NEW end, (r.index # 0) = defined,
         (IF r.index > 0 THEN r.index - 1 ELSE -1) = start,
         (IF r.endIndex > 0 THEN r.endIndex - 1 ELSE -1) = end
  PROVE  Shown(r) = [defined |-> defined, index |-> start, endIndex |-> end]
BY Zenon DEF Shown

(* The members of a structure show what it was made for. *)
LEMMA ShownMembers ==
  /\ \A start \in Nat, end \in Nat : Shown(RefGroup(start, end)) = Group(start, end)
  /\ Shown(RefEmpty) = Empty
  /\ Shown(RefUndefined) = Undefined
<1>1. ASSUME NEW start \in Nat, NEW end \in Nat
      PROVE  Shown(RefGroup(start, end)) = Group(start, end)
  <2> DEFINE r == RefGroup(start, end)
  <2>1. r.index = start + 1 /\ r.endIndex = end + 1
    BY DEF RefGroup
  <2> HIDE DEF r
  <2>2. /\ (r.index # 0) = TRUE
        /\ (IF r.index > 0 THEN r.index - 1 ELSE -1) = start
        /\ (IF r.endIndex > 0 THEN r.endIndex - 1 ELSE -1) = end
    BY <2>1
  <2>3. Shown(r) = [defined |-> TRUE, index |-> start, endIndex |-> end]
    BY <2>2, ShownFields
  <2> QED
    BY <2>3 DEF r, Group
<1>2. Shown(RefEmpty) = Empty
  <2>1. RefEmpty.index = -1 /\ RefEmpty.endIndex = -1
    BY DEF RefEmpty
  <2>2. /\ (RefEmpty.index # 0) = TRUE
        /\ (IF RefEmpty.index > 0 THEN RefEmpty.index - 1 ELSE -1) = -1
        /\ (IF RefEmpty.endIndex > 0 THEN RefEmpty.endIndex - 1 ELSE -1) = -1
    BY <2>1
  <2>3. Shown(RefEmpty) = [defined |-> TRUE, index |-> -1, endIndex |-> -1]
    BY <2>2, ShownFields
  <2> QED
    BY <2>3 DEF Empty, Group
<1>3. Shown(RefUndefined) = Undefined
  <2>1. RefUndefined.index = 0 /\ RefUndefined.endIndex = 0
    BY DEF RefUndefined
  <2>2. /\ (RefUndefined.index # 0) = FALSE
        /\ (IF RefUndefined.index > 0 THEN RefUndefined.index - 1 ELSE -1) = -1
        /\ (IF RefUndefined.endIndex > 0 THEN RefUndefined.endIndex - 1 ELSE -1) = -1
    BY <2>1
  <2>3. Shown(RefUndefined) = [defined |-> FALSE, index |-> -1, endIndex |-> -1]
    BY <2>2, ShownFields
  <2>4. Undefined = [defined |-> FALSE, index |-> -1, endIndex |-> -1]
    BY DEF Undefined
  <2> QED
    BY <2>3, <2>4
<1> QED
  BY <1>1, <1>2, <1>3

(* PcreGroup and PcreRefGroup show the same. *)
LEMMA BothShow ==
  ASSUME NEW m, NEW i \in Groups, NEW start \in Int, NEW end \in Int,
         start >= 0 => end >= 0, m.oVector # << >>, Len(m.oVector) \in Nat,
         /\ IsAvailable(m, i) /\ 2 * i < Len(m.oVector)
         => m.oVector[2 * i + 1] = start /\ m.oVector[2 * i + 2] = end
  PROVE  Reads(m, i, ShownAs(<<start, end>>, IsAvailable(m, i) /\ 2 * i < Len(m.oVector)))
<1> DEFINE available == IsAvailable(m, i) /\ 2 * i < Len(m.oVector)
<1>1. CASE available /\ start >= 0
  <2>1. GetGroup(m, i) = Group(start, end)
    BY <1>1 DEF GetGroup, CreateGroup
  <2>2. RefGetGroup(m, i) = RefGroup(start, end)
    BY <1>1 DEF RefGetGroup
  <2>3. Shown(RefGroup(start, end)) = Group(start, end)
    BY <1>1, ShownMembers
  <2> QED
    BY <1>1, <2>1, <2>2, <2>3 DEF Reads, ShownAs
<1>2. CASE ~(available /\ start >= 0)
  <2>1. GetGroup(m, i) = Empty
    BY <1>2 DEF GetGroup, CreateGroup
  <2>2. RefGetGroup(m, i) = RefEmpty
    BY <1>2 DEF RefGetGroup
  <2>3. Shown(RefEmpty) = Empty
    BY ShownMembers
  <2> QED
    BY <1>2, <2>1, <2>2, <2>3 DEF Reads, ShownAs
<1> QED
  BY <1>1, <1>2

(* A match whose vector holds n of the groups, read with a result code.    *)
LEMMA VectorShows ==
  ASSUME NEW c \in Captures, NEW n \in 1..(CaptureCount + 1), NEW i \in Groups, NEW code
  PROVE  LET m == [resultCode |-> code, oVector |-> OutputVector(c, n)] IN
         Reads(m, i, ShownAs(c[i], IsAvailable(m, i) /\ i < n))
<1> DEFINE m == [resultCode |-> code, oVector |-> OutputVector(c, n)]
<1>1. i \in Nat /\ n \in Nat
  BY MatchGroupsAssumption DEF Groups
<1>2. /\ Len(m.oVector) = 2 * n /\ m.oVector # << >>
      /\ i < n => m.oVector[2 * i + 1] = c[i][1] /\ m.oVector[2 * i + 2] = c[i][2]
  BY PairInVector
<1>3. c[i][1] \in Int /\ c[i][2] \in Int /\ (c[i][1] >= 0 => c[i][2] >= 0)
  BY PairOfGroup
<1> HIDE DEF m
<1>4. Len(m.oVector) \in Nat /\ (2 * i < Len(m.oVector) <=> i < n)
  BY <1>1, <1>2
<1>5. Reads(m, i, ShownAs(<<c[i][1], c[i][2]>>, IsAvailable(m, i) /\ 2 * i < Len(m.oVector)))
  BY <1>2, <1>3, <1>4, BothShow
<1>6. ShownAs(<<c[i][1], c[i][2]>>, IsAvailable(m, i) /\ 2 * i < Len(m.oVector))
        = ShownAs(c[i], IsAvailable(m, i) /\ i < n)
  BY <1>4 DEF ShownAs
<1> QED
  BY <1>5, <1>6 DEF m

LEMMA ShownAsCaptured ==
  ASSUME NEW c \in Captures, NEW i \in Groups
  PROVE  /\ ShownAs(c[i], TRUE) = AsCaptured(c, i)
         /\ ShownAs(c[i], FALSE) = Empty
         /\ c[i] = UnsetPair => AsCaptured(c, i) = Empty
<1>1. c[i] # UnsetPair <=> i \in Captured(c)
  BY DEF Captured
<1>2. c[i][1] >= 0 <=> c[i] # UnsetPair
  BY PairOfGroup
<1> QED
  BY <1>1, <1>2 DEF ShownAs, AsCaptured

LEMMA RealMatchShows ==
  ASSUME NEW c \in Captures, NEW i \in Groups
  PROVE  Reads(RealMatch(c), i, AsCaptured(c, i))
<1> DEFINE m == RealMatch(c)
<1>1. CaptureCount \in Nat /\ i \in Nat /\ i < CaptureCount + 1
  BY MatchGroupsAssumption DEF Groups
<1>2. CaptureTop(c) \in Nat /\ CaptureTop(c) >= 1
      /\ (i >= CaptureTop(c) => c[i] = UnsetPair)
  BY CaptureTopIsTop, <1>1
<1>3. Reads(m, i, ShownAs(c[i], IsAvailable(m, i) /\ i < CaptureCount + 1))
  BY <1>1, VectorShows DEF RealMatch
<1>4. IsAvailable(m, i) <=> i < CaptureTop(c)
  BY <1>1, <1>2 DEF IsAvailable, RealMatch, PCRE2_ERROR_PARTIAL
<1>5. ShownAs(c[i], IsAvailable(m, i) /\ i < CaptureCount + 1) = AsCaptured(c, i)
  <2>1. CASE i < CaptureTop(c)
    BY <1>1, <1>4, <2>1, ShownAsCaptured
  <2>2. CASE ~(i < CaptureTop(c))
    <3>1. c[i] = UnsetPair /\ (IsAvailable(m, i) /\ i < CaptureCount + 1) = FALSE
      BY <1>1, <1>2, <1>4, <2>2
    <3> QED
      BY <3>1, ShownAsCaptured
  <2> QED
    BY <2>1, <2>2
<1> QED
  BY <1>3, <1>5

LEMMA CalloutMatchShows ==
  ASSUME NEW c \in Captures, NEW i \in Groups
  PROVE  Reads(CalloutMatch(c), i, AsCaptured(c, i))
<1> DEFINE n == CaptureTop(c)
           m == [resultCode |-> n, oVector |-> OutputVector(c, n)]
<1>1. CaptureCount \in Nat /\ i \in Nat
  BY MatchGroupsAssumption DEF Groups
<1>2. n \in 1..(CaptureCount + 1) /\ (i >= n => c[i] = UnsetPair)
  BY CaptureTopIsTop
<1>3. n \in Nat /\ n >= 1 /\ (2 * n) \div 2 = n
  BY <1>1, <1>2
<1>4. CalloutMatch(c) = m
  BY <1>2, <1>3, PairInVector DEF CalloutMatch
<1> HIDE DEF n
<1>5. Reads(m, i, ShownAs(c[i], IsAvailable(m, i) /\ i < n))
  BY <1>2, VectorShows
<1>6. IsAvailable(m, i) <=> i < n
  BY <1>1, <1>3 DEF IsAvailable, PCRE2_ERROR_PARTIAL
<1>7. ShownAs(c[i], IsAvailable(m, i) /\ i < n) = AsCaptured(c, i)
  <2>1. CASE i < n
    BY <1>6, <2>1, ShownAsCaptured
  <2>2. CASE ~(i < n)
    <3>1. c[i] = UnsetPair /\ (IsAvailable(m, i) /\ i < n) = FALSE
      BY <1>1, <1>2, <1>3, <1>6, <2>2
    <3> QED
      BY <3>1, ShownAsCaptured
  <2> QED
    BY <2>1, <2>2
<1> QED
  BY <1>4, <1>5, <1>7

LEMMA PartialMatchShows ==
  ASSUME NEW c \in Captures, NEW i \in Groups
  PROVE  Reads(PartialMatch(c), i, IF i = 0 THEN AsCaptured(c, 0) ELSE Empty)
<1> DEFINE m == PartialMatch(c)
<1>1. CaptureCount \in Nat /\ i \in Nat /\ i < CaptureCount + 1
  BY MatchGroupsAssumption DEF Groups
<1>2. Reads(m, i, ShownAs(c[i], IsAvailable(m, i) /\ i < CaptureCount + 1))
  BY <1>1, VectorShows DEF PartialMatch
<1>3. IsAvailable(m, i) <=> i = 0
  BY <1>1 DEF IsAvailable, PartialMatch, PCRE2_ERROR_PARTIAL
<1>4. ShownAs(c[i], IsAvailable(m, i) /\ i < CaptureCount + 1)
        = IF i = 0 THEN AsCaptured(c, 0) ELSE Empty
  BY <1>1, <1>3, ShownAsCaptured
<1> QED
  BY <1>2, <1>4

LEMMA NoMatchShows ==
  ASSUME NEW i \in Groups
  PROVE  Reads(NoMatch, i, Empty)
<1>1. GetGroup(NoMatch, i) = Empty
  BY DEF GetGroup, NoMatch
<1>2. i \in Nat
  BY MatchGroupsAssumption DEF Groups
<1>3. RefGetGroup(NoMatch, i) = RefEmpty
  BY <1>2 DEF RefGetGroup, NoMatch
<1>4. Shown(RefEmpty) = Empty
  BY ShownMembers
<1> QED
  BY <1>1, <1>3, <1>4 DEF Reads

LEMMA NoSuchGroup ==
  ASSUME NEW i, i \notin Groups, NEW m
  PROVE  Reads(m, i, Undefined)
<1>1. GetGroup(m, i) = Undefined /\ RefGetGroup(m, i) = RefUndefined
  BY DEF GetGroup, RefGetGroup
<1>2. Shown(RefUndefined) = Undefined
  BY ShownMembers
<1> QED
  BY <1>1, <1>2 DEF Reads

(* However a match is read, its groups show what has been captured: for    *)
(* every number of groups and whatever they have captured.                 *)
THEOREM ReplacementGroupsAsCaptured == Spec => []GroupsAsCaptured
<1>1. TypeOK => GroupsAsCaptured
  <2> SUFFICES ASSUME TypeOK, captures # << >>, NEW i \in -1..(CaptureCount + 1)
               PROVE  IF i \notin Groups
                      THEN \A m \in {RealMatch(captures), PartialMatch(captures),
                                     CalloutMatch(captures), NoMatch} :
                             Reads(m, i, Undefined)
                      ELSE /\ Reads(RealMatch(captures), i, AsCaptured(captures, i))
                           /\ Reads(CalloutMatch(captures), i, AsCaptured(captures, i))
                           /\ Reads(PartialMatch(captures), i,
                                    IF i = 0 THEN AsCaptured(captures, 0) ELSE Empty)
                           /\ Reads(NoMatch, i, Empty)
    BY DEF GroupsAsCaptured
  <2>1. captures \in Captures
    BY ReplacementAssumption DEF TypeOK
  <2>2. CASE i \notin Groups
    BY <2>2, NoSuchGroup
  <2>3. CASE i \in Groups
    BY <2>1, <2>3, RealMatchShows, CalloutMatchShows, PartialMatchShows, NoMatchShows
  <2> QED
    BY <2>2, <2>3
<1> QED
  BY <1>1, ReplacementTypeOK, PTL

-----------------------------------------------------------------------------
(* The tokens of a replacement string.                                     *)

LEMMA DigitsAre == Digits = {"0", "1", "2", "3", "4", "5", "6", "7", "8", "9"}
  BY DEF Digits, DigitValues

Open == "{"
Close == "}"

(* No dollar, brace or single character is a digit.                        *)
LEMMA Classes ==
  /\ "$" \notin Digits /\ Open \notin Digits /\ Close \notin Digits
  /\ Open \notin Singles /\ "$" \in Singles
  /\ \A char \in Singles : char \notin Digits
BY DigitsAre, Zenon DEF Singles, Open, Close

LEMMA RunEndExists ==
  ASSUME NEW s \in Seq(Chars), NEW p \in 0..Len(s), NEW chars
  PROVE  /\ RunEnd(s, p, chars) \in p..Len(s)
         /\ \A i \in (p + 1)..RunEnd(s, p, chars) : s[i] \in chars
         /\ RunEnd(s, p, chars) < Len(s) => s[RunEnd(s, p, chars) + 1] \notin chars
<1> DEFINE T == {q \in p..Len(s) : q < Len(s) => s[q + 1] \notin chars}
<1>1. Len(s) \in Nat /\ p \in Nat /\ p <= Len(s)
  BY LenProperties
<1>2. Len(s) \in T /\ T \subseteq Nat
  BY <1>1
<1>3. PICK q \in T : \A r \in T : q <= r
  BY <1>2, NatMin
<1>4. q \in p..Len(s) /\ (q < Len(s) => s[q + 1] \notin chars)
  OBVIOUS
<1>5. ASSUME NEW i \in (p + 1)..q
      PROVE  s[i] \in chars
  <2>1. i - 1 \in p..Len(s) /\ i - 1 < q /\ (i - 1) + 1 = i /\ i - 1 < Len(s)
    BY <1>1, <1>4
  <2>2. i - 1 \notin T
    <3>1. ~(q <= i - 1)
      BY <1>1, <1>4, <2>1
    <3> HIDE DEF T
    <3> QED
      BY <1>3, <3>1
  <2> QED
    BY <2>1, <2>2
<1> QED
  BY <1>4, <1>5 DEF RunEnd

LEMMA RunEndIs ==
  ASSUME NEW s \in Seq(Chars), NEW p \in 0..Len(s), NEW chars, NEW q \in p..Len(s),
         \A i \in (p + 1)..q : s[i] \in chars, q < Len(s) => s[q + 1] \notin chars
  PROVE  RunEnd(s, p, chars) = q
<1> DEFINE r == RunEnd(s, p, chars)
<1>1. Len(s) \in Nat /\ p \in Nat /\ q \in Nat /\ p <= q /\ q <= Len(s)
  BY LenProperties
<1>2. /\ r \in p..Len(s) /\ \A i \in (p + 1)..r : s[i] \in chars
      /\ r < Len(s) => s[r + 1] \notin chars
  BY RunEndExists
<1> HIDE DEF r
<1>3. ~(r < q)
  <2> SUFFICES ASSUME r < q
               PROVE  FALSE
    OBVIOUS
  <2>1. r + 1 \in (p + 1)..q /\ r < Len(s)
    BY <1>1, <1>2
  <2> QED
    BY <1>2, <2>1
<1>4. ~(q < r)
  <2> SUFFICES ASSUME q < r
               PROVE  FALSE
    OBVIOUS
  <2>1. q + 1 \in (p + 1)..r /\ q < Len(s)
    BY <1>1, <1>2
  <2> QED
    BY <1>2, <2>1
<1> QED
  BY <1>1, <1>2, <1>3, <1>4 DEF r

(* A character that begins no placeholder is a token.                      *)
LEMMA PlainToken ==
  ASSUME NEW s, NEW p, s[p + 1] # "$" \/ p + 1 = Len(s)
  PROVE  TokenEnd(s, p) = p + 1
BY DEF TokenEnd

LEMMA TokenEndRange ==
  ASSUME NEW s \in Seq(Chars), NEW p \in Nat, p < Len(s)
  PROVE  TokenEnd(s, p) \in (p + 1)..Len(s)
<1>1. Len(s) \in Nat
  BY LenProperties
<1>2. CASE s[p + 1] # "$" \/ p + 1 = Len(s)
  BY <1>1, <1>2, PlainToken
<1>3. CASE ~(s[p + 1] # "$" \/ p + 1 = Len(s))
  <2> DEFINE close == RunEnd(s, p + 2, NotBrace)
             digits == RunEnd(s, p + 1, Digits)
  <2>1. p + 1 \in 0..Len(s) /\ p + 2 \in 0..Len(s)
    BY <1>1, <1>3
  <2>2. close \in (p + 2)..Len(s) /\ digits \in (p + 1)..Len(s)
    BY <2>1, RunEndExists
  <2>3. TokenEnd(s, p) \in {p + 1, p + 2, digits} \/ TokenEnd(s, p) = close
        \/ (close # Len(s) /\ TokenEnd(s, p) = close + 1)
    <3> HIDE DEF digits, close
    <3> QED
      BY <1>3 DEF TokenEnd, digits, close
  <2> HIDE DEF digits, close
  <2> QED
    BY <1>1, <2>1, <2>2, <2>3
<1> QED
  BY <1>2, <1>3

-----------------------------------------------------------------------------
(* The texts that tokens stand for are sequences.                          *)

Texts == Seq(Chars \cup {"$"})

LEMMA CharsAreTexts == Seq(Chars) \subseteq Texts /\ << >> \in Texts /\ <<"$">> \in Texts
<1>1. \A s \in Seq(Chars) : s \in Seq(Chars \cup {"$"})
  OBVIOUS
<1> QED
  BY <1>1 DEF Texts

LEMMA SubjectSlice ==
  ASSUME NEW m \in Nat, NEW n \in Int, n <= Len(Subject), m >= 1
  PROVE  SubSeq(Subject, m, n) \in Texts
<1>1. Subject \in Seq(Chars) /\ Len(Subject) \in Nat
  BY ReplacementAssumption, LenProperties
<1>2. \A i \in m..n : Subject[i] \in Chars
  <2> SUFFICES ASSUME NEW i \in m..n
               PROVE  Subject[i] \in Chars
    OBVIOUS
  <2>1. i \in 1..Len(Subject)
    BY <1>1
  <2> QED
    BY <1>1, <2>1, ElementOfSeq
<1>3. SubSeq(Subject, m, n) \in Seq(Chars)
  BY <1>2, SubSeqProperties
<1> QED
  BY <1>3, CharsAreTexts

LEMMA PairInSubject ==
  ASSUME NEW c \in AllCaptures, NEW i \in Captured(c)
  PROVE  /\ i \in Groups /\ c[i][1] \in Nat /\ c[i][2] \in Nat
         /\ c[i][1] <= Len(Subject) /\ c[i][2] <= Len(Subject)
<1>1. c \in Captures /\ c[i][1] <= Len(Subject) /\ c[i][2] <= Len(Subject)
  BY ReplacementAssumption
<1>2. i \in Groups /\ c[i] # UnsetPair
  BY DEF Captured
<1> QED
  BY <1>1, <1>2, PairOfGroup

LEMMA MatchIsSet ==
  ASSUME NEW c \in AllCaptures
  PROVE  0 \in Captured(c)
<1>1. c \in Captures
  BY ReplacementAssumption
<1> QED
  BY <1>1, MatchGroupsAssumption DEF Captures, Captured, Groups

LEMMA ValueTyped ==
  ASSUME NEW c \in AllCaptures, NEW i
  PROVE  Value(c, i) \in Texts
<1>1. CASE i \in Captured(c)
  <2>1. /\ c[i][1] \in Nat /\ c[i][2] \in Nat /\ c[i][2] <= Len(Subject)
    BY <1>1, PairInSubject
  <2>2. c[i][1] + 1 \in Nat /\ c[i][1] + 1 >= 1 /\ c[i][2] \in Int
    BY <2>1
  <2>3. SubSeq(Subject, c[i][1] + 1, c[i][2]) \in Texts
    BY <2>1, <2>2, SubjectSlice
  <2> QED
    BY <1>1, <2>3 DEF Value
<1>2. CASE i \notin Captured(c)
  BY <1>2, CharsAreTexts DEF Value
<1> QED
  BY <1>1, <1>2

LEMMA SingleMeaningTyped ==
  ASSUME NEW c \in AllCaptures, NEW char \in Singles
  PROVE  SingleMeaning(c, char) \in Texts
<1>1. Subject \in Seq(Chars) /\ Len(Subject) \in Nat
  BY ReplacementAssumption, LenProperties
<1>2. /\ c[0][1] \in Nat /\ c[0][2] \in Nat
      /\ c[0][1] <= Len(Subject) /\ c[0][2] <= Len(Subject)
  BY MatchIsSet, PairInSubject
<1>3. CASE char = "$"
  BY <1>3, CharsAreTexts DEF SingleMeaning
<1>4. CASE char = "&"
  BY <1>4, ValueTyped DEF SingleMeaning
<1>5. CASE char = "backquote"
  <2>1. PICK n \in Int : n = c[0][1] /\ n <= Len(Subject)
    BY <1>2
  <2>2. 1 \in Nat /\ 1 >= 1
    OBVIOUS
  <2>3. SubSeq(Subject, 1, n) \in Texts
    BY <2>1, <2>2, SubjectSlice
  <2> QED
    BY <1>5, <2>1, <2>3 DEF SingleMeaning
<1>6. CASE char = "quote"
  <2>1. c[0][2] + 1 \in Nat /\ c[0][2] + 1 >= 1 /\ Len(Subject) \in Int
        /\ Len(Subject) <= Len(Subject)
    BY <1>1, <1>2
  <2>2. SubSeq(Subject, c[0][2] + 1, Len(Subject)) \in Texts
    BY <2>1, SubjectSlice
  <2> QED
    BY <1>6, <2>2 DEF SingleMeaning
<1>7. CASE char = "_"
  BY <1>1, <1>7, CharsAreTexts DEF SingleMeaning
<1>8. CASE char = "+"
  BY <1>8, ValueTyped, CharsAreTexts DEF SingleMeaning
<1> QED
  BY <1>3, <1>4, <1>5, <1>6, <1>7, <1>8 DEF Singles

LEMMA MeaningTyped ==
  ASSUME NEW c \in AllCaptures, NEW token \in Seq(Chars)
  PROVE  Meaning(c, token) \in Texts
<1>1. token \in Texts
  BY CharsAreTexts
<1>2. \A number : Numbered(c, number, token) \in Texts
  BY <1>1, ValueTyped DEF Numbered
<1>3. \A name : Named(c, name, token) \in Texts
  <2> TAKE name
  <2>1. CASE name \notin DOMAIN CaptureNames
    BY <1>2, <2>1 DEF Named
  <2>2. CASE name \in DOMAIN CaptureNames
    BY <2>2, ValueTyped, CharsAreTexts DEF Named
  <2> QED
    BY <2>1, <2>2
<1>4. \A char \in Singles : SingleMeaning(c, char) \in Texts
  BY SingleMeaningTyped
<1> QED
  BY <1>1, <1>2, <1>3, <1>4 DEF Meaning

-----------------------------------------------------------------------------
(* The text that a part appends is the meaning of its token.               *)

LEMMA GroupShown ==
  ASSUME NEW c \in AllCaptures, NEW i \in Groups
  PROVE  GetGroup(RealMatch(c), i) = AsCaptured(c, i)
<1>1. c \in Captures
  BY ReplacementAssumption
<1> QED
  BY <1>1, RealMatchShows DEF Reads

LEMMA GroupHasValue ==
  ASSUME NEW c \in AllCaptures, NEW i
  PROVE  /\ AsCaptured(c, i).defined
         /\ Success(AsCaptured(c, i)) <=> i \in Captured(c)
         /\ \A fallback : GroupText(AsCaptured(c, i), fallback) = Value(c, i)
<1>1. CASE i \in Captured(c)
  <2> DEFINE g == Group(c[i][1], c[i][2])
  <2>1. c[i][1] \in Nat /\ c[i][2] \in Nat
    BY <1>1, PairInSubject
  <2>2. AsCaptured(c, i) = g
    BY <1>1 DEF AsCaptured
  <2>3. g.defined /\ g.index = c[i][1] /\ g.endIndex = c[i][2]
    BY DEF Group
  <2> HIDE DEF g
  <2>4. Success(g)
    BY <2>1, <2>3 DEF Success
  <2>5. ValueOf(g) = SubSeq(Subject, c[i][1] + 1, c[i][2])
    <3>1. CASE c[i][2] > c[i][1]
      <4>1. GroupLength(g) = c[i][2] - c[i][1]
        BY <2>3, <3>1 DEF GroupLength
      <4>2. c[i][1] + GroupLength(g) = c[i][2]
        BY <2>1, <4>1
      <4> QED
        BY <2>3, <4>2 DEF ValueOf, Slice
    <3>2. CASE ~(c[i][2] > c[i][1])
      <4>1. GroupLength(g) = 0
        BY <2>3, <3>2 DEF GroupLength
      <4>2. c[i][1] + GroupLength(g) = c[i][1]
        BY <2>1, <4>1
      <4>3. ValueOf(g) = SubSeq(Subject, c[i][1] + 1, c[i][1])
        BY <2>3, <4>2 DEF ValueOf, Slice
      <4>4. PICK m \in Int : m = c[i][1] + 1 /\ c[i][1] < m /\ c[i][2] < m
        BY <2>1, <3>2
      <4>5. c[i][1] \in Int /\ c[i][2] \in Int
        BY <2>1
      <4>6. SubSeq(Subject, m, c[i][1]) = << >> /\ SubSeq(Subject, m, c[i][2]) = << >>
        BY <4>4, <4>5, SubSeqEmpty
      <4> QED
        BY <4>3, <4>4, <4>6
    <3> QED
      BY <3>1, <3>2
  <2> QED
    BY <1>1, <2>2, <2>3, <2>4, <2>5 DEF GroupText, Value
<1>2. CASE i \notin Captured(c)
  <2>1. AsCaptured(c, i) = Empty
    BY <1>2 DEF AsCaptured
  <2>2. Empty.defined /\ Empty.index = -1
    BY DEF Empty, Group
  <2>3. ~Success(Empty)
    BY <2>2 DEF Success
  <2> QED
    BY <1>2, <2>1, <2>2, <2>3 DEF GroupText, Value
<1> QED
  BY <1>1, <1>2

LEMMA NumberedText ==
  ASSUME NEW c \in AllCaptures, NEW number, NEW fallback
  PROVE  GroupText(GetGroup(RealMatch(c), TryParse(number)), fallback)
           = Numbered(c, number, fallback)
<1>1. MaxInt \in Nat /\ CaptureCount \in Nat /\ CaptureCount <= MaxInt
  BY ReplacementAssumption, MatchGroupsAssumption
<1>2. CASE IsNumeral(number) /\ Decimal(number) \in Groups
  <2>1. Decimal(number) \in 0..MaxInt
    BY <1>1, <1>2 DEF Groups
  <2>2. TryParse(number) = Decimal(number)
    BY <1>2, <2>1 DEF TryParse
  <2> QED
    BY <1>2, <2>2, GroupShown, GroupHasValue DEF Numbered
<1>3. CASE ~(IsNumeral(number) /\ Decimal(number) \in Groups)
  <2>1. -1 \notin Groups
    BY DEF Groups
  <2>2. TryParse(number) \notin Groups
    BY <1>3, <2>1 DEF TryParse
  <2>3. GetGroup(RealMatch(c), TryParse(number)) = Undefined
    BY <2>2 DEF GetGroup
  <2>4. ~Undefined.defined
    BY DEF Undefined
  <2> QED
    BY <1>3, <2>3, <2>4 DEF GroupText, Numbered
<1> QED
  BY <1>2, <1>3

(* The first group of a name that is set. *)
LEMMA FirstSet ==
  ASSUME NEW c \in AllCaptures, NEW indexes \in Seq(1..CaptureCount),
         NEW k \in 1..Len(indexes), indexes[k] \in Captured(c),
         \A j \in 1..Len(indexes) : indexes[j] \in Captured(c) => k <= j
  PROVE  {i \in 1..Len(indexes) :
            /\ indexes[i] \in Captured(c)
            /\ \A j \in 1..(i - 1) : indexes[j] \notin Captured(c)} = {k}
<1>1. Len(indexes) \in Nat
  BY LenProperties
<1>2. \A j \in 1..(k - 1) : j \in 1..Len(indexes) /\ ~(k <= j)
  BY <1>1
<1>3. ASSUME NEW i \in 1..Len(indexes), indexes[i] \in Captured(c), i # k
      PROVE  k \in 1..(i - 1)
  <2>1. k <= i
    BY <1>3
  <2> QED
    BY <1>1, <1>3, <2>1
<1> QED
  BY <1>2, <1>3

LEMMA NamedText ==
  ASSUME NEW c \in AllCaptures, NEW name, NEW fallback
  PROVE  NamedGroupText(NamedGroupPart(name, TryParse(name), fallback), RealMatch(c))
           = Named(c, name, fallback)
<1> DEFINE part == NamedGroupPart(name, TryParse(name), fallback)
           m == RealMatch(c)
           g == GetNamedGroup(m, name)
<1>1. part.name = name /\ part.index = TryParse(name) /\ part.text = fallback
  BY DEF NamedGroupPart
<1> HIDE DEF part
<1>2. NamedGroupText(part, m)
        = GroupText(IF g.defined THEN g ELSE GetGroup(m, TryParse(name)), fallback)
  BY <1>1 DEF NamedGroupText
<1>3. CASE name \notin DOMAIN CaptureNames
  <2>1. g = Undefined
    BY <1>3 DEF GetNamedGroup
  <2>2. ~Undefined.defined
    BY DEF Undefined
  <2>3. NamedGroupText(part, m) = GroupText(GetGroup(m, TryParse(name)), fallback)
    BY <1>2, <2>1, <2>2
  <2> QED
    BY <1>3, <2>3, NumberedText DEF Named, part
<1>4. CASE name \in DOMAIN CaptureNames
  <2> DEFINE indexes == CaptureNames[name]
             first == {k \in 1..Len(indexes) :
                         /\ indexes[k] \in Captured(c)
                         /\ \A j \in 1..(k - 1) : indexes[j] \notin Captured(c)}
             set == {i \in 1..Len(indexes) : Success(GetGroup(m, indexes[i]))}
  <2>1. indexes \in Seq(1..CaptureCount) /\ indexes # << >>
    BY <1>4, MatchGroupsAssumption
  <2>2. /\ Named(c, name, fallback)
             = IF first = {} THEN << >> ELSE Value(c, indexes[CHOOSE k \in first : TRUE])
        /\ g = IF Len(indexes) = 1 THEN GetGroup(m, indexes[1])
               ELSE IF set = {} THEN Empty
               ELSE GetGroup(m, indexes[CHOOSE i \in set : \A j \in set : i <= j])
    BY <1>4 DEF Named, GetNamedGroup
  <2> HIDE DEF indexes, g, m
  <2>3. Len(indexes) \in Nat /\ Len(indexes) # 0
    BY <2>1, EmptySeq, LenProperties
  <2>4. \A i \in 1..Len(indexes) :
          /\ GetGroup(m, indexes[i]) = AsCaptured(c, indexes[i])
          /\ Success(GetGroup(m, indexes[i])) <=> indexes[i] \in Captured(c)
    <3> SUFFICES ASSUME NEW i \in 1..Len(indexes)
                 PROVE  /\ GetGroup(m, indexes[i]) = AsCaptured(c, indexes[i])
                        /\ Success(GetGroup(m, indexes[i])) <=> indexes[i] \in Captured(c)
      OBVIOUS
    <3>1. indexes[i] \in 1..CaptureCount
      BY <2>1, ElementOfSeq
    <3>2. indexes[i] \in Groups
      BY <3>1, MatchGroupsAssumption DEF Groups
    <3>3. GetGroup(m, indexes[i]) = AsCaptured(c, indexes[i])
      BY <3>2, GroupShown DEF m
    <3> QED
      BY <3>3, GroupHasValue
  <2>5. ASSUME NEW i \in 1..Len(indexes), g = GetGroup(m, indexes[i])
        PROVE  NamedGroupText(part, m) = Value(c, indexes[i])
    <3>1. g = AsCaptured(c, indexes[i])
      BY <2>4, <2>5
    <3>2. g.defined /\ GroupText(g, fallback) = Value(c, indexes[i])
      BY <3>1, GroupHasValue
    <3> QED
      BY <1>2, <3>2 DEF g, m
  <2>6. CASE set = {}
    <3>1. first = {} /\ \A i \in 1..Len(indexes) : indexes[i] \notin Captured(c)
      BY <2>4, <2>6
    <3>2. CASE Len(indexes) = 1
      <4>1. 1 \in 1..Len(indexes) /\ g = GetGroup(m, indexes[1])
        BY <2>2, <3>2
      <4>2. NamedGroupText(part, m) = Value(c, indexes[1])
        BY <2>5, <4>1
      <4>3. Value(c, indexes[1]) = << >>
        BY <3>1, <4>1 DEF Value
      <4> QED
        BY <2>2, <3>1, <4>2, <4>3 DEF m, part
    <3>3. CASE Len(indexes) # 1
      <4>1. g = Empty
        BY <2>2, <2>6, <3>3
      <4>2. Empty.defined /\ Empty.index = -1
        BY DEF Empty, Group
      <4>3. ~Success(Empty)
        BY <4>2 DEF Success
      <4>4. GroupText(g, fallback) = << >>
        BY <4>1, <4>2, <4>3 DEF GroupText
      <4>5. NamedGroupText(part, m) = << >>
        BY <1>2, <4>1, <4>2, <4>4 DEF g, m
      <4> QED
        BY <2>2, <3>1, <4>5 DEF m, part
    <3> QED
      BY <3>2, <3>3
  <2>7. CASE set # {}
    <3>1. set \subseteq Nat
      OBVIOUS
    <3>2. \E i \in set : \A j \in set : i <= j
      <4> HIDE DEF set
      <4> QED
        BY <2>7, <3>1, NatMin
    <3>3. PICK k : k = CHOOSE i \in set : \A j \in set : i <= j
      OBVIOUS
    <3>4. k \in set /\ \A j \in set : k <= j
      <4> HIDE DEF set
      <4> QED
        BY <3>2, <3>3
    <3>5. /\ k \in 1..Len(indexes) /\ indexes[k] \in Captured(c)
          /\ \A j \in 1..Len(indexes) : indexes[j] \in Captured(c) => k <= j
      BY <2>4, <3>4
    <3>6. first = {k}
      BY <2>1, <3>5, FirstSet
    <3>7. Named(c, name, fallback) = Value(c, indexes[k])
      <4> HIDE DEF first
      <4>1. first # {} /\ (CHOOSE i \in first : TRUE) = k
        BY <3>6
      <4> QED
        BY <2>2, <4>1
    <3>8. g = GetGroup(m, indexes[k])
      <4>1. CASE Len(indexes) = 1
        <5>1. k = 1
          BY <3>5, <4>1
        <5> QED
          BY <2>2, <4>1, <5>1
      <4>2. CASE Len(indexes) # 1
        <5> HIDE DEF set
        <5> QED
          BY <2>2, <2>7, <3>3, <4>2
      <4> QED
        BY <4>1, <4>2
    <3>9. NamedGroupText(part, m) = Value(c, indexes[k])
      BY <2>5, <3>5, <3>8
    <3> QED
      BY <3>7, <3>9 DEF m, part
  <2> QED
    BY <2>6, <2>7
<1> QED
  BY <1>3, <1>4

LEMMA LastGroupText ==
  ASSUME NEW c \in AllCaptures
  PROVE  GroupText(LastMatchedGroup(RealMatch(c)), << >>) = SingleMeaning(c, "+")
<1> DEFINE m == RealMatch(c)
           set == {i \in 1..CaptureCount : Success(GetGroup(m, i))}
<1>1. CaptureCount \in Nat /\ Groups = 0..CaptureCount
  BY MatchGroupsAssumption DEF Groups
<1>2. \A i \in Groups :
        GetGroup(m, i) = AsCaptured(c, i) /\ (Success(GetGroup(m, i)) <=> i \in Captured(c))
  BY GroupShown, GroupHasValue
<1>3. LastMatchedGroup(m)
        = IF set = {} THEN Empty ELSE GetGroup(m, CHOOSE i \in set : \A j \in set : j <= i)
  BY DEF LastMatchedGroup
<1>4. SingleMeaning(c, "+")
        = IF HighestSet(c) = {} THEN << >> ELSE Value(c, CHOOSE i \in HighestSet(c) : TRUE)
  BY DEF SingleMeaning
<1>5. Captured(c) \subseteq Groups
  BY DEF Captured
<1>6. set = Captured(c) \ {0}
  BY <1>1, <1>2, <1>5
<1> HIDE DEF set, m
<1>7. CASE set = {}
  <2>1. HighestSet(c) = {}
    BY <1>6, <1>7 DEF HighestSet
  <2>2. Empty.defined /\ Empty.index = -1
    BY DEF Empty, Group
  <2>3. ~Success(Empty)
    BY <2>2 DEF Success
  <2> QED
    BY <1>3, <1>4, <1>7, <2>1, <2>2, <2>3 DEF GroupText, m
<1>8. CASE set # {}
  <2> DEFINE T == {n \in Nat : \E i \in set : n = CaptureCount - i}
  <2>1. \A i \in set : i \in Nat /\ CaptureCount - i \in T
    BY <1>1, <1>5, <1>6
  <2>2. T \subseteq Nat /\ T # {}
    BY <1>8, <2>1
  <2>3. PICK n \in T : \A j \in T : n <= j
    BY <2>2, NatMin
  <2>4. PICK top \in set : n = CaptureCount - top
    BY <2>3
  <2>5. \A j \in set : n <= CaptureCount - j
    BY <2>1, <2>3
  <2>6. \A j \in set : j <= top
    BY <1>1, <2>1, <2>4, <2>5
  <2>7. \E i \in set : \A j \in set : j <= i
    BY <2>6
  <2>8. PICK k : k = CHOOSE i \in set : \A j \in set : j <= i
    OBVIOUS
  <2>9. k \in set /\ \A j \in set : j <= k
    BY <2>7, <2>8
  <2>10. HighestSet(c) = {k}
    <3>1. \A j \in Captured(c) : j <= k
      BY <1>1, <1>5, <1>6, <2>1, <2>9
    <3>2. \A i \in HighestSet(c) : i \in set /\ k <= i
      BY <1>6, <2>9 DEF HighestSet
    <3>3. \A i \in set : i \in Nat
      BY <2>1
    <3>4. \A i \in HighestSet(c) : i = k
      <4> HIDE DEF T
      <4> QED
        BY <2>9, <3>2, <3>3
    <3>5. k \in HighestSet(c)
      BY <1>6, <2>9, <3>1 DEF HighestSet
    <3> QED
      BY <3>4, <3>5
  <2>11. SingleMeaning(c, "+") = Value(c, k)
    <3>1. HighestSet(c) # {} /\ (CHOOSE i \in HighestSet(c) : TRUE) = k
      BY <2>10
    <3> QED
      BY <1>4, <3>1
  <2>12. LastMatchedGroup(m) = AsCaptured(c, k)
    <3>1. k \in Groups
      BY <1>5, <1>6, <2>9
    <3> QED
      BY <1>2, <1>3, <1>8, <2>8, <3>1
  <2> QED
    BY <2>11, <2>12, GroupHasValue DEF m
<1> QED
  BY <1>7, <1>8

-----------------------------------------------------------------------------
(* Each part is explained by the tokens it stands for: a literal by those  *)
(* of its characters, and any other by one token.                          *)

LiteralRun(s, part, begin, end) ==
  /\ part = LiteralPart(SubSeq(s, begin + 1, end))
  /\ \A p \in begin..(end - 1) : TokenEnd(s, p) = p + 1

Placeholder(s, part, begin, end) ==
  /\ TokenEnd(s, begin) = end
  /\ \A c \in AllCaptures :
       PartText(part, RealMatch(c)) = Meaning(c, SubSeq(s, begin + 1, end))

Explained(s, part, begin, end) ==
  LiteralRun(s, part, begin, end) \/ Placeholder(s, part, begin, end)

LEMMA LiteralText ==
  ASSUME NEW text, NEW m
  PROVE  PartText(LiteralPart(text), m) = text
<1>1. LiteralPart(text).kind = "literal" /\ LiteralPart(text).text = text
  BY DEF LiteralPart
<1> QED
  BY <1>1 DEF PartText

LEMMA IndexedText ==
  ASSUME NEW index, NEW fallback, NEW m
  PROVE  PartText(IndexedGroupPart(index, fallback), m) = GroupText(GetGroup(m, index), fallback)
<1> DEFINE part == IndexedGroupPart(index, fallback)
<1>1. part.kind = "indexed" /\ part.index = index /\ part.text = fallback
  BY DEF IndexedGroupPart
<1> HIDE DEF part
<1>2. PartText(part, m) = GroupText(GetGroup(m, part.index), part.text)
  BY <1>1 DEF PartText
<1> QED
  BY <1>1, <1>2 DEF part

LEMMA PlainRun ==
  ASSUME NEW s, NEW begin \in Nat, NEW end \in Nat,
         \A i \in (begin + 1)..end : s[i] # "$"
  PROVE  Explained(s, LiteralPart(SubSeq(s, begin + 1, end)), begin, end)
<1>1. ASSUME NEW p \in begin..(end - 1)
      PROVE  TokenEnd(s, p) = p + 1
  <2>1. p + 1 \in (begin + 1)..end
    OBVIOUS
  <2> QED
    BY <2>1, PlainToken
<1> QED
  BY <1>1 DEF Explained, LiteralRun

(* The text of what follows a dollar, when it is one character.            *)
LEMMA SpecialText ==
  ASSUME NEW c \in AllCaptures, NEW char \in Singles
  PROVE  PartText(Special(char), RealMatch(c)) = SingleMeaning(c, char)
<1> DEFINE m == RealMatch(c)
           g == GetGroup(m, 0)
<1>1. 0 \in Groups /\ 0 \in Captured(c)
  BY MatchIsSet, PairInSubject
<1>2. g = AsCaptured(c, 0)
  BY <1>1, GroupShown
<1>3. g.index = c[0][1] /\ g.endIndex = c[0][2] /\ c[0][1] \in Nat /\ c[0][2] \in Nat
  BY <1>1, <1>2, PairInSubject DEF AsCaptured, Group
<1>4. Len(Subject) \in Nat
  BY ReplacementAssumption, LenProperties
<1>5. CASE char = "$"
  <2>1. Special(char) = LiteralPart(<<"$">>)
    BY <1>5 DEF Special, Dollar
  <2>2. SingleMeaning(c, char) = <<"$">>
    BY <1>5 DEF SingleMeaning
  <2> QED
    BY <2>1, <2>2, LiteralText
<1>6. CASE char = "&"
  <2>1. Special(char) = IndexedGroupPart(0, << >>)
    BY <1>6 DEF Special
  <2>2. PartText(Special(char), m) = GroupText(g, << >>)
    BY <2>1, IndexedText
  <2>3. GroupText(g, << >>) = Value(c, 0)
    BY <1>2, GroupHasValue
  <2> QED
    BY <1>6, <2>2, <2>3 DEF SingleMeaning
<1> HIDE DEF g, m
<1>7. CASE char = "backquote"
  <2>1. Special(char) = Instance("preMatch")
    BY <1>7 DEF Special
  <2>2. PartText(Special(char), m) = Slice(Subject, 0, g.index)
    BY <2>1 DEF PartText, Instance, g
  <2>3. Slice(Subject, 0, g.index) = SubSeq(Subject, 1, c[0][1])
    BY <1>3 DEF Slice
  <2> QED
    BY <1>7, <2>2, <2>3 DEF SingleMeaning, m
<1>8. CASE char = "quote"
  <2>1. Special(char) = Instance("postMatch")
    BY <1>8 DEF Special
  <2>2. PartText(Special(char), m) = Slice(Subject, g.endIndex, Len(Subject) - g.endIndex)
    BY <2>1 DEF PartText, Instance, g
  <2>3. Slice(Subject, g.endIndex, Len(Subject) - g.endIndex)
          = SubSeq(Subject, c[0][2] + 1, Len(Subject))
    <3>1. c[0][2] + (Len(Subject) - c[0][2]) = Len(Subject)
      BY <1>3, <1>4
    <3> QED
      BY <1>3, <3>1 DEF Slice
  <2> QED
    BY <1>8, <2>2, <2>3 DEF SingleMeaning, m
<1>9. CASE char = "_"
  <2>1. Special(char) = Instance("fullInput")
    BY <1>9 DEF Special
  <2>2. PartText(Special(char), m) = Subject
    BY <2>1 DEF PartText, Instance
  <2> QED
    BY <1>9, <2>2 DEF SingleMeaning, m
<1>10. CASE char = "+"
  <2>1. Special(char) = Instance("lastMatchedGroup")
    BY <1>10 DEF Special
  <2>2. PartText(Special(char), m) = GroupText(LastMatchedGroup(m), << >>)
    BY <2>1 DEF PartText, Instance
  <2> QED
    BY <1>10, <2>2, LastGroupText DEF m
<1> QED
  BY <1>5, <1>6, <1>7, <1>8, <1>9, <1>10 DEF Singles, m

(* A dollar at p that another character follows.                           *)
DollarAt(s, p, char) ==
  p \in Nat /\ p + 2 <= Len(s) /\ s[p + 1] = "$" /\ s[p + 2] = char

LEMMA DollarPlace ==
  ASSUME NEW s \in Seq(Chars), NEW p, NEW char, DollarAt(s, p, char)
  PROVE  /\ Len(s) \in Nat /\ p \in Nat /\ p + 2 <= Len(s)
         /\ p + 1 # Len(s) /\ (p + 1) + 1 = p + 2 /\ p + 1 \in 1..(Len(s) - 1)
         /\ char \in Chars
<1>1. Len(s) \in Nat
  BY LenProperties
<1>2. p \in Nat /\ p + 2 <= Len(s)
  BY DEF DollarAt
<1>3. p + 2 \in 1..Len(s)
  BY <1>1, <1>2
<1>4. s[p + 2] \in Chars
  BY <1>3, ElementOfSeq
<1>5. char \in Chars
  BY <1>4 DEF DollarAt
<1> QED
  BY <1>1, <1>2, <1>5

LEMMA TwoLong ==
  ASSUME NEW a, NEW b \in Chars
  PROVE  Len(<<a, b>>) # 1 /\ <<a, b>>[2] = b
<1>1. <<a, b>> \in Seq(Chars \cup {a}) /\ Len(<<a, b>>) = 2
  OBVIOUS
<1>2. <<a, b>>[2] = b
  OBVIOUS
<1> QED
  BY <1>1, <1>2

(* The token that begins at a dollar. *)
LEMMA DollarToken ==
  ASSUME NEW s \in Seq(Chars), NEW p, NEW char, DollarAt(s, p, char)
  PROVE  /\ char \in Singles => TokenEnd(s, p) = p + 2
         /\ char \in Digits => TokenEnd(s, p) = RunEnd(s, p + 1, Digits)
         /\ char = Open =>
              TokenEnd(s, p) = LET close == RunEnd(s, p + 2, NotBrace) IN
                               IF close = Len(s) THEN close
                               ELSE IF close > p + 2 THEN close + 1 ELSE p + 1
         /\ char \notin Singles \cup Digits \cup {Open} => TokenEnd(s, p) = p + 1
<1> DEFINE close == RunEnd(s, p + 2, NotBrace)
           digits == RunEnd(s, p + 1, Digits)
<1>1. p + 1 # Len(s)
  BY DollarPlace
<1>2. ~(s[p + 1] # "$") /\ s[p + 2] = char
  BY DEF DollarAt
<1>3. TokenEnd(s, p)
        = IF char \in Singles THEN p + 2
          ELSE IF char \in Digits THEN digits
          ELSE IF char = Open /\ close = Len(s) THEN close
          ELSE IF char = Open /\ close > p + 2 THEN close + 1
          ELSE p + 1
  BY <1>1, <1>2, Zenon DEF TokenEnd, Open
<1> HIDE DEF close, digits
<1>4. TokenEnd(s, p) = p + 2 \/ char \notin Singles
  BY <1>3
<1>5. char \in Digits => TokenEnd(s, p) = digits
  BY <1>3, Classes
<1>6. char = Open => TokenEnd(s, p) = IF close = Len(s) THEN close
                                     ELSE IF close > p + 2 THEN close + 1 ELSE p + 1
  BY <1>3, Classes
<1>7. char \notin Singles \cup Digits \cup {Open} => TokenEnd(s, p) = p + 1
  BY <1>3
<1> QED
  BY <1>4, <1>5, <1>6, <1>7 DEF close, digits

(* The meaning of a token that begins with a dollar. *)
LEMMA DollarMeaning ==
  ASSUME NEW c, NEW token, Len(token) # 1
  PROVE  /\ token[2] \in Singles => Meaning(c, token) = SingleMeaning(c, token[2])
         /\ token[2] \in Digits =>
              Meaning(c, token) = Numbered(c, SubSeq(token, 2, Len(token)), token)
         /\ token[2] = Open =>
              Meaning(c, token)
                = IF token[Len(token)] = Close THEN Named(c, SubSeq(token, 3, Len(token) - 1), token)
                  ELSE token
<1> DEFINE char == token[2]
           last == token[Len(token)]
           number == SubSeq(token, 2, Len(token))
           name == SubSeq(token, 3, Len(token) - 1)
<1>1. Meaning(c, token)
        = IF char \in Singles THEN SingleMeaning(c, char)
          ELSE IF char \in Digits THEN Numbered(c, number, token)
          ELSE IF last = Close THEN Named(c, name, token)
          ELSE token
  BY Zenon DEF Meaning, Close
<1> HIDE DEF char, last, number, name
<1> QED
  BY <1>1, Classes DEF char, last, number, name

(* A character of a literal that is no dollar, after one that is a token.  *)
LEMMA DollarRun ==
  ASSUME NEW s \in Seq(Chars), NEW p, NEW char, DollarAt(s, p, char), char # "$",
         TokenEnd(s, p) = p + 1
  PROVE  Explained(s, LiteralPart(SubSeq(s, p + 1, p + 2)), p, p + 2)
<1>1. p \in Nat /\ (p + 1) + 1 = p + 2
  BY DollarPlace
<1>2. s[(p + 1) + 1] # "$"
  BY <1>1 DEF DollarAt
<1>3. TokenEnd(s, p + 1) = p + 2
  BY <1>1, <1>2, PlainToken
<1> HIDE DEF DollarAt
<1>4. ASSUME NEW r \in p..((p + 2) - 1)
      PROVE  r = p \/ r = p + 1
  BY <1>1
<1>5. \A r \in p..((p + 2) - 1) : TokenEnd(s, r) = r + 1
  BY <1>1, <1>3, <1>4
<1> QED
  BY <1>5 DEF Explained, LiteralRun

LEMMA SpecialExplained ==
  ASSUME NEW s \in Seq(Chars), NEW p, NEW char, DollarAt(s, p, char),
         char \notin {Open} \cup Digits
  PROVE  Explained(s, Special(char), p, p + 2)
<1>1. SubSeq(s, p + 1, p + 2) = <<"$", char>>
  <2>1. PICK n \in 1..(Len(s) - 1) : n = p + 1 /\ n + 1 = p + 2
    BY DollarPlace
  <2>2. SubSeq(s, n, n + 1) = <<s[n], s[n + 1]>>
    BY TwoChars
  <2>3. s[n] = "$" /\ s[n + 1] = char
    BY <2>1 DEF DollarAt
  <2> QED
    BY <2>1, <2>2, <2>3
<1>2. CASE char \in Singles
  <2>1. TokenEnd(s, p) = p + 2
    BY <1>2, DollarToken
  <2>2. ASSUME NEW c \in AllCaptures
        PROVE  PartText(Special(char), RealMatch(c)) = Meaning(c, SubSeq(s, p + 1, p + 2))
    <3> DEFINE token == <<"$", char>>
    <3>1. Len(token) # 1 /\ token[2] = char
      BY DollarPlace, TwoLong
    <3> HIDE DEF token
    <3>2. Meaning(c, token) = SingleMeaning(c, char)
      BY <1>2, <3>1, DollarMeaning
    <3> QED
      BY <1>1, <1>2, <3>2, SpecialText DEF token
  <2> QED
    BY <2>1, <2>2 DEF Explained, Placeholder
<1>3. CASE char \notin Singles
  <2>1. Special(char) = LiteralPart(<<"$", char>>)
    BY <1>3 DEF Special, Singles
  <2>2. TokenEnd(s, p) = p + 1
    BY <1>3, DollarToken
  <2>3. char # "$"
    BY <1>3 DEF Singles
  <2> QED
    BY <1>1, <2>1, <2>2, <2>3, DollarRun
<1> QED
  BY <1>2, <1>3

(* The characters of a token, of two or more. *)
TokenAt(s, p, q, token) ==
  /\ p \in Nat /\ q \in Nat /\ p + 2 <= q /\ q <= Len(s)
  /\ token = SubSeq(s, p + 1, q)

TokenReads(s, p, q, token) ==
  /\ token \in Seq(Chars) /\ Len(token) = q - p /\ Len(token) # 1
  /\ token[2] = s[p + 2] /\ token[Len(token)] = s[q]
  /\ SubSeq(token, 2, Len(token)) = SubSeq(s, p + 2, q)
  /\ p + 4 <= q => SubSeq(token, 3, Len(token) - 1) = SubSeq(s, p + 3, q - 1)

LEMMA TokenChars ==
  ASSUME NEW s \in Seq(Chars), NEW p, NEW q, NEW token, TokenAt(s, p, q, token)
  PROVE  TokenReads(s, p, q, token)
<1>0. p \in Nat /\ q \in Nat /\ p + 2 <= q /\ q <= Len(s) /\ token = SubSeq(s, p + 1, q)
  BY DEF TokenAt
<1>1. Len(s) \in Nat
  BY LenProperties
<1> USE <1>0
<1>2. PICK i \in 1..Len(s) : i = p + 1
  <2>1. p + 1 \in 1..Len(s)
    BY <1>1
  <2> QED
    BY <2>1
<1>3. q \in 1..Len(s)
  BY <1>1
<1>4. token = SubSeq(s, i, q)
  BY <1>2
<1>5. /\ token \in Seq(Chars) /\ Len(token) = q - i + 1
      /\ \A k \in 1..(q - i + 1) : token[k] = s[i + k - 1]
  <2>1. i \in 1..(Len(s) + 1) /\ q <= Len(s) /\ i <= q + 1
    BY <1>1, <1>2
  <2> QED
    BY <1>4, <2>1, PatternSlice
<1>6. Len(token) = q - p /\ Len(token) # 1
  BY <1>2, <1>5
<1>7. token[2] = s[p + 2]
  <2>1. PICK k \in 1..(q - i + 1) : k = 2 /\ i + k - 1 = p + 2
    <3>1. 2 \in 1..(q - i + 1) /\ i + 2 - 1 = p + 2
      BY <1>2
    <3> QED
      BY <3>1
  <2> QED
    BY <1>5, <2>1
<1>8. token[Len(token)] = s[q]
  <2>1. PICK k \in 1..(q - i + 1) : k = Len(token) /\ i + k - 1 = q
    <3>1. q - p \in 1..(q - i + 1) /\ i + (q - p) - 1 = q
      BY <1>2
    <3> QED
      BY <1>6, <3>1
  <2> QED
    BY <1>5, <2>1
<1>9. ASSUME NEW m \in Nat, NEW n \in Nat, 1 <= m, 1 <= n, m <= q - p, n <= q - p
      PROVE  SubSeq(token, m, n) = SubSeq(s, p + m, p + n)
  <2>1. m \in 1..(q - i + 1) /\ n \in 1..(q - i + 1)
    BY <1>2, <1>9
  <2>2. SubSeq(SubSeq(s, i, q), m, n) = SubSeq(s, i + m - 1, i + n - 1)
    BY <1>3, <2>1, SubSeqOfSubSeq
  <2>3. i + m - 1 = p + m /\ i + n - 1 = p + n
    BY <1>2, <1>9
  <2> QED
    BY <1>4, <2>2, <2>3
<1>10. SubSeq(token, 2, Len(token)) = SubSeq(s, p + 2, q)
  <2>1. PICK m \in Nat : m = 2 /\ m <= q - p /\ 1 <= m
    <3>1. 2 \in Nat /\ 2 <= q - p /\ 1 <= 2
      OBVIOUS
    <3> QED
      BY <3>1
  <2>2. PICK n \in Nat : n = q - p /\ n <= q - p /\ 1 <= n /\ p + n = q
    <3>1. q - p \in Nat /\ q - p <= q - p /\ 1 <= q - p /\ p + (q - p) = q
      OBVIOUS
    <3> QED
      BY <3>1
  <2>3. SubSeq(token, m, n) = SubSeq(s, p + m, p + n)
    BY <1>9, <2>1, <2>2
  <2> QED
    BY <1>6, <2>1, <2>2, <2>3
<1>11. ASSUME p + 4 <= q
       PROVE  SubSeq(token, 3, Len(token) - 1) = SubSeq(s, p + 3, q - 1)
  <2>1. PICK m \in Nat : m = 3 /\ m <= q - p /\ 1 <= m
    <3>1. 3 \in Nat /\ 3 <= q - p /\ 1 <= 3
      BY <1>11
    <3> QED
      BY <3>1
  <2>2. PICK n \in Nat : n = (q - p) - 1 /\ n <= q - p /\ 1 <= n /\ p + n = q - 1
    <3>1. /\ (q - p) - 1 \in Nat /\ (q - p) - 1 <= q - p /\ 1 <= (q - p) - 1
          /\ p + ((q - p) - 1) = q - 1
      BY <1>11
    <3> QED
      BY <3>1
  <2>3. SubSeq(token, m, n) = SubSeq(s, p + m, p + n)
    BY <1>9, <2>1, <2>2
  <2> QED
    BY <1>6, <2>1, <2>2, <2>3
<1> QED
  BY <1>5, <1>6, <1>7, <1>8, <1>10, <1>11 DEF TokenReads

(* A dollar and a brace at p, with no closing brace up to q.               *)
BraceAt(s, p, q) ==
  /\ DollarAt(s, p, Open)
  /\ q \in (p + 2)..Len(s) /\ \A i \in (p + 2)..q : s[i] \in NotBrace

ClosedAt(s, q) == q < Len(s) /\ s[q + 1] = Close

LEMMA BracePlace ==
  ASSUME NEW s \in Seq(Chars), NEW p, NEW q, BraceAt(s, p, q)
  PROVE  /\ DollarAt(s, p, Open) /\ p \in Nat /\ q \in Nat /\ Len(s) \in Nat
         /\ p + 2 <= q /\ q <= Len(s) /\ q \in (p + 2)..Len(s)
<1>1. DollarAt(s, p, Open) /\ q \in (p + 2)..Len(s)
  BY DEF BraceAt
<1>2. p \in Nat /\ Len(s) \in Nat /\ p + 2 <= Len(s)
  BY <1>1, DollarPlace
<1> QED
  BY <1>1, <1>2

LEMMA BraceChars ==
  ASSUME NEW s \in Seq(Chars), NEW p, NEW q, BraceAt(s, p, q)
  PROVE  s[p + 2] = Open /\ s[q] # Close
<1>1. DollarAt(s, p, Open) /\ \A i \in (p + 2)..q : s[i] \in NotBrace
  BY DEF BraceAt
<1>2. q \in (p + 2)..q
  BY BracePlace
<1> QED
  BY <1>1, <1>2 DEF DollarAt, NotBrace, Close

LEMMA BraceRun ==
  ASSUME NEW s \in Seq(Chars), NEW p, NEW q, BraceAt(s, p, q), ClosedAt(s, q) \/ q = Len(s)
  PROVE  RunEnd(s, p + 2, NotBrace) = q
<1>1. p \in Nat /\ q \in Nat /\ Len(s) \in Nat /\ p + 2 <= q /\ q <= Len(s)
  BY BracePlace
<1>2. \A i \in (p + 2)..q : s[i] \in NotBrace
  BY DEF BraceAt
<1>3. PICK b \in 0..Len(s) : b = p + 2
  BY <1>1
<1>4. q \in b..Len(s)
  BY <1>1, <1>3
<1>5. \A i \in (b + 1)..q : i \in (p + 2)..q
  BY <1>1, <1>3
<1>6. \A i \in (b + 1)..q : s[i] \in NotBrace
  BY <1>2, <1>5
<1>7. q < Len(s) => s[q + 1] \notin NotBrace
  <2>1. ClosedAt(s, q) => s[q + 1] \notin NotBrace
    BY DEF ClosedAt, NotBrace, Close
  <2>2. q = Len(s) => ~(q < Len(s))
    BY <1>1
  <2> QED
    BY <2>1, <2>2
<1>8. RunEnd(s, b, NotBrace) = q
  BY <1>4, <1>6, <1>7, RunEndIs
<1> QED
  BY <1>3, <1>8

(* What is between braces is the name of a group. *)
LEMMA NameExplained ==
  ASSUME NEW s \in Seq(Chars), NEW p, NEW q, BraceAt(s, p, q), ClosedAt(s, q), p + 2 < q,
         NEW name, name = SubSeq(s, p + 3, q),
         NEW fallback, fallback = SubSeq(s, p + 1, q + 1)
  PROVE  Explained(s, NamedGroupPart(name, TryParse(name), fallback), p, q + 1)
<1> DEFINE part == NamedGroupPart(name, TryParse(name), fallback)
<1>1. /\ DollarAt(s, p, Open) /\ p \in Nat /\ q \in Nat /\ Len(s) \in Nat
      /\ RunEnd(s, p + 2, NotBrace) = q
  BY BracePlace, BraceRun
<1>2. q < Len(s) /\ s[q + 1] = Close
  BY DEF ClosedAt
<1>3. q # Len(s) /\ q > p + 2
  <2>1. q < Len(s)
    BY <1>2
  <2> QED
    BY <1>1, <2>1
<1>4. TokenEnd(s, p) = q + 1
  BY <1>1, <1>3, DollarToken
<1>5. PICK end \in Nat : end = q + 1 /\ p + 2 <= end /\ end <= Len(s) /\ p + 4 <= end
                         /\ end - 1 = q
  <2>1. q < Len(s)
    BY <1>2
  <2>2. q + 1 \in Nat /\ p + 2 <= q + 1 /\ q + 1 <= Len(s) /\ p + 4 <= q + 1 /\ (q + 1) - 1 = q
    BY <1>1, <2>1
  <2> QED
    BY <2>2
<1>6. fallback = SubSeq(s, p + 1, end)
  BY <1>5
<1>7. /\ Len(fallback) # 1 /\ fallback[2] = s[p + 2] /\ fallback[Len(fallback)] = s[end]
      /\ SubSeq(fallback, 3, Len(fallback) - 1) = SubSeq(s, p + 3, end - 1)
  <2>1. TokenAt(s, p, end, fallback)
    BY <1>1, <1>5, <1>6 DEF TokenAt
  <2>2. TokenReads(s, p, end, fallback)
    BY <2>1, TokenChars
  <2> QED
    BY <1>1, <1>5, <2>2 DEF TokenReads
<1>8. /\ Len(fallback) # 1 /\ fallback[2] = Open /\ fallback[Len(fallback)] = Close
      /\ SubSeq(fallback, 3, Len(fallback) - 1) = name
  <2>1. s[p + 2] = Open /\ s[end] = Close
    BY <1>2, <1>5, BraceChars
  <2> QED
    BY <1>5, <1>7, <2>1
<1>9. ASSUME NEW c \in AllCaptures
      PROVE  PartText(part, RealMatch(c)) = Meaning(c, fallback)
  <2>1. Meaning(c, fallback) = Named(c, name, fallback)
    BY <1>8, DollarMeaning
  <2>2. part.kind = "named"
    BY DEF NamedGroupPart
  <2> HIDE DEF part
  <2>3. PartText(part, RealMatch(c)) = NamedGroupText(part, RealMatch(c))
    BY <2>2 DEF PartText
  <2> QED
    BY <2>1, <2>3, NamedText DEF part
<1> HIDE DEF part
<1> QED
  BY <1>4, <1>9 DEF Explained, Placeholder, part

(* A brace that is never closed takes the rest of the string. *)
LEMMA UnclosedExplained ==
  ASSUME NEW s \in Seq(Chars), NEW p, NEW q, BraceAt(s, p, q), q = Len(s)
  PROVE  Explained(s, LiteralPart(SubSeq(s, p + 1, q)), p, q)
<1>1. /\ DollarAt(s, p, Open) /\ p \in Nat /\ q \in Nat /\ p + 2 <= q /\ q <= Len(s)
      /\ RunEnd(s, p + 2, NotBrace) = q
  BY BracePlace, BraceRun
<1>2. TokenEnd(s, p) = q
  BY <1>1, DollarToken
<1>3. PICK token : token = SubSeq(s, p + 1, q)
  OBVIOUS
<1>4. Len(token) # 1 /\ token[2] = s[p + 2] /\ token[Len(token)] = s[q]
  <2>1. TokenAt(s, p, q, token)
    BY <1>1, <1>3 DEF TokenAt
  <2>2. TokenReads(s, p, q, token)
    BY <2>1, TokenChars
  <2> QED
    BY <2>2 DEF TokenReads
<1>5. token[2] = Open /\ token[Len(token)] # Close
  BY <1>4, BraceChars
<1>6. ASSUME NEW c \in AllCaptures
      PROVE  PartText(LiteralPart(token), RealMatch(c)) = Meaning(c, token)
  <2>1. Meaning(c, token) = token
    BY <1>4, <1>5, DollarMeaning
  <2> QED
    BY <2>1, LiteralText
<1> QED
  BY <1>2, <1>3, <1>6 DEF Explained, Placeholder

(* A brace without a name is a character. *)
LEMMA NoNameExplained ==
  ASSUME NEW s \in Seq(Chars), NEW p, NEW q, BraceAt(s, p, q), ClosedAt(s, q), q = p + 2
  PROVE  Explained(s, LiteralPart(SubSeq(s, p + 1, q)), p, q)
<1>1. /\ DollarAt(s, p, Open) /\ p \in Nat /\ q \in Nat
      /\ Len(s) \in Nat /\ RunEnd(s, p + 2, NotBrace) = q
  BY BracePlace, BraceRun
<1>2. q < Len(s)
  BY DEF ClosedAt
<1>3. q # Len(s) /\ ~(q > p + 2)
  BY <1>1, <1>2
<1>4. TokenEnd(s, p) = p + 1
  BY <1>1, <1>3, DollarToken
<1>5. Open # "$"
  BY Zenon DEF Open
<1>6. Explained(s, LiteralPart(SubSeq(s, p + 1, p + 2)), p, p + 2)
  BY <1>1, <1>4, <1>5, DollarRun
<1> QED
  BY <1>6

(* The digits after a dollar are the number of a group. *)
LEMMA DigitsExplained ==
  ASSUME NEW s \in Seq(Chars), NEW p, NEW char \in Digits, DollarAt(s, p, char),
         NEW q \in (p + 2)..Len(s), \A i \in (p + 2)..q : s[i] \in Digits,
         q < Len(s) => s[q + 1] \notin Digits,
         NEW text, text = SubSeq(s, p + 2, q),
         NEW fallback, fallback = SubSeq(s, p + 1, q)
  PROVE  Explained(s, DigitsPart(text, fallback), p, q)
<1> DEFINE part == DigitsPart(text, fallback)
<1>1. p \in Nat /\ Len(s) \in Nat /\ p + 2 <= Len(s)
  BY DollarPlace
<1>2. q \in Nat /\ p + 2 <= q /\ q <= Len(s)
  BY <1>1
<1>3. RunEnd(s, p + 1, Digits) = q
  <2>1. PICK b \in 0..Len(s) : b = p + 1
    BY <1>1
  <2>2. q \in b..Len(s)
    BY <1>1, <1>2, <2>1
  <2>3. \A i \in (b + 1)..q : i \in (p + 2)..q
    BY <1>1, <1>2, <2>1
  <2>4. \A i \in (b + 1)..q : s[i] \in Digits
    BY <2>3
  <2>5. RunEnd(s, b, Digits) = q
    BY <2>2, <2>4, RunEndIs
  <2> QED
    BY <2>1, <2>5
<1>4. TokenEnd(s, p) = q
  BY <1>3, DollarToken
<1>5. s[p + 2] = char
  BY DEF DollarAt
<1>6. /\ Len(fallback) # 1 /\ fallback[2] = char
      /\ SubSeq(fallback, 2, Len(fallback)) = text
  <2>1. TokenAt(s, p, q, fallback)
    BY <1>1, <1>2 DEF TokenAt
  <2>2. TokenReads(s, p, q, fallback)
    BY <2>1, TokenChars
  <2> QED
    BY <1>5, <2>2 DEF TokenReads
<1>7. ASSUME NEW c \in AllCaptures
      PROVE  PartText(part, RealMatch(c)) = Meaning(c, fallback)
  <2>1. Meaning(c, fallback) = Numbered(c, text, fallback)
    BY <1>6, DollarMeaning
  <2>2. GroupText(GetGroup(RealMatch(c), TryParse(text)), fallback) = Numbered(c, text, fallback)
    BY NumberedText
  <2>3. CASE TryParse(text) >= 0
    <3>1. part = IndexedGroupPart(TryParse(text), fallback)
      BY <2>3 DEF DigitsPart
    <3> HIDE DEF part
    <3> QED
      BY <2>1, <2>2, <3>1, IndexedText
  <2>4. CASE ~(TryParse(text) >= 0)
    <3>1. part = LiteralPart(fallback)
      BY <2>4 DEF DigitsPart
    <3> HIDE DEF part
    <3>2. TryParse(text) \notin Groups
      BY <2>4, TryParseRange DEF Groups
    <3>3. GetGroup(RealMatch(c), TryParse(text)) = Undefined /\ ~Undefined.defined
      BY <3>2 DEF GetGroup, Undefined
    <3>4. GroupText(GetGroup(RealMatch(c), TryParse(text)), fallback) = fallback
      BY <3>3 DEF GroupText
    <3> QED
      BY <2>1, <2>2, <3>1, <3>4, LiteralText
  <2> QED
    BY <2>3, <2>4
<1> HIDE DEF part
<1> QED
  BY <1>4, <1>7 DEF Explained, Placeholder, part

-----------------------------------------------------------------------------
(* What the scanner has seen, and what the parts it has made stand for.    *)

Scanned ==
  /\ pc = "text" => \A i \in (startIdx + 1)..idx : pattern[i] # "$"
  /\ pc = "brace" =>
       /\ DollarAt(pattern, startIdx - 1, Open)
       /\ \A i \in (startIdx + 1)..idx : pattern[i] \in NotBrace
  /\ pc = "digits" =>
       /\ \E char \in Digits : DollarAt(pattern, startIdx - 1, char)
       /\ \A i \in (startIdx + 1)..idx : pattern[i] \in Digits

Meanings == \A k \in 1..Len(parts) : Explained(pattern, parts[k], Begin(k), ends[k])

LEMMA SameMeanings ==
  ASSUME Meanings, UNCHANGED <<pattern, parts, ends>>
  PROVE  Meanings'
BY DEF Meanings, Begin

LEMMA AddMeanings ==
  ASSUME Inv, Meanings, pattern' = pattern, NEW part, NEW end, Add(part, end),
         pc' \in {"top", "parsed"}, Explained(pattern, part, Covered, end)
  PROVE  Scanned' /\ Meanings'
<1>1. /\ parts' = Append(parts, part) /\ ends' = Append(ends, end)
      /\ parts \in Seq(Parts) /\ ends \in Seq(0..Len(pattern)) /\ Len(ends) = Len(parts)
  BY DEF Add, Inv, TypeOK, Tiles
<1>2. Len(parts) \in Nat
  BY <1>1, LenProperties
<1>3. parts \in Seq(Parts \cup {part}) /\ ends \in Seq((0..Len(pattern)) \cup {end})
  <2>1. Parts \subseteq Parts \cup {part} /\ 0..Len(pattern) \subseteq (0..Len(pattern)) \cup {end}
    OBVIOUS
  <2> QED
    BY <1>1, <2>1, SeqMonotonic
<1>4. /\ Len(parts') = Len(parts) + 1 /\ Len(ends') = Len(parts) + 1
      /\ \A k \in 1..Len(parts) : parts'[k] = parts[k] /\ ends'[k] = ends[k]
      /\ parts'[Len(parts) + 1] = part /\ ends'[Len(parts) + 1] = end
  <2>1. part \in Parts \cup {part} /\ end \in (0..Len(pattern)) \cup {end}
    OBVIOUS
  <2> QED
    BY <1>1, <1>3, <2>1, AppendProperties
<1>5. ASSUME NEW k \in 1..(Len(parts) + 1)
      PROVE  Explained(pattern, parts'[k], Begin(k)', ends'[k])
  <2>1. CASE k <= Len(parts)
    <3>1. k \in 1..Len(parts) /\ ends'[k] = ends[k] /\ parts'[k] = parts[k]
      BY <1>2, <1>4, <2>1
    <3>2. k # 1 => k - 1 \in 1..Len(parts)
      BY <1>2, <3>1
    <3>3. Begin(k)' = Begin(k)
      BY <1>4, <3>2 DEF Begin
    <3> QED
      BY <3>1, <3>3 DEF Meanings
  <2>2. CASE ~(k <= Len(parts))
    <3>1. k = Len(parts) + 1
      BY <1>2, <2>2
    <3>2. Begin(k)' = Covered
      <4>1. CASE ends = << >>
        <5>1. k = 1
          BY <1>1, <3>1, <4>1, EmptySeq
        <5> QED
          BY <4>1, <5>1 DEF Begin, Covered
      <4>2. CASE ends # << >>
        <5>1. Len(parts) \in 1..Len(parts) /\ k # 1 /\ k - 1 = Len(parts)
          BY <1>1, <1>2, <3>1, <4>2, EmptySeq
        <5> QED
          BY <1>1, <1>4, <4>2, <5>1 DEF Begin, Covered
      <4> QED
        BY <4>1, <4>2
    <3> QED
      BY <1>4, <3>1, <3>2
  <2> QED
    BY <2>1, <2>2
<1>6. Meanings'
  BY <1>4, <1>5 DEF Meanings
<1>7. Scanned'
  BY DEF Scanned
<1> QED
  BY <1>6, <1>7

LEMMA StartMeanings == Inv /\ Meanings /\ Start => Scanned' /\ Meanings'
<1> SUFFICES ASSUME Inv, Meanings, Start PROVE Scanned' /\ Meanings'
  OBVIOUS
<1>1. /\ pattern' = pattern /\ Covered = 0
      /\ pattern \in Seq(Chars) /\ Len(pattern) \in Nat
  BY Bounds DEF Start, Inv, Position, Covered
<1>2. CASE Len(pattern) = 0 /\ Goto("parsed") /\ UNCHANGED <<parts, idx, ends>>
  BY <1>1, <1>2, SameMeanings DEF Goto, Scanned
<1>3. CASE /\ Len(pattern) > 0 /\ Dollars = {}
           /\ Add(LiteralPart(pattern), Len(pattern)) /\ Goto("parsed")
  <2>1. pattern = SubSeq(pattern, 0 + 1, Len(pattern))
    BY <1>1, <1>3, WholeSlice
  <2>2. \A i \in (0 + 1)..Len(pattern) : pattern[i] # "$"
    BY <1>3 DEF Dollars
  <2>3. 0 \in Nat
    OBVIOUS
  <2>4. Explained(pattern, LiteralPart(SubSeq(pattern, 0 + 1, Len(pattern))), 0, Len(pattern))
    BY <1>1, <2>2, <2>3, PlainRun
  <2> QED
    BY <1>1, <1>3, <2>1, <2>4, AddMeanings DEF Goto
<1>4. ASSUME NEW i \in Dollars, \A j \in Dollars : i <= j, Goto("top"),
             IF i > 1 THEN Add(LiteralPart(Slice(pattern, 0, i - 1)), i - 1)
             ELSE UNCHANGED <<parts, idx, ends>>
      PROVE  Scanned' /\ Meanings'
  <2>1. i \in 1..Len(pattern)
    BY DEF Dollars
  <2>2. CASE i > 1
    <3>1. PICK end \in Nat : end = i - 1
      <4>1. i - 1 \in Nat
        BY <2>1
      <4> QED
        BY <4>1
    <3>2. Slice(pattern, 0, i - 1) = SubSeq(pattern, 0 + 1, end)
      BY <3>1 DEF Slice
    <3>3. \A j \in (0 + 1)..end : j \in 1..Len(pattern) /\ ~(i <= j)
      BY <1>1, <2>1, <3>1
    <3>4. \A j \in (0 + 1)..end : pattern[j] # "$"
      BY <1>4, <3>3 DEF Dollars
    <3>5. 0 \in Nat
      OBVIOUS
    <3>6. Explained(pattern, LiteralPart(SubSeq(pattern, 0 + 1, end)), 0, end)
      BY <3>4, <3>5, PlainRun
    <3> QED
      BY <1>1, <1>4, <2>2, <3>1, <3>2, <3>6, AddMeanings DEF Goto
  <2>3. CASE ~(i > 1)
    BY <1>1, <1>4, <2>3, SameMeanings DEF Goto, Scanned
  <2> QED
    BY <2>2, <2>3
<1> QED
  BY <1>2, <1>3, <1>4 DEF Start

LEMMA TopMeanings == Inv /\ Meanings /\ Top => Scanned' /\ Meanings'
<1> SUFFICES ASSUME Inv, Meanings, Top PROVE Scanned' /\ Meanings'
  OBVIOUS
<1>1. Meanings'
  BY SameMeanings DEF Top
<1>2. CASE pc' \in {"parsed", "dollar"}
  BY <1>1, <1>2 DEF Scanned
<1>3. CASE pc' = "text" /\ startIdx' = idx /\ idx' = idx
  <2>1. (startIdx' + 1)..idx' = {}
    BY <1>3, Bounds
  <2> QED
    BY <1>1, <1>3, <2>1 DEF Scanned
<1> QED
  BY <1>2, <1>3 DEF Top, Goto

LEMMA TextMeanings == Inv /\ Scanned /\ Meanings /\ Text => Scanned' /\ Meanings'
<1> SUFFICES ASSUME Inv, Scanned, Meanings, Text PROVE Scanned' /\ Meanings'
  OBVIOUS
<1>1. /\ pc = "text" /\ pattern' = pattern /\ startIdx' = startIdx /\ Covered = startIdx
      /\ \A i \in (startIdx + 1)..idx : pattern[i] # "$"
  BY DEF Text, Scanned, Inv, Position
<1>2. idx \in Nat /\ startIdx \in Nat
  BY Bounds
<1>3. CASE ~AtEnd /\ Char # "$"
  <2>1. idx' = idx + 1 /\ UNCHANGED <<pc, parts, ends>> /\ pattern[idx + 1] # "$"
    BY <1>3 DEF Text, Char
  <2>2. \A i \in (startIdx + 1)..(idx + 1) : i \in (startIdx + 1)..idx \/ i = idx + 1
    BY <1>2
  <2>3. \A i \in (startIdx + 1)..(idx + 1) : pattern[i] # "$"
    BY <1>1, <2>1, <2>2
  <2> QED
    BY <1>1, <2>1, <2>3, SameMeanings DEF Scanned
<1>4. CASE ~(~AtEnd /\ Char # "$")
  <2>1. Add(LiteralPart(Slice(pattern, startIdx, idx - startIdx)), idx) /\ pc' = "top"
    BY <1>4 DEF Text, Goto
  <2>2. Slice(pattern, startIdx, idx - startIdx) = SubSeq(pattern, startIdx + 1, idx)
    BY <1>2 DEF Slice
  <2>3. Explained(pattern, LiteralPart(SubSeq(pattern, startIdx + 1, idx)), startIdx, idx)
    BY <1>1, <1>2, PlainRun
  <2> QED
    BY <1>1, <2>1, <2>2, <2>3, AddMeanings
<1> QED
  BY <1>3, <1>4

LEMMA AfterDollarMeanings == Inv /\ Meanings /\ AfterDollar => Scanned' /\ Meanings'
<1> SUFFICES ASSUME Inv, Meanings, AfterDollar PROVE Scanned' /\ Meanings'
  OBVIOUS
<1>1. /\ pattern' = pattern /\ Covered = idx - 1 /\ idx >= 1 /\ pattern[idx] = "$"
  BY DEF AfterDollar, Inv, Position
<1>2. /\ pattern \in Seq(Chars) /\ Len(pattern) \in Nat /\ idx \in Nat /\ idx <= Len(pattern)
  BY Bounds
<1>3. PICK p \in Nat : p = Covered /\ p = idx - 1 /\ p + 1 = idx /\ p + 2 = idx + 1
  <2>1. idx >= 1 /\ Covered = idx - 1
    BY <1>1
  <2>2. idx - 1 \in Nat /\ (idx - 1) + 1 = idx /\ (idx - 1) + 2 = idx + 1
    BY <1>2, <2>1
  <2> QED
    BY <2>1, <2>2
<1>4. CASE AtEnd /\ Add(Dollar, idx) /\ Goto("parsed")
  <2>1. idx = Len(pattern) /\ idx \in 1..Len(pattern)
    <3>1. idx >= 1 /\ idx >= Len(pattern)
      BY <1>1, <1>4 DEF AtEnd
    <3> QED
      BY <1>2, <3>1
  <2>2. SubSeq(pattern, p + 1, idx) = <<"$">>
    BY <1>1, <1>2, <1>3, <2>1, OneChar
  <2>3. TokenEnd(pattern, p) = p + 1
    BY <1>3, <2>1, PlainToken
  <2>4. \A r \in p..(idx - 1) : r = p
    BY <1>3
  <2>5. \A r \in p..(idx - 1) : TokenEnd(pattern, r) = r + 1
    BY <2>3, <2>4
  <2>6. Explained(pattern, Dollar, p, idx)
    BY <2>2, <2>5 DEF Explained, LiteralRun, Dollar
  <2> QED
    BY <1>1, <1>3, <1>4, <2>6, AddMeanings DEF Goto
<1>5. ASSUME ~AtEnd
      PROVE  DollarAt(pattern, p, Char)
  <2>1. p + 2 <= Len(pattern)
    BY <1>2, <1>3, <1>5 DEF AtEnd
  <2> QED
    BY <1>1, <1>3, <2>1 DEF DollarAt, Char
<1>6. CASE /\ ~AtEnd /\ Char \in {Open} \cup Digits /\ startIdx' = idx
           /\ pc' = (IF Char = Open THEN "brace" ELSE "digits")
           /\ UNCHANGED <<parts, idx, ends>>
  <2>1. Meanings'
    BY <1>1, <1>6, SameMeanings
  <2>2. DollarAt(pattern, startIdx' - 1, Char) /\ (startIdx' + 1)..idx' = {}
    BY <1>2, <1>3, <1>5, <1>6
  <2>3. CASE Char = Open
    <3>1. pc' = "brace"
      BY <1>6, <2>3
    <3> QED
      BY <1>1, <2>1, <2>2, <2>3, <3>1 DEF Scanned
  <2>4. CASE Char # Open
    <3>1. pc' = "digits" /\ Char \in Digits
      BY <1>6, <2>4
    <3> QED
      BY <1>1, <2>1, <2>2, <3>1 DEF Scanned
  <2> QED
    BY <2>3, <2>4
<1>7. CASE /\ ~AtEnd /\ Char \notin {Open} \cup Digits
           /\ Add(Special(Char), idx + 1) /\ Goto("top")
  <2>1. Explained(pattern, Special(Char), p, p + 2)
    BY <1>2, <1>5, <1>7, SpecialExplained
  <2> QED
    BY <1>1, <1>3, <1>7, <2>1, AddMeanings DEF Goto
<1> QED
  BY <1>4, <1>6, <1>7, Zenon DEF AfterDollar, Goto, Open

LEMMA BraceMeanings == Inv /\ Scanned /\ Meanings /\ Brace => Scanned' /\ Meanings'
<1> SUFFICES ASSUME Inv, Scanned, Meanings, Brace PROVE Scanned' /\ Meanings'
  OBVIOUS
<1>1. /\ pc = "brace" /\ pattern' = pattern /\ startIdx' = startIdx
      /\ Covered = startIdx - 1 /\ startIdx >= 1 /\ startIdx <= idx
      /\ DollarAt(pattern, startIdx - 1, Open)
      /\ \A i \in (startIdx + 1)..idx : pattern[i] \in NotBrace
  BY DEF Brace, Scanned, Inv, Position
<1>2. /\ pattern \in Seq(Chars) /\ Len(pattern) \in Nat
      /\ idx \in Nat /\ idx <= Len(pattern) /\ startIdx \in Nat
      /\ (idx < Len(pattern) => pattern[idx + 1] \in Chars)
  BY Bounds
<1>3. PICK p \in Nat : p = Covered /\ p = startIdx - 1 /\ p + 1 = startIdx /\ p + 2 = startIdx + 1
                       /\ p + 3 = startIdx + 2
  <2>1. /\ startIdx - 1 \in Nat /\ (startIdx - 1) + 1 = startIdx
        /\ (startIdx - 1) + 2 = startIdx + 1 /\ (startIdx - 1) + 3 = startIdx + 2
    BY <1>1, <1>2
  <2> QED
    BY <1>1, <2>1
<1>4. DollarAt(pattern, p, Open) /\ p + 2 <= Len(pattern) /\ pattern[startIdx + 1] = Open
  <2>1. DollarAt(pattern, p, Open)
    BY <1>1, <1>3
  <2> QED
    BY <1>3, <2>1 DEF DollarAt
<1>5. ASSUME idx >= startIdx + 1
      PROVE  BraceAt(pattern, p, idx)
  <2>1. idx \in (p + 2)..Len(pattern)
    BY <1>2, <1>3, <1>5
  <2>2. \A i \in (p + 2)..idx : pattern[i] \in NotBrace
    BY <1>1, <1>3
  <2> QED
    BY <1>4, <2>1, <2>2 DEF BraceAt
<1>6. CASE ~AtEnd /\ Char # Close /\ idx' = idx + 1 /\ UNCHANGED <<pc, parts, ends>>
  <2>1. pattern[idx + 1] \in NotBrace
    <3>1. pattern[idx + 1] \in Chars /\ pattern[idx + 1] # Close
      BY <1>2, <1>6 DEF AtEnd, Char
    <3> QED
      BY <3>1, Zenon DEF NotBrace, Close
  <2>2. \A i \in (startIdx + 1)..(idx + 1) : i \in (startIdx + 1)..idx \/ i = idx + 1
    BY <1>2
  <2>3. \A i \in (startIdx + 1)..(idx + 1) : pattern[i] \in NotBrace
    BY <1>1, <2>1, <2>2
  <2>4. Meanings'
    BY <1>1, <1>6, SameMeanings
  <2> QED
    BY <1>1, <1>6, <2>3, <2>4 DEF Scanned
<1>7. ASSUME NEW name, name = Slice(pattern, startIdx + 1, idx - startIdx - 1),
             NEW fallback, fallback = Slice(pattern, startIdx - 1, idx - startIdx + 2),
             ~AtEnd, Char = Close, idx > startIdx + 1,
             Add(NamedGroupPart(name, TryParse(name), fallback), idx + 1), pc' = "top"
      PROVE  Scanned' /\ Meanings'
  <2>1. BraceAt(pattern, p, idx) /\ p + 2 < idx
    BY <1>2, <1>3, <1>5, <1>7
  <2>2. ClosedAt(pattern, idx)
    BY <1>2, <1>7 DEF ClosedAt, AtEnd, Char
  <2>3. name = SubSeq(pattern, p + 3, idx)
    <3>1. (startIdx + 1) + 1 = startIdx + 2 /\ (startIdx + 1) + (idx - startIdx - 1) = idx
      BY <1>2
    <3>2. name = SubSeq(pattern, startIdx + 2, idx)
      BY <1>7, <3>1 DEF Slice
    <3> QED
      BY <1>3, <3>2
  <2>4. fallback = SubSeq(pattern, p + 1, idx + 1)
    <3>1. (startIdx - 1) + 1 = startIdx /\ (startIdx - 1) + (idx - startIdx + 2) = idx + 1
      BY <1>2
    <3>2. fallback = SubSeq(pattern, startIdx, idx + 1)
      BY <1>7, <3>1 DEF Slice
    <3> QED
      BY <1>3, <3>2
  <2>5. Explained(pattern, NamedGroupPart(name, TryParse(name), fallback), p, idx + 1)
    BY <1>2, <2>1, <2>2, <2>3, <2>4, NameExplained
  <2> QED
    BY <1>1, <1>3, <1>7, <2>5, AddMeanings
<1>8. CASE /\ ~AtEnd => Char = Close /\ idx = startIdx + 1
           /\ BraceEnd /\ pc' = "top"
  <2>1. Add(LiteralPart(SubSeq(pattern, p + 1, idx)), idx)
    <3>1. (startIdx - 1) + 1 = startIdx /\ (startIdx - 1) + (idx - startIdx + 1) = idx
      BY <1>2
    <3>2. Slice(pattern, startIdx - 1, idx - startIdx + 1) = SubSeq(pattern, startIdx, idx)
      BY <3>1 DEF Slice
    <3> QED
      BY <1>3, <1>8, <3>2 DEF BraceEnd
  <2>2. CASE AtEnd
    <3>1. idx = Len(pattern) /\ idx >= startIdx + 1
      BY <1>2, <1>3, <1>4, <2>2 DEF AtEnd
    <3>2. BraceAt(pattern, p, idx)
      BY <1>5, <3>1
    <3>3. Explained(pattern, LiteralPart(SubSeq(pattern, p + 1, idx)), p, idx)
      BY <1>2, <3>1, <3>2, UnclosedExplained
    <3> QED
      BY <1>1, <1>3, <1>8, <2>1, <3>3, AddMeanings
  <2>3. CASE ~AtEnd
    <3>1. idx = startIdx + 1 /\ Char = Close
      BY <1>8, <2>3
    <3>2. BraceAt(pattern, p, idx) /\ idx = p + 2
      <4>1. idx = startIdx + 1
        BY <3>1
      <4> QED
        BY <1>2, <1>3, <1>5, <4>1
    <3>3. ClosedAt(pattern, idx)
      BY <1>2, <2>3, <3>1 DEF ClosedAt, AtEnd, Char
    <3>4. Explained(pattern, LiteralPart(SubSeq(pattern, p + 1, idx)), p, idx)
      BY <1>2, <3>2, <3>3, NoNameExplained
    <3> QED
      BY <1>1, <1>3, <1>8, <2>1, <3>4, AddMeanings
  <2> QED
    BY <2>2, <2>3
<1>9. \/ ~AtEnd /\ Char # Close /\ idx' = idx + 1 /\ UNCHANGED <<pc, parts, ends>>
      \/ /\ ~AtEnd /\ Char = Close /\ idx > startIdx + 1 /\ pc' = "top"
         /\ LET name == Slice(pattern, startIdx + 1, idx - startIdx - 1) IN
              Add(NamedGroupPart(name, TryParse(name),
                                 Slice(pattern, startIdx - 1, idx - startIdx + 2)),
                  idx + 1)
      \/ /\ ~AtEnd => Char = Close /\ idx = startIdx + 1
         /\ BraceEnd /\ pc' = "top"
  BY Zenon DEF Brace, Goto, Close
<1> QED
  BY <1>6, <1>7, <1>8, <1>9

LEMMA DigitMeanings == Inv /\ Scanned /\ Meanings /\ DigitRun => Scanned' /\ Meanings'
<1> SUFFICES ASSUME Inv, Scanned, Meanings, DigitRun PROVE Scanned' /\ Meanings'
  OBVIOUS
<1>1. /\ pc = "digits" /\ pattern' = pattern /\ startIdx' = startIdx
      /\ Covered = startIdx - 1 /\ startIdx >= 1 /\ startIdx <= idx
      /\ \A i \in (startIdx + 1)..idx : pattern[i] \in Digits
  BY DEF DigitRun, Scanned, Inv, Position
<1>2. PICK char \in Digits : DollarAt(pattern, startIdx - 1, char)
  BY <1>1 DEF Scanned
<1>3. /\ pattern \in Seq(Chars) /\ Len(pattern) \in Nat
      /\ idx \in Nat /\ idx <= Len(pattern) /\ startIdx \in Nat
  BY Bounds
<1>4. PICK p \in Nat : p = Covered /\ p = startIdx - 1 /\ p + 1 = startIdx /\ p + 2 = startIdx + 1
  <2>1. /\ startIdx - 1 \in Nat /\ (startIdx - 1) + 1 = startIdx
        /\ (startIdx - 1) + 2 = startIdx + 1
    BY <1>1, <1>3
  <2> QED
    BY <1>1, <2>1
<1>5. DollarAt(pattern, p, char) /\ p + 2 <= Len(pattern) /\ pattern[startIdx + 1] \in Digits
  <2>1. DollarAt(pattern, p, char)
    BY <1>2, <1>4
  <2> QED
    BY <1>4, <2>1 DEF DollarAt
<1>6. CASE ~AtEnd /\ Char \in Digits
  <2>1. idx' = idx + 1 /\ UNCHANGED <<pc, parts, ends>> /\ pattern[idx + 1] \in Digits
    BY <1>6 DEF DigitRun, Char
  <2>2. \A i \in (startIdx + 1)..(idx + 1) : i \in (startIdx + 1)..idx \/ i = idx + 1
    BY <1>3
  <2>3. \A i \in (startIdx + 1)..(idx + 1) : pattern[i] \in Digits
    BY <1>1, <2>1, <2>2
  <2>4. Meanings'
    BY <1>1, <2>1, SameMeanings
  <2> QED
    BY <1>1, <1>2, <2>1, <2>3, <2>4 DEF Scanned
<1>7. CASE ~(~AtEnd /\ Char \in Digits)
  <2> DEFINE text == Slice(pattern, startIdx, idx - startIdx)
             fallback == Slice(pattern, startIdx - 1, idx - startIdx + 1)
  <2>1. Add(DigitsPart(text, fallback), idx) /\ pc' = "top"
    BY <1>7 DEF DigitRun, Goto
  <2>2. idx < Len(pattern) => pattern[idx + 1] \notin Digits
    BY <1>3, <1>7 DEF AtEnd, Char
  <2>3. idx \in (p + 2)..Len(pattern)
    <3>1. idx # startIdx
      <4> SUFFICES ASSUME idx = startIdx
                   PROVE  FALSE
        OBVIOUS
      <4>1. idx < Len(pattern) /\ pattern[idx + 1] \in Digits
        BY <1>3, <1>4, <1>5
      <4> QED
        BY <2>2, <4>1
    <3>2. startIdx <= idx
      BY <1>1
    <3> QED
      BY <1>3, <1>4, <3>1, <3>2
  <2>4. \A i \in (p + 2)..idx : pattern[i] \in Digits
    BY <1>1, <1>4
  <2>5. text = SubSeq(pattern, p + 2, idx)
    <3>1. startIdx + (idx - startIdx) = idx
      BY <1>3
    <3> QED
      BY <1>4, <3>1 DEF Slice
  <2>6. fallback = SubSeq(pattern, p + 1, idx)
    <3>1. (startIdx - 1) + 1 = startIdx /\ (startIdx - 1) + (idx - startIdx + 1) = idx
      BY <1>3
    <3>2. fallback = SubSeq(pattern, startIdx, idx)
      BY <3>1 DEF Slice
    <3> QED
      BY <1>4, <3>2
  <2> HIDE DEF text, fallback
  <2>7. Explained(pattern, DigitsPart(text, fallback), p, idx)
    BY <1>3, <1>5, <2>2, <2>3, <2>4, <2>5, <2>6, DigitsExplained
  <2> QED
    BY <1>1, <1>4, <2>1, <2>7, AddMeanings
<1> QED
  BY <1>6, <1>7

(* Every part stands for the meaning of its tokens. *)
LEMMA MeaningsStep == Inv /\ Scanned /\ Meanings /\ [Next]_vars => Scanned' /\ Meanings'
<1> SUFFICES ASSUME Inv, Scanned, Meanings, [Next]_vars PROVE Scanned' /\ Meanings'
  OBVIOUS
<1>1. ASSUME NEW c \in AllCaptures, AppendParts(c) PROVE Scanned' /\ Meanings'
  BY <1>1, SameMeanings DEF AppendParts, Scanned
<1>2. CASE UNCHANGED vars
  BY <1>2, SameMeanings DEF Scanned, vars
<1> QED
  BY <1>1, <1>2, StartMeanings, TopMeanings, TextMeanings, AfterDollarMeanings,
     BraceMeanings, DigitMeanings DEF Next

LEMMA MeaningsInvariant == Spec => [](Scanned /\ Meanings)
<1>1. Init => Scanned /\ Meanings
  BY DEF Init, Scanned, Meanings
<1> QED
  BY <1>1, Invariant, MeaningsStep, PTL DEF Spec

-----------------------------------------------------------------------------
(* The texts that the grammar gives to the rest of a string, and those of  *)
(* the first parts, are defined by recursion.                              *)

RestAt(f, s, c, p) ==
  IF p = Len(s) THEN << >> ELSE Meaning(c, Token(s, p)) \o f[TokenEnd(s, p)]

RestFrom(f, s, c, n) == \A p \in n..Len(s) : f[p] = RestAt(f, s, c, p)

LEMMA OneMoreRest ==
  ASSUME NEW s \in Seq(Chars), NEW c, NEW n \in Nat, n + 1 <= Len(s),
         NEW f, RestFrom(f, s, c, n + 1)
  PROVE  \E g : RestFrom(g, s, c, n)
<1> DEFINE text == RestAt(f, s, c, n)
           g == [p \in Nat |-> IF p = n THEN text ELSE f[p]]
<1>1. Len(s) \in Nat
  BY LenProperties
<1> HIDE DEF text
<1>2. g[n] = text /\ \A p \in Nat : p # n => g[p] = f[p]
  OBVIOUS
<1> HIDE DEF g
<1>3. ASSUME NEW p \in n..Len(s)
      PROVE  g[p] = RestAt(g, s, c, p)
  <2>1. p \in Nat /\ (p # n => p \in (n + 1)..Len(s))
    BY <1>1
  <2>2. RestAt(g, s, c, p) = RestAt(f, s, c, p)
    <3>1. CASE p = Len(s)
      BY <3>1 DEF RestAt
    <3>2. CASE p # Len(s)
      <4>1. p < Len(s)
        BY <1>1, <3>2
      <4>2. TokenEnd(s, p) \in (p + 1)..Len(s)
        BY <2>1, <4>1, TokenEndRange
      <4>3. TokenEnd(s, p) \in Nat /\ TokenEnd(s, p) # n
        BY <1>1, <2>1, <4>2
      <4>4. g[TokenEnd(s, p)] = f[TokenEnd(s, p)]
        BY <1>2, <4>3
      <4> QED
        BY <4>4 DEF RestAt
    <3> QED
      BY <3>1, <3>2
  <2>3. CASE p = n
    BY <1>2, <2>2, <2>3 DEF text
  <2>4. CASE p # n
    BY <1>2, <2>1, <2>2, <2>4 DEF RestFrom
  <2> QED
    BY <2>3, <2>4
<1> QED
  BY <1>3 DEF RestFrom

LEMMA SomeRest ==
  ASSUME NEW s \in Seq(Chars), NEW c
  PROVE  \E f : RestFrom(f, s, c, 0)
<1> DEFINE T == {n \in Nat : n <= Len(s) /\ \E f : RestFrom(f, s, c, n)}
<1>1. Len(s) \in Nat
  BY LenProperties
<1>2. Len(s) \in T
  <2> DEFINE f == [p \in Nat |-> << >>]
  <2>1. \A p \in Len(s)..Len(s) : p = Len(s) /\ f[p] = << >>
    BY <1>1
  <2> HIDE DEF f
  <2>2. RestFrom(f, s, c, Len(s))
    BY <2>1 DEF RestFrom, RestAt
  <2> QED
    BY <1>1, <2>2
<1>3. PICK n \in T : \A k \in T : n <= k
  BY <1>2, NatMin
<1>4. n \in Nat /\ n <= Len(s) /\ \E f : RestFrom(f, s, c, n)
  OBVIOUS
<1>5. n = 0
  <2> SUFFICES ASSUME n # 0
               PROVE  FALSE
    OBVIOUS
  <2>1. PICK k \in Nat : k + 1 = n
    <3>1. n - 1 \in Nat /\ (n - 1) + 1 = n
      BY <1>4
    <3> QED
      BY <3>1
  <2>2. PICK f : RestFrom(f, s, c, k + 1)
    BY <1>4, <2>1
  <2>3. k + 1 <= Len(s)
    BY <1>4, <2>1
  <2>4. \E g : RestFrom(g, s, c, k)
    <3> HIDE DEF T
    <3> QED
      BY <2>2, <2>3, OneMoreRest
  <2>5. k \in T /\ ~(n <= k)
    BY <1>1, <2>1, <2>3, <2>4
  <2> QED
    BY <1>3, <2>5
<1> QED
  BY <1>4, <1>5

(* The texts of the rests of a string, and the one of all of it. *)
IsRest(f, s, c) ==
  /\ \A p \in 0..Len(s) : f[p] \in Texts
  /\ \A p \in 0..Len(s) : f[p] = RestAt(f, s, c, p)

LEMMA ExpansionIsRest ==
  ASSUME NEW s \in Seq(Chars), NEW c \in AllCaptures
  PROVE  \E f : IsRest(f, s, c) /\ Expansion(s, c) = f[0]
<1> DEFINE Is(f) == f = [p \in 0..Len(s) |-> RestAt(f, s, c, p)]
<1>1. Len(s) \in Nat /\ 0 \in 0..Len(s)
  BY LenProperties
<1>2. \E f : Is(f)
  <2>1. PICK f : RestFrom(f, s, c, 0)
    BY SomeRest
  <2> DEFINE g == [p \in 0..Len(s) |-> f[p]]
  <2>2. \A p \in 0..Len(s) : g[p] = f[p]
    OBVIOUS
  <2>3. ASSUME NEW p \in 0..Len(s)
        PROVE  f[p] = RestAt(g, s, c, p)
    <3>1. f[p] = RestAt(f, s, c, p)
      BY <2>1 DEF RestFrom
    <3>2. RestAt(g, s, c, p) = RestAt(f, s, c, p)
      <4>1. CASE p = Len(s)
        BY <4>1 DEF RestAt
      <4>2. CASE p # Len(s)
        <5>1. p \in Nat /\ p < Len(s)
          BY <1>1, <4>2
        <5>2. TokenEnd(s, p) \in (p + 1)..Len(s)
          BY <5>1, TokenEndRange
        <5>3. TokenEnd(s, p) \in 0..Len(s)
          BY <1>1, <5>1, <5>2
        <5>4. g[TokenEnd(s, p)] = f[TokenEnd(s, p)]
          BY <2>2, <5>3
        <5> HIDE DEF g
        <5> QED
          BY <5>4 DEF RestAt
      <4> QED
        BY <4>1, <4>2
    <3> QED
      BY <3>1, <3>2
  <2>4. [p \in 0..Len(s) |-> f[p]] = [p \in 0..Len(s) |-> RestAt(g, s, c, p)]
    <3> HIDE DEF g
    <3> QED
      BY <2>3
  <2>5. Is(g)
    BY <2>4
  <2> QED
    BY <2>5
<1>3. PICK f : f = CHOOSE h : Is(h)
  OBVIOUS
<1>4. Expansion(s, c) = f[0]
  <2>1. f = CHOOSE h : h = [p \in 0..Len(s) |->
              IF p = Len(s) THEN << >> ELSE Meaning(c, Token(s, p)) \o h[TokenEnd(s, p)]]
    BY <1>3 DEF RestAt
  <2> QED
    BY <2>1 DEF Expansion
<1>5. Is(f)
  <2> HIDE DEF Is
  <2> QED
    BY <1>2, <1>3
<1>6. \A p \in 0..Len(s) : f[p] = RestAt(f, s, c, p)
  BY <1>5
<1> DEFINE T == {n \in Nat : n <= Len(s) /\ \A p \in n..Len(s) : f[p] \in Texts}
<1>7. Len(s) \in T
  <2>1. Len(s) \in 0..Len(s) /\ \A p \in Len(s)..Len(s) : p = Len(s)
    BY <1>1
  <2>2. f[Len(s)] = << >>
    BY <1>6, <2>1 DEF RestAt
  <2> QED
    BY <1>1, <2>1, <2>2, CharsAreTexts
<1>8. PICK n \in T : \A k \in T : n <= k
  BY <1>7, NatMin
<1>9. n \in Nat /\ n <= Len(s) /\ \A p \in n..Len(s) : f[p] \in Texts
  OBVIOUS
<1>10. n = 0
  <2> SUFFICES ASSUME n # 0
               PROVE  FALSE
    OBVIOUS
  <2>1. PICK k \in Nat : k + 1 = n
    <3>1. n - 1 \in Nat /\ (n - 1) + 1 = n
      BY <1>9
    <3> QED
      BY <3>1
  <2>2. k < Len(s) /\ k \in 0..Len(s) /\ k # Len(s)
    BY <1>1, <1>9, <2>1
  <2>3. TokenEnd(s, k) \in (k + 1)..Len(s)
    BY <2>2, TokenEndRange
  <2>4. f[k] = Meaning(c, Token(s, k)) \o f[TokenEnd(s, k)]
    BY <1>6, <2>2 DEF RestAt
  <2>5. f[TokenEnd(s, k)] \in Texts
    BY <1>9, <2>1, <2>3
  <2>6. Meaning(c, Token(s, k)) \in Texts
    <3>1. Token(s, k) \in Seq(Chars)
      <4>1. PICK m \in 1..(Len(s) + 1) : m = k + 1
        BY <1>1, <2>2
      <4>2. TokenEnd(s, k) \in Nat /\ TokenEnd(s, k) <= Len(s) /\ m <= TokenEnd(s, k) + 1
        BY <1>1, <2>3, <4>1
      <4>3. SubSeq(s, m, TokenEnd(s, k)) \in Seq(Chars)
        BY <4>2, PatternSlice
      <4> QED
        BY <4>1, <4>3 DEF Token
    <3> QED
      BY <3>1, MeaningTyped
  <2>7. f[k] \in Texts
    BY <2>4, <2>5, <2>6, ConcatProperties DEF Texts
  <2>8. \A p \in k..Len(s) : p = k \/ p \in n..Len(s)
    BY <1>1, <1>9, <2>1
  <2>9. k \in T /\ ~(n <= k)
    BY <1>1, <1>9, <2>1, <2>2, <2>7, <2>8
  <2> QED
    BY <1>8, <2>9
<1>11. \A p \in 0..Len(s) : f[p] \in Texts
  BY <1>9, <1>10
<1> QED
  BY <1>4, <1>6, <1>11 DEF IsRest

LEMMA TextsAssociative ==
  ASSUME NEW a \in Texts, NEW b \in Texts, NEW d \in Texts
  PROVE  (a \o b) \o d = a \o (b \o d)
BY ConcatAssociative DEF Texts

(* The token of one character, and what it adds to the rest. *)
LEMMA OneCharRest ==
  ASSUME NEW s \in Seq(Chars), NEW c \in AllCaptures, NEW f, IsRest(f, s, c),
         NEW p \in Nat, p < Len(s), TokenEnd(s, p) = p + 1
  PROVE  f[p] = <<s[p + 1]>> \o f[p + 1]
<1>1. Len(s) \in Nat /\ p \in 0..Len(s) /\ p # Len(s) /\ p + 1 \in 1..Len(s)
  BY LenProperties
<1>2. f[p] = Meaning(c, Token(s, p)) \o f[p + 1]
  BY <1>1 DEF IsRest, RestAt
<1>3. Token(s, p) = <<s[p + 1]>>
  BY <1>1, OneChar DEF Token
<1>4. Meaning(c, <<s[p + 1]>>) = <<s[p + 1]>>
  BY DEF Meaning
<1> QED
  BY <1>2, <1>3, <1>4

PlainTokens(s, begin, end) == \A p \in begin..(end - 1) : TokenEnd(s, p) = p + 1

(* A literal that stands for plain characters is what they add to the rest. *)
LEMMA RunRest ==
  ASSUME NEW s \in Seq(Chars), NEW c \in AllCaptures, NEW f, IsRest(f, s, c),
         NEW begin \in Nat, NEW end \in Nat, begin <= end, end <= Len(s),
         PlainTokens(s, begin, end)
  PROVE  SubSeq(s, begin + 1, end) \o f[end] = f[begin]
<1> DEFINE T == {n \in Nat : /\ begin <= n /\ n <= end
                             /\ SubSeq(s, n + 1, end) \o f[end] = f[n]}
<1>1. Len(s) \in Nat
  BY LenProperties
<1>2. f[end] \in Texts
  BY <1>1 DEF IsRest
<1>3. end \in T
  <2>1. SubSeq(s, end + 1, end) = << >>
    BY SubSeqEmpty
  <2> QED
    BY <1>2, <2>1, ConcatEmptySeq DEF Texts
<1>4. PICK n \in T : \A k \in T : n <= k
  BY <1>3, NatMin
<1>5. n \in Nat /\ begin <= n /\ n <= end /\ SubSeq(s, n + 1, end) \o f[end] = f[n]
  OBVIOUS
<1>6. n = begin
  <2> SUFFICES ASSUME n # begin
               PROVE  FALSE
    OBVIOUS
  <2>1. PICK k \in Nat : k + 1 = n
    <3>1. n - 1 \in Nat /\ (n - 1) + 1 = n
      BY <1>5
    <3> QED
      BY <3>1
  <2>2. k \in begin..(end - 1) /\ k < Len(s) /\ n \in 1..Len(s) /\ end \in n..Len(s)
    BY <1>1, <1>5, <2>1
  <2>3. f[k] = <<s[n]>> \o f[n]
    <3>1. TokenEnd(s, k) = k + 1
      BY <2>2 DEF PlainTokens
    <3> QED
      BY <2>1, <2>2, <3>1, OneCharRest
  <2>4. SubSeq(s, n, end) = <<s[n]>> \o SubSeq(s, n + 1, end)
    BY <2>2, SubSeqRecursiveFirst
  <2>5. SubSeq(s, n + 1, end) \in Texts /\ <<s[n]>> \in Texts
    <3>1. n + 1 \in 1..(Len(s) + 1) /\ n + 1 <= end + 1
      BY <1>1, <2>2
    <3>2. SubSeq(s, n + 1, end) \in Seq(Chars)
      BY <3>1, PatternSlice
    <3>3. <<s[n]>> \in Seq(Chars)
      BY <2>2, ElementOfSeq
    <3> QED
      BY <3>2, <3>3, CharsAreTexts
  <2>6. SubSeq(s, n, end) \o f[end] = <<s[n]>> \o (SubSeq(s, n + 1, end) \o f[end])
    <3> DEFINE head == <<s[n]>>
               tail == SubSeq(s, n + 1, end)
    <3>1. head \in Texts /\ tail \in Texts /\ f[end] \in Texts
      BY <1>2, <2>5
    <3> HIDE DEF head, tail
    <3>2. (head \o tail) \o f[end] = head \o (tail \o f[end])
      BY <3>1, TextsAssociative
    <3> QED
      BY <2>4, <3>2 DEF head, tail
  <2>7. SubSeq(s, k + 1, end) \o f[end] = f[k]
    BY <1>5, <2>1, <2>3, <2>6
  <2>8. k \in T /\ ~(n <= k)
    BY <1>5, <2>1, <2>2, <2>7
  <2> QED
    BY <1>4, <2>8
<1> QED
  BY <1>5, <1>6

(* So is the text of any part that the tokens it stands for explain. *)
LEMMA PieceRest ==
  ASSUME NEW s \in Seq(Chars), NEW c \in AllCaptures, NEW f, IsRest(f, s, c),
         NEW begin \in Nat, NEW end \in Nat, begin < end, end <= Len(s),
         NEW part, Explained(s, part, begin, end)
  PROVE  /\ PartText(part, RealMatch(c)) \in Texts
         /\ PartText(part, RealMatch(c)) \o f[end] = f[begin]
<1>1. Len(s) \in Nat
  BY LenProperties
<1>2. SubSeq(s, begin + 1, end) \in Seq(Chars)
  <2>1. begin + 1 \in 1..(Len(s) + 1) /\ begin + 1 <= end + 1
    BY <1>1
  <2> QED
    BY <2>1, PatternSlice
<1>3. CASE LiteralRun(s, part, begin, end)
  <2>1. PartText(part, RealMatch(c)) = SubSeq(s, begin + 1, end)
    BY <1>3, LiteralText DEF LiteralRun
  <2>2. PlainTokens(s, begin, end)
    BY <1>3 DEF LiteralRun, PlainTokens
  <2>3. SubSeq(s, begin + 1, end) \o f[end] = f[begin]
    <3>1. begin <= end
      OBVIOUS
    <3> QED
      BY <2>2, <3>1, RunRest, ZenonT(120)
  <2> QED
    BY <1>2, <2>1, <2>3, CharsAreTexts
<1>4. CASE Placeholder(s, part, begin, end)
  <2>1. /\ TokenEnd(s, begin) = end
        /\ PartText(part, RealMatch(c)) = Meaning(c, SubSeq(s, begin + 1, end))
    BY <1>4 DEF Placeholder
  <2>2. begin \in 0..Len(s) /\ begin # Len(s)
    BY <1>1
  <2>3. f[begin] = Meaning(c, SubSeq(s, begin + 1, end)) \o f[end]
    BY <2>1, <2>2 DEF IsRest, RestAt, Token
  <2> QED
    BY <1>2, <2>1, <2>3, MeaningTyped
<1> QED
  BY <1>3, <1>4 DEF Explained

-----------------------------------------------------------------------------
(* The text that the parts append, one after the other.                    *)

JoinAt(t, ps, c, k) ==
  IF k = 0 THEN << >> ELSE t[k - 1] \o PartText(ps[k], RealMatch(c))

JoinUpTo(t, ps, c, n) == \A k \in 0..n : t[k] = JoinAt(t, ps, c, k)

LEMMA OneMoreJoin ==
  ASSUME NEW ps, NEW c, NEW n \in Nat, NEW t, JoinUpTo(t, ps, c, n)
  PROVE  \E u : JoinUpTo(u, ps, c, n + 1)
<1> DEFINE text == t[n] \o PartText(ps[n + 1], RealMatch(c))
           u == [k \in Nat |-> IF k = n + 1 THEN text ELSE t[k]]
<1> HIDE DEF text
<1>1. u[n + 1] = text /\ \A k \in Nat : k # n + 1 => u[k] = t[k]
  OBVIOUS
<1> HIDE DEF u
<1>2. ASSUME NEW k \in 0..(n + 1)
      PROVE  u[k] = JoinAt(u, ps, c, k)
  <2>1. CASE k = n + 1
    <3>1. k # 0 /\ k - 1 = n /\ n # n + 1
      BY <2>1
    <3>2. u[n] = t[n]
      BY <1>1, <3>1
    <3>3. JoinAt(u, ps, c, k) = u[n] \o PartText(ps[n + 1], RealMatch(c))
      BY <2>1, <3>1 DEF JoinAt
    <3> QED
      BY <1>1, <2>1, <3>2, <3>3 DEF text
  <2>2. CASE k # n + 1
    <3>1. k \in 0..n /\ u[k] = t[k]
      BY <1>1, <2>2
    <3>2. t[k] = JoinAt(t, ps, c, k)
      BY <3>1 DEF JoinUpTo
    <3>3. k # 0 => k - 1 \in Nat /\ k - 1 # n + 1
      BY <3>1
    <3>4. k # 0 => u[k - 1] = t[k - 1]
      BY <1>1, <3>3
    <3> QED
      BY <3>1, <3>2, <3>4 DEF JoinAt
  <2> QED
    BY <2>1, <2>2
<1> QED
  BY <1>2 DEF JoinUpTo

LEMMA SomeJoin ==
  ASSUME NEW ps, NEW c, NEW n \in Nat
  PROVE  \E t : JoinUpTo(t, ps, c, n)
<1> DEFINE T == {m \in Nat : ~ \E t : JoinUpTo(t, ps, c, m)}
<1>1. T = {}
  <2> SUFFICES ASSUME T # {}
               PROVE  FALSE
    OBVIOUS
  <2>1. PICK m \in T : \A k \in T : m <= k
    BY NatMin
  <2>2. m \in Nat /\ ~ \E t : JoinUpTo(t, ps, c, m)
    OBVIOUS
  <2>3. m # 0
    <3> DEFINE t == [k \in Nat |-> << >>]
    <3>1. \A k \in 0..0 : k = 0 /\ t[k] = << >>
      OBVIOUS
    <3> HIDE DEF t
    <3>2. JoinUpTo(t, ps, c, 0)
      BY <3>1 DEF JoinUpTo, JoinAt
    <3> QED
      BY <2>2, <3>2
  <2>4. PICK k \in Nat : k + 1 = m
    <3>1. m - 1 \in Nat /\ (m - 1) + 1 = m
      BY <2>2, <2>3
    <3> QED
      BY <3>1
  <2>5. k \notin T
    BY <2>1, <2>4
  <2>6. PICK t : JoinUpTo(t, ps, c, k)
    BY <2>5
  <2>7. \E u : JoinUpTo(u, ps, c, k + 1)
    <3> HIDE DEF T
    <3> QED
      BY <2>6, OneMoreJoin
  <2> QED
    BY <2>2, <2>4, <2>7
<1> QED
  BY <1>1

(* The text that replaces the match is the last of the joined texts. *)
LEMMA AppendedIsJoin ==
  ASSUME Inv, NEW c \in AllCaptures, AppendParts(c)
  PROVE  \E t : JoinUpTo(t, parts, c, Len(parts)) /\ sb' = t[Len(parts)]
<1> DEFINE Is(t) == t = [k \in 0..Len(parts) |-> JoinAt(t, parts, c, k)]
<1>1. Len(parts) \in Nat
  BY LenProperties DEF Inv, TypeOK
<1>2. \E t : Is(t)
  <2>1. PICK t : JoinUpTo(t, parts, c, Len(parts))
    BY <1>1, SomeJoin
  <2> DEFINE u == [k \in 0..Len(parts) |-> t[k]]
  <2>2. \A k \in 0..Len(parts) : u[k] = t[k]
    OBVIOUS
  <2>3. ASSUME NEW k \in 0..Len(parts)
        PROVE  t[k] = JoinAt(u, parts, c, k)
    <3>1. t[k] = JoinAt(t, parts, c, k)
      BY <2>1 DEF JoinUpTo
    <3>2. k # 0 => k - 1 \in 0..Len(parts)
      BY <1>1
    <3> HIDE DEF u
    <3>3. k # 0 => u[k - 1] = t[k - 1]
      BY <2>2, <3>2
    <3> QED
      BY <3>1, <3>3 DEF JoinAt
  <2>4. [k \in 0..Len(parts) |-> t[k]] = [k \in 0..Len(parts) |-> JoinAt(u, parts, c, k)]
    <3> HIDE DEF u
    <3> QED
      BY <2>3
  <2>5. Is(u)
    BY <2>4
  <2> QED
    BY <2>5
<1>3. PICK t : t = CHOOSE u : Is(u)
  OBVIOUS
<1>4. sb' = t[Len(parts)]
  <2>1. t = CHOOSE u : u = [k \in 0..Len(parts) |->
              IF k = 0 THEN << >> ELSE u[k - 1] \o PartText(parts[k], RealMatch(c))]
    BY <1>3 DEF JoinAt
  <2> QED
    BY <2>1 DEF AppendParts
<1>5. Is(t)
  <2> HIDE DEF Is
  <2> QED
    BY <1>2, <1>3
<1>6. JoinUpTo(t, parts, c, Len(parts))
  BY <1>5 DEF JoinUpTo
<1> QED
  BY <1>4, <1>6

Done(k) == IF k = 0 THEN 0 ELSE ends[k]

JoinedTo(t, f, k) == t[k] \in Texts /\ t[k] \o f[Done(k)] = f[0]

LEMMA OneMorePiece ==
  ASSUME Inv, Meanings, NEW c \in AllCaptures, NEW f, IsRest(f, pattern, c),
         NEW t, JoinUpTo(t, parts, c, Len(parts)),
         NEW k \in Nat, k < Len(parts), JoinedTo(t, f, k)
  PROVE  JoinedTo(t, f, k + 1)
<1>1. /\ pattern \in Seq(Chars) /\ Len(pattern) \in Nat /\ Len(parts) \in Nat
      /\ ends \in Seq(0..Len(pattern)) /\ Len(ends) = Len(parts)
  BY Bounds, LenProperties DEF Inv, TypeOK, Tiles
<1>2. PICK n \in 1..Len(parts) : n = k + 1
  BY <1>1
<1>3. PICK begin \in Nat : begin = Done(k) /\ begin = Begin(n)
  <2>1. k # 0 => k \in 1..Len(ends)
    BY <1>1
  <2>2. Done(k) \in Nat
    BY <1>1, <2>1, ElementOfSeq DEF Done
  <2>3. Done(k) = Begin(n)
    <3>1. n - 1 = k /\ (n = 1 <=> k = 0)
      BY <1>1, <1>2
    <3> QED
      BY <3>1 DEF Done, Begin
  <2> QED
    BY <2>2, <2>3
<1>4. PICK end \in Nat : end = ends[n] /\ begin < end /\ end <= Len(pattern)
  <2>1. ends[n] \in 0..Len(pattern)
    BY <1>1, <1>2, ElementOfSeq
  <2>2. begin < ends[n]
    BY <1>3 DEF Inv, Tiles
  <2> QED
    BY <1>1, <2>1, <2>2
<1>5. PICK part : part = parts[n] /\ Explained(pattern, part, begin, end)
  BY <1>3, <1>4 DEF Meanings
<1>6. PICK text : text = PartText(part, RealMatch(c))
  OBVIOUS
<1>7. text \in Texts /\ text \o f[end] = f[begin]
  <2>1. PICK s \in Seq(Chars) : s = pattern
    BY <1>1
  <2>2. IsRest(f, s, c) /\ Explained(s, part, begin, end) /\ begin < end /\ end <= Len(s)
    BY <1>4, <1>5, <2>1
  <2>3. /\ PartText(part, RealMatch(c)) \in Texts
        /\ PartText(part, RealMatch(c)) \o f[end] = f[begin]
    BY <2>2, PieceRest
  <2> QED
    BY <1>6, <2>3
<1>8. t[n] = t[k] \o text
  <2>1. n \in 0..Len(parts) /\ n # 0 /\ n - 1 = k
    BY <1>1, <1>2
  <2>2. t[n] = JoinAt(t, parts, c, n)
    BY <2>1 DEF JoinUpTo
  <2> QED
    BY <1>5, <1>6, <2>1, <2>2 DEF JoinAt
<1>9. t[k] \in Texts /\ t[k] \o f[begin] = f[0]
  BY <1>3 DEF JoinedTo
<1>10. f[end] \in Texts
  <2>1. end \in 0..Len(pattern)
    BY <1>1, <1>4
  <2> QED
    BY <2>1 DEF IsRest
<1>11. (t[k] \o text) \o f[end] = t[k] \o (text \o f[end])
  BY <1>7, <1>9, <1>10, TextsAssociative
<1>12. t[n] \in Texts
  BY <1>7, <1>8, <1>9, ConcatProperties DEF Texts
<1>13. Done(n) = end
  BY <1>1, <1>2, <1>4 DEF Done
<1>14. t[n] \o f[end] = f[0]
  BY <1>7, <1>8, <1>9, <1>11
<1>15. JoinedTo(t, f, n)
  BY <1>12, <1>13, <1>14 DEF JoinedTo
<1> QED
  BY <1>2, <1>15

LEMMA AllPieces ==
  ASSUME Inv, Meanings, NEW c \in AllCaptures, NEW f, IsRest(f, pattern, c),
         NEW t, JoinUpTo(t, parts, c, Len(parts))
  PROVE  JoinedTo(t, f, Len(parts))
<1> DEFINE T == {n \in Nat : n <= Len(parts) /\ ~JoinedTo(t, f, n)}
<1>1. Len(parts) \in Nat /\ Len(pattern) \in Nat
  BY Bounds, LenProperties DEF Inv, TypeOK
<1>2. T = {}
  <2> SUFFICES ASSUME T # {}
               PROVE  FALSE
    OBVIOUS
  <2>1. PICK n \in T : \A k \in T : n <= k
    BY NatMin
  <2>2. n \in Nat /\ n <= Len(parts) /\ ~JoinedTo(t, f, n)
    OBVIOUS
  <2>3. n # 0
    <3>1. t[0] = << >>
      <4>1. 0 \in 0..Len(parts)
        BY <1>1
      <4> QED
        BY <4>1 DEF JoinUpTo, JoinAt
    <3>2. f[0] \in Texts
      BY <1>1 DEF IsRest
    <3>3. << >> \o f[0] = f[0]
      BY <3>2, ConcatEmptySeq DEF Texts
    <3>4. JoinedTo(t, f, 0)
      BY <3>1, <3>3, CharsAreTexts DEF JoinedTo, Done
    <3> QED
      BY <2>2, <3>4
  <2>4. PICK k \in Nat : k + 1 = n
    <3>1. n - 1 \in Nat /\ (n - 1) + 1 = n
      BY <2>2, <2>3
    <3> QED
      BY <3>1
  <2>5. k < Len(parts) /\ JoinedTo(t, f, k)
    BY <1>1, <2>1, <2>2, <2>4
  <2>6. JoinedTo(t, f, k + 1)
    <3> HIDE DEF T
    <3> QED
      BY <2>5, OneMorePiece
  <2> QED
    BY <2>2, <2>4, <2>6
<1> QED
  BY <1>1, <1>2

(* The text that replaces a match is the expansion of the string. *)
LEMMA AppendedIsExpansion ==
  ASSUME Inv, Meanings, NEW c \in AllCaptures, AppendParts(c)
  PROVE  sb' = Expansion(pattern, c)
<1>1. /\ pattern \in Seq(Chars) /\ Len(pattern) \in Nat
      /\ parts \in Seq(Parts) /\ Len(parts) \in Nat /\ Len(ends) = Len(parts)
      /\ Covered = Len(pattern)
  BY Bounds, LenProperties DEF Inv, TypeOK, Tiles, Position, AppendParts
<1>2. PICK f : IsRest(f, pattern, c) /\ Expansion(pattern, c) = f[0]
  BY <1>1, ExpansionIsRest
<1>3. PICK t : JoinUpTo(t, parts, c, Len(parts)) /\ sb' = t[Len(parts)]
  BY AppendedIsJoin
<1>4. JoinedTo(t, f, Len(parts))
  BY <1>2, <1>3, AllPieces
<1>5. Done(Len(parts)) = Len(pattern)
  <2>1. ends \in Seq(0..Len(pattern))
    BY DEF Inv, TypeOK
  <2>2. ends = << >> <=> Len(ends) = 0
    BY <2>1, EmptySeq
  <2> QED
    BY <1>1, <2>2 DEF Done, Covered
<1>6. f[Len(pattern)] = << >>
  <2>1. Len(pattern) \in 0..Len(pattern)
    BY <1>1
  <2> QED
    BY <1>2, <2>1 DEF IsRest, RestAt
<1>7. t[Len(parts)] \in Texts /\ t[Len(parts)] \o << >> = f[0]
  BY <1>4, <1>5, <1>6 DEF JoinedTo
<1>8. t[Len(parts)] \o << >> = t[Len(parts)]
  BY <1>7, ConcatEmptySeq DEF Texts
<1> QED
  BY <1>2, <1>3, <1>7, <1>8

(* For every replacement string and everything the match may have captured *)
(* the text that replaces the match is what the documented placeholders    *)
(* stand for.                                                              *)
THEOREM ReplacementAgreesWithGrammar == Spec => []AgreesWithGrammar
<1>1. Init => AgreesWithGrammar
  BY DEF Init, AgreesWithGrammar
<1>2. Inv /\ Scanned /\ Meanings /\ AgreesWithGrammar /\ [Next]_vars => AgreesWithGrammar'
  <2> SUFFICES ASSUME Inv, Meanings, AgreesWithGrammar, [Next]_vars PROVE AgreesWithGrammar'
    OBVIOUS
  <2>1. ASSUME NEW c \in AllCaptures, AppendParts(c) PROVE AgreesWithGrammar'
    <3>1. pattern' = pattern /\ captures' = c
      BY <2>1 DEF AppendParts
    <3>2. sb' = Expansion(pattern, c)
      BY <2>1, AppendedIsExpansion
    <3> QED
      BY <3>1, <3>2 DEF AgreesWithGrammar
  <2>2. CASE Start \/ Top \/ Text \/ AfterDollar \/ Brace \/ DigitRun \/ UNCHANGED vars
    <3>1. UNCHANGED <<pattern, captures, sb>>
      BY <2>2 DEF Start, Top, Text, AfterDollar, Brace, DigitRun, vars
    <3> QED
      BY <3>1 DEF AgreesWithGrammar
  <2> QED
    BY <2>1, <2>2 DEF Next
<1> QED
  BY <1>1, <1>2, Invariant, MeaningsInvariant, PTL DEF Spec
=============================================================================
