--------------------------- MODULE ReplacementGrammar ---------------------------
(***************************************************************************)
(* What a replacement string stands for, without the scanner: a string is  *)
(* a sequence of tokens, each of them a character or a placeholder, and a  *)
(* token has a meaning for what the match has captured.                    *)
(***************************************************************************)
EXTENDS ReplacementPattern

NotBrace == Chars \ {"}"}

(* The end of the run of characters in chars that begins at p. *)
RunEnd(s, p, chars) ==
  CHOOSE q \in p..Len(s) :
    (\A i \in (p + 1)..q : s[i] \in chars) /\ (q < Len(s) => s[q + 1] \notin chars)

Singles == {"$", "&", "quote", "backquote", "_", "+"}

(* The end of the token that begins at p.  A brace that is never closed    *)
(* takes the rest of the string; one without a name is a character.        *)
TokenEnd(s, p) ==
  IF s[p + 1] # "$" \/ p + 1 = Len(s) THEN p + 1
  ELSE LET next == s[p + 2]
           close == RunEnd(s, p + 2, NotBrace) IN
       IF next \in Singles THEN p + 2
       ELSE IF next \in Digits THEN RunEnd(s, p + 1, Digits)
       ELSE IF next = "{" /\ close = Len(s) THEN close
       ELSE IF next = "{" /\ close > p + 2 THEN close + 1
       ELSE p + 1

Token(s, p) == SubSeq(s, p + 1, TokenEnd(s, p))

Value(c, i) == IF i \in Captured(c) THEN SubSeq(Subject, c[i][1] + 1, c[i][2]) ELSE << >>

(* The value of the group that a placeholder refers to, or the placeholder. *)
Numbered(c, number, placeholder) ==
  IF IsNumeral(number) /\ Decimal(number) \in Groups THEN Value(c, Decimal(number))
  ELSE placeholder

Named(c, name, placeholder) ==
  IF name \notin DOMAIN CaptureNames THEN Numbered(c, name, placeholder)
  ELSE LET indexes == CaptureNames[name]
           first == {k \in 1..Len(indexes) :
                       /\ indexes[k] \in Captured(c)
                       /\ \A j \in 1..(k - 1) : indexes[j] \notin Captured(c)} IN
       IF first = {} THEN << >> ELSE Value(c, indexes[CHOOSE k \in first : TRUE])

HighestSet(c) == {i \in Captured(c) \ {0} : \A j \in Captured(c) : j <= i}

SingleMeaning(c, char) ==
  CASE char = "$" -> <<"$">>
    [] char = "&" -> Value(c, 0)
    [] char = "backquote" -> SubSeq(Subject, 1, c[0][1])
    [] char = "quote" -> SubSeq(Subject, c[0][2] + 1, Len(Subject))
    [] char = "_" -> Subject
    [] char = "+" -> IF HighestSet(c) = {} THEN << >>
                     ELSE Value(c, CHOOSE i \in HighestSet(c) : TRUE)

Meaning(c, token) ==
  LET n == Len(token) IN
  IF n = 1 THEN token
  ELSE IF token[2] \in Singles THEN SingleMeaning(c, token[2])
  ELSE IF token[2] \in Digits THEN Numbered(c, SubSeq(token, 2, n), token)
  ELSE IF token[n] = "}" THEN Named(c, SubSeq(token, 3, n - 1), token)
  ELSE token

Expansion(s, c) ==
  LET Rest[p \in 0..Len(s)] ==
        IF p = Len(s) THEN << >> ELSE Meaning(c, Token(s, p)) \o Rest[TokenEnd(s, p)]
  IN Rest[0]

(* The text that replaces a match is what the documented placeholders      *)
(* (PcreRegex.xml, "replacementString") stand for in it; anything else,    *)
(* with what follows a brace that is never closed, stands for itself.      *)
AgreesWithGrammar == captures # << >> => sb = Expansion(pattern, captures)
=============================================================================
