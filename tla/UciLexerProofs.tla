--------------------------- MODULE UciLexerProofs ---------------------------
(***************************************************************************)
(* Theorems about yylex for texts of any length.                           *)
(***************************************************************************)
EXTENDS UciLexer, UciTextProofs

\* The lexer has a text, is inside it or behind its end, and has returned tokens.
LexerInv ==
    /\ text \in Seq(Symbols)
    /\ at \in 1 .. Len(text) + 2
    /\ start \in StartConditions
    /\ out \in Seq(TextTokens)
    /\ AtEnd => out # <<>> /\ Last(out) = Bare("EOF")

LEMMA LexerInvInit == ASSUME LexerInit PROVE LexerInv
<1>1. text \in Seq(Symbols)
  <2>1. CASE text \in Texts
    BY <2>1, LexerAssumption
  <2>2. CASE document \in Documents /\ text = Render(document)
    <3>1. document \in TextDocuments
      BY <2>2, LexerAssumption
    <3>2. QED
      BY <2>2, <3>1, RenderIsText
  <2>3. QED
    BY <2>1, <2>2 DEF LexerInit
<1>2. Len(text) \in Nat
  BY <1>1, LenProperties
<1>3. at = 1 /\ start = "INITIAL" /\ out = <<>>
  BY DEF LexerInit
<1>4. QED
  BY <1>1, <1>2, <1>3 DEF LexerInv, AtEnd, StartConditions

LEMMA LexerInvNext == ASSUME LexerInv, [LexerNext]_lexerVars PROVE LexerInv'
<1>1. text \in Seq(Symbols) /\ Len(text) \in Nat /\ out \in Seq(TextTokens)
  BY LenProperties DEF LexerInv
<1>2. CASE Match
  <2> DEFINE s == Scan(text, at, start)
  <2>1. /\ at \in 1 .. Len(text) /\ start \in StartConditions
        /\ at' = at + s.length /\ start' = s.start /\ out' = out \o s.token /\ text' = text
    BY <1>1, <1>2 DEF Match, LexerInv
  <2>2. s.length \in 1 .. Len(text) + 1 - at
    BY <1>1, <2>1, ScanAdvances
  <2>3. s.token \in Seq(TextTokens) /\ s.start \in StartConditions
    BY <1>1, <2>1, ScanIsTyped
  <2> HIDE DEF s
  <2>4. at' \in 1 .. Len(text) + 1
    BY <1>1, <2>1, <2>2
  <2>5. out' \in Seq(TextTokens)
    BY <1>1, <2>1, <2>3, ConcatProperties
  <2>6. ~AtEnd'
    BY <1>1, <2>1, <2>4 DEF AtEnd
  <2>7. at' \in 1 .. Len(text') + 2
    BY <1>1, <2>1, <2>4
  <2>8. QED
    BY <1>1, <2>1, <2>3, <2>5, <2>6, <2>7 DEF LexerInv
<1>3. CASE EndOfFile
  <2>1. /\ at = Len(text) + 1 /\ at' = at + 1 /\ out' = Append(out, Bare("EOF"))
        /\ UNCHANGED <<text, start>>
    BY <1>3 DEF EndOfFile
  <2>2. Bare("EOF") \in TextTokens
    BY DEF Bare, Token, TextTokens, TokenKinds, Keywords
  <2>3. out' \in Seq(TextTokens) /\ out' # <<>> /\ Last(out') = Bare("EOF")
    BY <1>1, <2>1, <2>2, AppendProperties DEF Last
  <2>4. at' \in 1 .. Len(text') + 2
    BY <1>1, <2>1
  <2>5. QED
    BY <1>1, <2>1, <2>3, <2>4 DEF LexerInv
<1>4. CASE UNCHANGED lexerVars
  BY <1>4 DEF LexerInv, lexerVars, AtEnd
<1>5. QED
  BY <1>2, <1>3, <1>4 DEF LexerNext

\* The lexer never leaves the scanned string and returns tokens only, whatever the text.
THEOREM LexerIsTyped == LexerSpec => []LexerTypeOK
<1>1. LexerInv => LexerTypeOK
  <2>1. ASSUME LexerInv, NEW k \in DOMAIN out
        PROVE  /\ out[k].kind \in TokenKinds
               /\ out[k].kind # "VALUE" => out[k].text = NoString
               /\ out[k].kind = "VALUE" => \A i \in DOMAIN out[k].text : out[k].text[i] \in Symbols
    <3>1. out[k] \in TextTokens
      BY <2>1, LenProperties, ElementOfSeq DEF LexerInv
    <3>2. CASE out[k] \in [kind : TokenKinds \ {"VALUE"}, text : {NoString}]
      BY <3>2
    <3>3. CASE out[k] \in [kind : {"VALUE"}, text : Seq(Symbols)]
      <4>1. out[k].kind = "VALUE" /\ out[k].text \in Seq(Symbols)
        BY <3>3
      <4>2. \A i \in DOMAIN out[k].text : out[k].text[i] \in Symbols
        BY <4>1, LenProperties, ElementOfSeq
      <4>3. QED
        BY <4>1, <4>2 DEF TokenKinds
    <3>4. QED
      BY <3>1, <3>2, <3>3 DEF TextTokens
  <2>2. QED
    BY <2>1 DEF LexerInv, LexerTypeOK
<1>2. QED
  BY <1>1, LexerInvInit, LexerInvNext, PTL DEF LexerSpec

\* One of the rules of the lexer matches nothing at all.  It is never the one that is
\* picked, so that yylex does not turn in its loop forever, whatever the text.
THEOREM LexerAdvances == LexerSpec => []EveryMatchAdvances
<1>1. LexerInv => EveryMatchAdvances
  <2>1. ASSUME LexerInv, at <= Len(text) PROVE Scan(text, at, start).length > 0
    <3>1. at \in 1 .. Len(text)
      BY <2>1, LenProperties DEF LexerInv
    <3>2. Scan(text, at, start).length \in 1 .. Len(text) + 1 - at
      BY <2>1, <3>1, ScanAdvances DEF LexerInv
    <3>3. QED
      BY <3>2
  <2>2. QED
    BY <2>1 DEF EveryMatchAdvances
<1>2. QED
  BY <1>1, LexerInvInit, LexerInvNext, PTL DEF LexerSpec

=============================================================================
