---------------------------- MODULE UciTextProofs ----------------------------
(***************************************************************************)
(* What uci2_ast_sync writes is a text, and the lexer takes at least one    *)
(* symbol of every text at a time and never more than there are.           *)
(***************************************************************************)
EXTENDS UciText, UciAstProofs

\* The symbols of the format that lines are put together from.
LEMMA FormatSymbols ==
    {"tab", "space", "newline", "config", "option", "list", "'"} \subseteq Symbols
BY DEF Symbols, KeywordTexts, Blanks, Quotes

LEMMA ConcatIsText ==
    ASSUME NEW s \in Seq(Symbols), NEW t \in Seq(Symbols)
    PROVE  s \o t \in Seq(Symbols)
BY ConcatProperties

LEMMA LineIsText ==
    ASSUME NEW line \in TextLines
    PROVE  RenderLine(line) \in Seq(Symbols)
<1> DEFINE value == IF line.value = NoString THEN <<>> ELSE <<"space">> \o Quoted(line.value)
<1>1. line.name \in Seq(Symbols) /\ line.value \in Seq(Symbols) \cup {NoString}
      /\ line.kind \in {"option", "list"}
  BY DEF TextLines
<1>2. /\ <<"tab", line.kind, "space">> \in Seq(Symbols)
      /\ <<"newline">> \in Seq(Symbols) /\ <<"space">> \in Seq(Symbols)
      /\ <<"'">> \in Seq(Symbols) /\ <<>> \in Seq(Symbols)
  BY <1>1, FormatSymbols
<1>3. value \in Seq(Symbols)
  <2>1. CASE line.value = NoString
    BY <1>2, <2>1
  <2>2. CASE line.value \in Seq(Symbols) /\ line.value # NoString
    <3>1. <<"'">> \o line.value \in Seq(Symbols)
      BY <1>2, <2>2, ConcatIsText
    <3>2. Quoted(line.value) \in Seq(Symbols)
      BY <1>2, <3>1, ConcatIsText DEF Quoted
    <3>3. QED
      BY <1>2, <2>2, <3>2, ConcatIsText
  <2>3. QED
    BY <1>1, <2>1, <2>2
<1>4. RenderLine(line) = <<"tab", line.kind, "space">> \o line.name \o value \o <<"newline">>
  BY DEF RenderLine
<1> HIDE DEF value
<1>5. <<"tab", line.kind, "space">> \o line.name \in Seq(Symbols)
  BY <1>1, <1>2, ConcatIsText
<1>6. <<"tab", line.kind, "space">> \o line.name \o value \in Seq(Symbols)
  BY <1>3, <1>5, ConcatIsText
<1>7. QED
  BY <1>2, <1>4, <1>6, ConcatIsText

\* What is written part by part is a text when each part is.
LEMMA PartsAreText ==
    ASSUME NEW parts, NEW n \in Nat, parts = [k \in 1 .. n |-> parts[k]],
           \A k \in 1 .. n : parts[k] \in Seq(Symbols)
    PROVE  FlattenSeq(parts) \in Seq(Symbols)
<1>1. parts \in Seq(Seq(Symbols))
  OBVIOUS
<1>2. QED
  BY <1>1, FlattenFacts

LEMMA SectionIsText ==
    ASSUME NEW section, section.type \in Seq(Symbols),
           section.name \in Seq(Symbols) \cup {NoString}, section.lines \in Seq(TextLines)
    PROVE  RenderSection(section) \in Seq(Symbols) /\ RenderSection(section) # <<>>
<1> DEFINE name == IF NameWritten(section.name) THEN <<"space">> \o Quoted(section.name) ELSE <<>>
<1> DEFINE parts == [k \in DOMAIN section.lines |-> RenderLine(section.lines[k])]
<1> DEFINE lines == FlattenSeq(parts)
<1>1. /\ <<"config", "space">> \in Seq(Symbols) /\ <<"newline">> \in Seq(Symbols)
      /\ <<"space">> \in Seq(Symbols) /\ <<"'">> \in Seq(Symbols) /\ <<>> \in Seq(Symbols)
  BY FormatSymbols
<1>2. name \in Seq(Symbols)
  <2>1. CASE ~NameWritten(section.name)
    BY <1>1, <2>1
  <2>2. CASE NameWritten(section.name)
    <3>1. section.name \in Seq(Symbols)
      BY <2>2 DEF NameWritten
    <3>2. <<"'">> \o section.name \in Seq(Symbols)
      BY <1>1, <3>1, ConcatIsText
    <3>3. Quoted(section.name) \in Seq(Symbols)
      BY <1>1, <3>2, ConcatIsText DEF Quoted
    <3>4. QED
      BY <1>1, <2>2, <3>3, ConcatIsText
  <2>3. QED
    BY <2>1, <2>2
<1>3. lines \in Seq(Symbols)
  <2>1. Len(section.lines) \in Nat /\ DOMAIN section.lines = 1 .. Len(section.lines)
        /\ \A k \in 1 .. Len(section.lines) : section.lines[k] \in TextLines
    BY LenProperties, ElementOfSeq
  <2>2. \A k \in 1 .. Len(section.lines) : parts[k] \in Seq(Symbols)
    BY <2>1, LineIsText
  <2>3. parts = [k \in 1 .. Len(section.lines) |-> parts[k]]
    BY <2>1
  <2> HIDE DEF parts
  <2>4. QED
    BY <2>1, <2>2, <2>3, PartsAreText
<1>4. RenderSection(section) = <<"config", "space">> \o section.type \o name \o <<"newline">>
                                   \o lines \o <<"newline">>
  BY DEF RenderSection, SeqMap
<1> HIDE DEF name, lines
<1>5. <<"config", "space">> \o section.type \in Seq(Symbols)
  BY <1>1, ConcatIsText
<1>6. <<"config", "space">> \o section.type \o name \in Seq(Symbols)
  BY <1>2, <1>5, ConcatIsText
<1>7. <<"config", "space">> \o section.type \o name \o <<"newline">> \in Seq(Symbols)
  BY <1>1, <1>6, ConcatIsText
<1>8. <<"config", "space">> \o section.type \o name \o <<"newline">> \o lines \in Seq(Symbols)
  BY <1>3, <1>7, ConcatIsText
<1> DEFINE most == <<"config", "space">> \o section.type \o name \o <<"newline">> \o lines
<1>9. RenderSection(section) = most \o <<"newline">> /\ most \in Seq(Symbols)
  BY <1>4, <1>8
<1> HIDE DEF most
<1>10. RenderSection(section) \in Seq(Symbols) /\ Len(RenderSection(section)) = Len(most) + 1
  BY <1>1, <1>9, ConcatProperties
<1>11. QED
  BY <1>9, <1>10, LenProperties

\* What uci2_ast_sync writes is a text.
LEMMA RenderIsText ==
    ASSUME NEW document \in TextDocuments
    PROVE  Render(document) \in Seq(Symbols)
<1> DEFINE parts == [k \in DOMAIN document |-> RenderSection(document[k])]
<1>1. /\ Len(document) \in Nat /\ DOMAIN document = 1 .. Len(document)
      /\ \A k \in 1 .. Len(document) : document[k] \in
            [type : Seq(Symbols), name : Seq(Symbols) \cup {NoString}, lines : Seq(TextLines)]
  BY LenProperties, ElementOfSeq DEF TextDocuments
<1>2. \A k \in 1 .. Len(document) : parts[k] \in Seq(Symbols)
  <2>1. ASSUME NEW k \in 1 .. Len(document) PROVE RenderSection(document[k]) \in Seq(Symbols)
    <3>1. /\ document[k].type \in Seq(Symbols)
          /\ document[k].name \in Seq(Symbols) \cup {NoString}
          /\ document[k].lines \in Seq(TextLines)
      BY <1>1
    <3>2. QED
      BY <3>1, SectionIsText
  <2>2. QED
    BY <1>1, <2>1
<1>3. parts = [k \in 1 .. Len(document) |-> parts[k]]
  BY <1>1
<1>4. Render(document) = FlattenSeq(parts)
  BY DEF Render, SeqMap
<1> HIDE DEF parts
<1>5. QED
  BY <1>1, <1>2, <1>3, <1>4, PartsAreText

-----------------------------------------------------------------------------
(***************************************************************************)
(* The least and the greatest of a set of numbers.                         *)
(***************************************************************************)

LEMMA MinIsLeast ==
    ASSUME NEW T, T \subseteq Nat, T # {}
    PROVE  Min(T) \in T /\ \A n \in T : Min(T) <= n
BY LeastNumber DEF Min

LEMMA MaxIsGreatest ==
    ASSUME NEW n \in Nat, NEW T, T \subseteq 0 .. n, T # {}
    PROVE  Max(T) \in T /\ \A m \in T : m <= Max(T)
<1> DEFINE U == {n - m : m \in T}
<1>1. U \subseteq Nat /\ U # {}
  <2>1. \A m \in T : m \in 0 .. n /\ n - m \in Nat
    OBVIOUS
  <2>2. \A u \in U : u \in Nat
    BY <2>1
  <2>3. QED
    BY <2>2
<1> HIDE DEF U
<1>2. PICK least \in U : \A u \in U : least <= u
  BY <1>1, LeastNumber
<1> USE DEF U
<1>3. PICK greatest \in T : least = n - greatest
  OBVIOUS
<1>4. \A m \in T : greatest >= m
  <2>1. ASSUME NEW m \in T PROVE greatest >= m
    <3>1. n - m \in U
      OBVIOUS
    <3>2. n - greatest <= n - m
      BY <1>2, <1>3, <3>1
    <3>3. QED
      BY <3>2
  <2>2. QED
    BY <2>1
<1>5. QED
  BY <1>3, <1>4 DEF Max

\* A run of symbols ends inside the text, and is not empty when it begins in the set.
LEMMA RunLengthFacts ==
    ASSUME NEW text \in Seq(Symbols), NEW at \in 1 .. Len(text) + 1, NEW set
    PROVE  /\ RunLength(text, at, set) \in 0 .. Len(text) + 1 - at
           /\ at <= Len(text) /\ text[at] \in set => RunLength(text, at, set) > 0
<1> DEFINE stops == {k \in at .. Len(text) : text[k] \notin set}
<1>1. Len(text) \in Nat
  BY LenProperties
<1>2. CASE stops = {}
  BY <1>1, <1>2 DEF RunLength
<1>3. CASE stops # {}
  <2>1. Min(stops) \in stops
    <3>1. stops \subseteq Nat
      BY <1>1
    <3> HIDE DEF stops
    <3>2. QED
      BY <1>3, <3>1, MinIsLeast
  <2>2. RunLength(text, at, set) = Min(stops) - at
    BY <1>3 DEF RunLength
  <2>3. Min(stops) \in at .. Len(text) /\ text[Min(stops)] \notin set
    BY <2>1
  <2> HIDE DEF stops
  <2>4. QED
    BY <1>1, <2>2, <2>3
<1>4. QED
  BY <1>2, <1>3

\* What each of the rules matches lies inside the text.
LEMMA MatchesFacts ==
    ASSUME NEW text \in Seq(Symbols), NEW at \in 1 .. Len(text), NEW start
    PROVE  /\ DOMAIN Matches(text, at, start) = 1 .. 9
           /\ \A r \in 1 .. 9 : Matches(text, at, start)[r] \in 0 .. Len(text) + 1 - at
           /\ \E r \in 1 .. 9 : Matches(text, at, start)[r] > 0
<1> DEFINE m == Matches(text, at, start)
<1> DEFINE left == Len(text) + 1 - at
<1>1. Len(text) \in Nat /\ left \in Nat /\ left >= 1 /\ at \in 1 .. Len(text) + 1
      /\ at + 1 \in 1 .. Len(text) + 1
  BY LenProperties
<1>2. \A set : RunLength(text, at, set) \in 0 .. left
  BY <1>1, RunLengthFacts
<1>3. \A condition : OneIf(condition) \in 0 .. left
  BY <1>1 DEF OneIf
<1>4. CommentLength(text, at) \in 0 .. left
  BY <1>1, <1>2 DEF CommentLength
<1>5. ValueLength(text, at) \in 0 .. left
  <2> DEFINE inside == RunLength(text, at + 1, Symbols \ {text[at], "tab", "newline"})
  <2>1. inside \in 0 .. Len(text) + 1 - (at + 1)
    BY <1>1, RunLengthFacts
  <2> HIDE DEF inside
  <2>2. QuotedLength(text, at) \in 0 .. left
    <3>1. QuotedLength(text, at) =
              IF text[at] \in Quotes /\ at + inside + 1 <= Len(text)
                 /\ text[at + inside + 1] = text[at]
              THEN inside + 2 ELSE 0
      BY DEF QuotedLength, inside
    <3>2. QED
      BY <1>1, <2>1, <3>1
  <2>3. PlainLength(text, at) \in 0 .. left
    BY <1>2 DEF PlainLength
  <2> DEFINE both == {QuotedLength(text, at), PlainLength(text, at)}
  <2>4. both \subseteq 0 .. left /\ both # {}
    BY <2>2, <2>3
  <2> HIDE DEF both, left
  <2>5. Max(both) \in both
    BY <1>1, <2>4, MaxIsGreatest
  <2>6. QED
    BY <2>4, <2>5 DEF ValueLength, both
<1>6. StrayLength(text, at) \in 0 .. left
  BY <1>3 DEF StrayLength
<1> HIDE DEF left
<1>7. /\ m[1] = RunLength(text, at, {"newline"})
      /\ m[2] = CommentLength(text, at)
      /\ m[3] = RunLength(text, at, Blanks)
      /\ m[4] = OneIf(text[at] = "option")
      /\ m[5] = OneIf(text[at] = "list")
      /\ m[6] = IF start = "ST_VALUE" THEN ValueLength(text, at) ELSE 0
      /\ m[7] = OneIf(text[at] = "config")
      /\ m[8] = OneIf(text[at] = "package")
      /\ m[9] = StrayLength(text, at)
      /\ DOMAIN m = 1 .. 9
  BY DEF Matches
<1> HIDE DEF m
<1>8. \A r \in 1 .. 9 : m[r] \in 0 .. left
  <2>1. 0 \in 0 .. left
    BY <1>1
  <2>2. m[6] \in 0 .. left
    BY <1>5, <1>7, <2>1
  <2>3. m[1] \in 0 .. left /\ m[3] \in 0 .. left
    BY <1>2, <1>7
  <2>4. m[2] \in 0 .. left /\ m[9] \in 0 .. left
    BY <1>4, <1>6, <1>7
  <2>5. m[4] \in 0 .. left /\ m[5] \in 0 .. left
    BY <1>3, <1>7
  <2>6. m[7] \in 0 .. left /\ m[8] \in 0 .. left
    BY <1>3, <1>7
  <2>7. \A r \in 1 .. 9 : r = 1 \/ r = 2 \/ r = 3 \/ r = 4 \/ r = 5
                           \/ r = 6 \/ r = 7 \/ r = 8 \/ r = 9
    OBVIOUS
  <2>8. QED
    BY <2>2, <2>3, <2>4, <2>5, <2>6, <2>7
<1>9. \E r \in 1 .. 9 : m[r] > 0
  <2>1. CASE text[at] = "newline"
    <3>1. RunLength(text, at, {"newline"}) > 0
      BY <1>1, <2>1, RunLengthFacts
    <3>2. QED
      BY <1>7, <3>1
  <2>2. CASE text[at] # "newline"
    <3>1. m[9] = 1
      BY <1>7, <2>2 DEF StrayLength, OneIf
    <3>2. QED
      BY <3>1
  <2>3. QED
    BY <2>1, <2>2
<1>10. QED
  BY <1>7, <1>8, <1>9 DEF m, left

\* The rule with the longest match takes at least one symbol.
LEMMA RuleIsLongest ==
    ASSUME NEW n \in Nat, NEW m, DOMAIN m = 1 .. 9, \A r \in 1 .. 9 : m[r] \in 0 .. n,
           \E r \in 1 .. 9 : m[r] > 0
    PROVE  Rule(m) \in 1 .. 9 /\ m[Rule(m)] \in 1 .. n
<1> DEFINE T == Range(m)
<1>1. T \subseteq 0 .. n /\ T # {} /\ \A r \in 1 .. 9 : m[r] \in T
  BY DEF Range
<1> HIDE DEF T
<1>2. Max(T) \in T /\ \A k \in T : k <= Max(T)
  BY <1>1, MaxIsGreatest
<1>3. Max(T) \in 1 .. n
  <2>1. PICK r \in 1 .. 9 : m[r] > 0
    OBVIOUS
  <2> DEFINE max == Max(T)
  <2>2. m[r] <= max /\ max \in 0 .. n /\ m[r] \in 0 .. n
    BY <1>1, <1>2
  <2> HIDE DEF max
  <2>3. max \in 1 .. n
    BY <2>1, <2>2
  <2>4. QED
    BY <2>3 DEF max
<1> DEFINE rules == {r \in DOMAIN m : m[r] = Max(T)}
<1>4. Rule(m) = Min(rules)
  BY <1>3 DEF Rule, T
<1>5. rules \subseteq Nat /\ rules # {}
  <2>1. PICK r \in DOMAIN m : m[r] = Max(T)
    BY <1>2 DEF T, Range
  <2>2. QED
    BY <2>1
<1>6. Min(rules) \in rules
  <2> HIDE DEF rules
  <2>1. QED
    BY <1>5, MinIsLeast
<1>7. QED
  BY <1>3, <1>4, <1>6

\* A turn of the loop of yylex takes one symbol or more, and stays inside the text.
LEMMA ScanAdvances ==
    ASSUME NEW text \in Seq(Symbols), NEW at \in 1 .. Len(text), NEW start
    PROVE  Scan(text, at, start).length \in 1 .. Len(text) + 1 - at
<1> DEFINE m == Matches(text, at, start)
<1> DEFINE left == Len(text) + 1 - at
<1>1. left \in Nat
  BY LenProperties
<1>2. Scan(text, at, start).length = m[Rule(m)]
  BY DEF Scan
<1>3. /\ DOMAIN m = 1 .. 9 /\ \A r \in 1 .. 9 : m[r] \in 0 .. left
      /\ \E r \in 1 .. 9 : m[r] > 0
  BY MatchesFacts
<1> HIDE DEF m, left
<1>4. m[Rule(m)] \in 1 .. left
  BY <1>1, <1>3, RuleIsLongest
<1>5. QED
  BY <1>2, <1>4 DEF left

-----------------------------------------------------------------------------
(***************************************************************************)
(* Tokens.                                                                 *)
(***************************************************************************)

\* The tokens of a text: a word has the symbols it was read from, nothing else has any.
TextTokens == [kind : TokenKinds \ {"VALUE"}, text : {NoString}]
              \cup [kind : {"VALUE"}, text : Seq(Symbols)]

LEMMA UnquoteIsText ==
    ASSUME NEW word \in Seq(Symbols)
    PROVE  Unquote(word) \in Seq(Symbols)
<1>1. CASE Len(word) >= 2
  <2>1. Len(word) \in Nat /\ 2 \in 1 .. Len(word) + 1 /\ Len(word) - 1 \in 1 - 1 .. Len(word)
    BY <1>1, LenProperties
  <2>2. \A k \in 2 .. Len(word) - 1 : word[k] \in Symbols
    BY <2>1, ElementOfSeq
  <2>3. SubSeq(word, 2, Len(word) - 1) \in Seq(Symbols)
    BY <2>1, <2>2, SubSeqProperties
  <2>4. QED
    BY <2>3 DEF Unquote
<1>2. CASE ~(Len(word) >= 2)
  BY <1>2 DEF Unquote
<1>3. QED
  BY <1>1, <1>2

LEMMA TokensOfRule ==
    ASSUME NEW rule \in 1 .. 9, NEW word \in Seq(Symbols)
    PROVE  TokenOf(rule, word) \in Seq(TextTokens)
<1>1. CASE rule \in {1, 2, 3}
  BY <1>1 DEF TokenOf
<1>2. CASE rule = 6
  <2>1. Token("VALUE", Unquote(word)) \in TextTokens
    BY UnquoteIsText DEF TextTokens, Token
  <2>2. TokenOf(rule, word) = << Token("VALUE", Unquote(word)) >>
    BY <1>2 DEF TokenOf
  <2>3. QED
    BY <2>1, <2>2
<1>3. CASE rule \in {4, 5, 7, 8, 9}
  <2>1. RuleKind[rule] \in TokenKinds \ {"VALUE"}
    <3>1. /\ RuleKind[4] = "OPTION" /\ RuleKind[5] = "LIST" /\ RuleKind[7] = "CONFIG"
          /\ RuleKind[8] = "PACKAGE" /\ RuleKind[9] = "UNDEF"
      BY DEF RuleKind
    <3>2. {"OPTION", "LIST", "CONFIG", "PACKAGE", "UNDEF"} \subseteq TokenKinds \ {"VALUE"}
      BY DEF TokenKinds, Keywords
    <3>3. QED
      BY <1>3, <3>1, <3>2
  <2>2. Bare(RuleKind[rule]) \in TextTokens
    BY <2>1 DEF Bare, Token, TextTokens
  <2>3. TokenOf(rule, word) = << Bare(RuleKind[rule]) >>
    BY <1>3 DEF TokenOf
  <2>4. QED
    BY <2>2, <2>3
<1>4. QED
  BY <1>1, <1>2, <1>3

\* What a turn of the loop returns are tokens, and what it leaves is a start condition.
LEMMA ScanIsTyped ==
    ASSUME NEW text \in Seq(Symbols), NEW at \in 1 .. Len(text), NEW start \in StartConditions
    PROVE  /\ Scan(text, at, start).token \in Seq(TextTokens)
           /\ Scan(text, at, start).start \in StartConditions
<1> DEFINE m == Matches(text, at, start)
<1> DEFINE word == SubSeq(text, at, at + m[Rule(m)] - 1)
<1>1. Len(text) \in Nat /\ Len(text) + 1 - at \in Nat
  BY LenProperties
<1>2. Rule(m) \in 1 .. 9 /\ m[Rule(m)] \in 1 .. Len(text) + 1 - at
  <2>1. /\ DOMAIN m = 1 .. 9 /\ \A r \in 1 .. 9 : m[r] \in 0 .. Len(text) + 1 - at
        /\ \E r \in 1 .. 9 : m[r] > 0
    BY MatchesFacts
  <2> HIDE DEF m
  <2>2. QED
    BY <1>1, <2>1, RuleIsLongest
<1>3. /\ Scan(text, at, start).token = TokenOf(Rule(m), word)
      /\ Scan(text, at, start).start = NextStart(Rule(m), start)
  BY DEF Scan
<1>4. word \in Seq(Symbols)
  <2> HIDE DEF m
  <2>1. at + m[Rule(m)] - 1 \in at .. Len(text)
    BY <1>1, <1>2
  <2>2. QED
    BY <1>1, <2>1, SubSeqProperties
<1> HIDE DEF m, word
<1>5. NextStart(Rule(m), start) \in StartConditions
  BY <1>2 DEF NextStart, StartConditions
<1>6. QED
  BY <1>2, <1>3, <1>4, <1>5, TokensOfRule

=============================================================================
