------------------------------- MODULE UciText -------------------------------
(***************************************************************************)
(* The text of a configuration file: the rules of src/src/uci2.l that cut   *)
(* it into tokens, and the lines that uci2_ast_sync writes.  A text is a    *)
(* sequence of symbols: a keyword of the format, one of the characters that *)
(* the rules tell apart, or another character.  A word is a text, too.      *)
(***************************************************************************)
EXTENDS UciGrammar

CONSTANT
    Letters         \* characters that mean nothing to the lexer

KeywordTexts == {"package", "config", "option", "list"}
Blanks       == {"space", "tab"}
Quotes       == {"'", "\""}
Symbols      == Letters \cup KeywordTexts \cup Blanks \cup Quotes \cup {"@", "#", "newline"}

-----------------------------------------------------------------------------
(***************************************************************************)
(* The rules of the lexer.                                                 *)
(***************************************************************************)

StartConditions == {"INITIAL", "ST_VALUE"}

\* How many symbols of set follow each other from place at on.
RunLength(text, at, set) ==
    LET stops == {k \in at .. Len(text) : text[k] \notin set}
    IN  (IF stops = {} THEN Len(text) + 1 ELSE Min(stops)) - at

OneIf(condition) == IF condition THEN 1 ELSE 0

\* A word in quotes has neither these quotes nor a tab nor a newline inside.
QuotedLength(text, at) ==
    LET inside == RunLength(text, at + 1, Symbols \ {text[at], "tab", "newline"})
        close  == at + inside + 1
    IN  IF text[at] \in Quotes /\ close <= Len(text) /\ text[close] = text[at]
        THEN inside + 2 ELSE 0

PlainLength(text, at) == RunLength(text, at, Symbols \ (Blanks \cup Quotes \cup {"newline"}))

ValueLength(text, at) == Max({QuotedLength(text, at), PlainLength(text, at)})

CommentLength(text, at) ==
    IF text[at] = "#" THEN RunLength(text, at, Symbols \ {"newline"}) ELSE 0

\* Mutant: no rule takes a stray character.
NoneStray(text, at) == 0

StrayLength(text, at) == OneIf(text[at] # "newline")

\* How many symbols each of the nine rules matches at place at.
Matches(text, at, start) ==
    << RunLength(text, at, {"newline"}),
       CommentLength(text, at),
       RunLength(text, at, Blanks),
       OneIf(text[at] = "option"),
       OneIf(text[at] = "list"),
       IF start = "ST_VALUE" THEN ValueLength(text, at) ELSE 0,
       OneIf(text[at] = "config"),
       OneIf(text[at] = "package"),
       StrayLength(text, at) >>

\* The first of the rules with the longest match.  The third one matches nothing, too.
Rule(matches) ==
    LET longest == Max(Range(matches))
    IN  IF longest = 0 THEN 3 ELSE Min({r \in DOMAIN matches : matches[r] = longest})

\* Mutant: the end of a line leaves the start condition as it is.
KeepStart(rule, start) == IF rule \in {4, 5, 7, 8} THEN "ST_VALUE" ELSE start

NextStart(rule, start) ==
    CASE rule = 1               -> "INITIAL"
      [] rule \in {4, 5, 7, 8}  -> "ST_VALUE"
      [] rule \in {2, 3, 6, 9}  -> start

\* uci_unquote: the word without the quotes it begins and ends with.
Unquote(word) ==
    IF Len(word) >= 2 /\ word[1] \in Quotes /\ Last(word) = word[1]
    THEN SubSeq(word, 2, Len(word) - 1) ELSE word

RuleKind == <<"", "", "", "OPTION", "LIST", "VALUE", "CONFIG", "PACKAGE", "UNDEF">>

\* Mutant: every rule that returns a token copies its word.
TokenCopied(rule, word) ==
    IF rule \in {1, 2, 3} THEN <<>> ELSE << Token(RuleKind[rule], Unquote(word)) >>

\* The token a rule returns, if any.
TokenOf(rule, word) ==
    CASE rule \in {1, 2, 3}     -> <<>>
      [] rule = 6               -> << Token("VALUE", Unquote(word)) >>
      [] rule \in {4, 5, 7, 8, 9} -> << Bare(RuleKind[rule]) >>

\* What the lexer does next: the symbols it takes, the token it returns for them
\* and the start condition it leaves behind.
Scan(text, at, start) ==
    LET matches == Matches(text, at, start)
        rule    == Rule(matches)
        length  == matches[rule]
    IN  [length |-> length,
         token  |-> TokenOf(rule, SubSeq(text, at, at + length - 1)),
         start  |-> NextStart(rule, start)]

\* The tokens of a text up to its end, or up to where the lexer does not go on.
Lex(text) ==
    LET from[at \in 1 .. Len(text) + 1, start \in StartConditions] ==
            IF at > Len(text) THEN << Bare("EOF") >>
            ELSE LET s == Scan(text, at, start)
                 IN  s.token \o IF s.length = 0 THEN <<>> ELSE from[at + s.length, s.start]
    IN  from[1, "INITIAL"]

-----------------------------------------------------------------------------
(***************************************************************************)
(* What uci2_ast_sync writes, line by line.                                *)
(***************************************************************************)

Quoted(word) == <<"'">> \o word \o <<"'">>

\* Mutant: the name and the value of an option are written without quotes.
RenderPlain(line) ==
    <<"tab", line.kind, "space">> \o line.name
    \o (IF line.value = NoString THEN <<>> ELSE <<"space">> \o line.value)
    \o <<"newline">>

RenderLine(line) ==
    <<"tab", line.kind, "space">> \o line.name
    \o (IF line.value = NoString THEN <<>> ELSE <<"space">> \o Quoted(line.value))
    \o <<"newline">>

\* The name of an unnamed section starts with '@', and no such name is written.
NameWritten(name) == name # NoString /\ (name = <<>> \/ name[1] # "@")

RenderSection(section) ==
    <<"config", "space">> \o section.type
    \o (IF NameWritten(section.name) THEN <<"space">> \o Quoted(section.name) ELSE <<>>)
    \o <<"newline">>
    \o FlattenSeq(SeqMap(RenderLine, section.lines))
    \o <<"newline">>

Render(document) == FlattenSeq(SeqMap(RenderSection, document))

\* The documents whose words are texts.
TextLines == [kind : {"option", "list"}, name : Seq(Symbols), value : Seq(Symbols) \cup {NoString}]

TextDocuments ==
    Seq([type : Seq(Symbols), name : Seq(Symbols) \cup {NoString}, lines : Seq(TextLines)])

=============================================================================
