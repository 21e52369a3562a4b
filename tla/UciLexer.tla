------------------------------ MODULE UciLexer ------------------------------
(***************************************************************************)
(* yylex of src/src/lexer.c on one text, match by match: either a text that *)
(* somebody else has written, or one that uci2_ast_sync has.                *)
(***************************************************************************)
EXTENDS UciText

CONSTANTS
    Texts,          \* texts that were written by hand
    Documents,      \* documents that were written by uci2_ast_sync
    Handwritten     \* the document of a text that was not

ASSUME LexerAssumption == Texts \subseteq Seq(Symbols) /\ Documents \subseteq TextDocuments

VARIABLES
    document,       \* what uci2_ast_sync wrote, or Handwritten
    text,           \* the scanned string
    at,             \* yy_c_buf_p, counted from 1
    start,          \* YY_START
    out             \* the tokens returned so far

lexerVars == <<document, text, at, start, out>>

LexerInit ==
    /\ \/ document = Handwritten /\ text \in Texts
       \/ document \in Documents /\ text = Render(document)
    /\ at = 1
    /\ start = "INITIAL"
    /\ out = <<>>

\* One turn of the loop of yylex; a rule that returns no token goes on with the next.
Match ==
    LET s == Scan(text, at, start)
    IN  /\ at <= Len(text)
        /\ at' = at + s.length
        /\ start' = s.start
        /\ out' = out \o s.token
        /\ UNCHANGED <<document, text>>

\* yyterminate, after which the parser does not call yylex again.
EndOfFile ==
    /\ at = Len(text) + 1
    /\ at' = at + 1
    /\ out' = Append(out, Bare("EOF"))
    /\ UNCHANGED <<document, text, start>>

LexerNext == Match \/ EndOfFile

LexerSpec == LexerInit /\ [][LexerNext]_lexerVars

-----------------------------------------------------------------------------
(***************************************************************************)
(* What the lexer promises.                                                *)
(***************************************************************************)

AtEnd == at > Len(text) + 1

\* The lexer stays inside the text until it has returned the end of the file, and
\* what it returns are tokens.
LexerTypeOK ==
    /\ at \in 1 .. Len(text) + 2
    /\ AtEnd => out # <<>> /\ Last(out) = Bare("EOF")
    /\ start \in StartConditions
    /\ \A k \in DOMAIN out : /\ out[k].kind \in TokenKinds
                             /\ out[k].kind # "VALUE" => out[k].text = NoString
                             /\ out[k].kind = "VALUE" => \A i \in DOMAIN out[k].text :
                                                            out[k].text[i] \in Symbols

\* One rule matches the empty string, and a turn of the loop that takes nothing is
\* repeated forever: wherever the lexer gets to in a text, the match it picks takes at
\* least one symbol.
EveryMatchAdvances == at <= Len(text) => Scan(text, at, start).length > 0

\* What stands in one line never changes how another one is read: neither an open
\* quote nor a comment nor the start condition goes on behind the newline.
LinesAreIndependent ==
    AtEnd => \A k \in DOMAIN text :
        text[k] = "newline" =>
            out = Front(Lex(SubSeq(text, 1, k))) \o Lex(SubSeq(text, k + 1, Len(text)))

\* A word that can be written without quotes.
Plain(word) ==
    /\ word # <<>>
    /\ Range(word) \subseteq Symbols \ (Blanks \cup Quotes \cup {"newline"})
    /\ word[1] # "#"
    /\ word \notin {<<"option">>, <<"list">>}

\* A word that can be written in single quotes.
Quotable(word) == Range(word) \cap {"'", "tab", "newline"} = {}

\* The documents that can be written to a file.
Writable(d) ==
    \A k \in DOMAIN d :
        /\ Plain(d[k].type)
        /\ d[k].name # NoString => Quotable(d[k].name) /\ NameWritten(d[k].name)
        /\ \A i \in DOMAIN d[k].lines :
              /\ Plain(d[k].lines[i].name)
              /\ d[k].lines[i].value # NoString => Quotable(d[k].lines[i].value)

\* uci2_ast_sync writes names as they are and values in single quotes, and escapes
\* nothing.  The file is read back as the document that was written if and only if
\* names are words that are neither option nor list and start no comment, and
\* values hold no single quote, tab or newline.
WrittenIsRead ==
    AtEnd /\ document # Handwritten =>
        ((Grammatical(out) /\ DocumentOf(out) = document) <=> Writable(document))

=============================================================================
