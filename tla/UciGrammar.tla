----------------------------- MODULE UciGrammar -----------------------------
(***************************************************************************)
(* The configuration files of src/src/uci2.y as sequences of tokens, stated *)
(* without a stack: each keyword is followed by so many words, and only     *)
(* certain keywords may follow each other.  DocumentOf is what a file says. *)
(***************************************************************************)
EXTENDS UciDocument

Keywords == {"PACKAGE", "CONFIG", "OPTION", "LIST"}

TokenKinds == Keywords \cup {"VALUE", "EOF", "UNDEF"}

\* What yylex returns and the string it stores in yylval; only a VALUE has one.
Token(kind, text) == [kind |-> kind, text |-> text]
Bare(kind)        == Token(kind, NoString)

\* How many words a keyword needs, and how many it takes.
MinWords(keyword) == IF keyword = "OPTION" THEN 2 ELSE 1
MaxWords(keyword) == IF keyword = "PACKAGE" THEN 1 ELSE 2

\* The place of the keyword the i-th token belongs to, 0 if there is none.
KeywordOf(ts, i) ==
    LET before == {k \in 1 .. i - 1 : ts[k].kind \in Keywords}
    IN  IF before = {} THEN 0 ELSE Max(before)

\* The keyword at k has its words when the i-th token comes.
Complete(ts, k, i) == k # 0 /\ i - k > MinWords(ts[k].kind)

\* The i-th token may stand where it does after those before it.
Fits(ts, i) ==
    LET k    == KeywordOf(ts, i)
        kind == ts[i].kind
    IN  \/ kind = "PACKAGE" /\ i = 1
        \/ kind = "CONFIG" /\ (i = 1 \/ Complete(ts, k, i))
        \/ kind \in {"OPTION", "LIST", "EOF"} /\ Complete(ts, k, i) /\ ts[k].kind # "PACKAGE"
        \/ kind = "VALUE" /\ k # 0 /\ i - k <= MaxWords(ts[k].kind)

Ended(ts) == ts # <<>> /\ Last(ts).kind = "EOF"

\* ts is a file or may still become one.
Viable(ts) == \A i \in DOMAIN ts : Fits(ts, i) /\ (ts[i].kind = "EOF" => i = Len(ts))

Grammatical(ts) == Viable(ts) /\ Ended(ts)

\* The n-th word after the keyword at k, NoString if it has none.
Word(ts, k, n) ==
    IF k + n <= Len(ts) /\ \A i \in k + 1 .. k + n : ts[i].kind = "VALUE"
    THEN ts[k + n].text ELSE NoString

LineAt(ts, k) ==
    Line(IF ts[k].kind = "OPTION" THEN "option" ELSE "list", Word(ts, k, 1), Word(ts, k, 2))

\* What the i-th token adds to the document of those before it: a CONFIG begins a
\* section, an OPTION or a LIST is a line of the last one.
Extended(ts, d, i) ==
    CASE ts[i].kind = "CONFIG" -> Append(d, Section(Word(ts, i, 1), Word(ts, i, 2), <<>>))
      [] ts[i].kind \in {"OPTION", "LIST"} /\ d # <<>> ->
            [d EXCEPT ![Len(d)].lines = Append(@, LineAt(ts, i))]
      [] OTHER -> d

\* The document of the lines of ts that begin with one of its first n tokens.
DocumentUpTo(ts, n) ==
    LET upTo[i \in 0 .. n] == IF i = 0 THEN <<>> ELSE Extended(ts, upTo[i - 1], i)
    IN  upTo[n]

PackageOf(ts)  == IF ts[1].kind = "PACKAGE" THEN ts[2].text ELSE NoString
DocumentOf(ts) == DocumentUpTo(ts, Len(ts))

=============================================================================
