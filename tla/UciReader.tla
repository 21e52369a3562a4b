------------------------------ MODULE UciReader ------------------------------
(***************************************************************************)
(* What yyparse promises: it reads a file token by token and stops as soon *)
(* as the tokens are no beginning of a configuration file; it returns the   *)
(* AST of a file that is one, and an error for one that is not.             *)
(***************************************************************************)
EXTENDS UciGrammar

CONSTANT
    MaxLines        \* bound: the config, option and list lines of a file

VARIABLES
    tokens,         \* what has been read
    result          \* what yyparse returned, and the AST

readerVars == <<tokens, result>>

Reading  == [status |-> "reading", ast |-> <<>>]
Accepted(ast) == [status |-> "accepted", ast |-> ast]
Rejected == [status |-> "rejected", ast |-> <<>>]

-----------------------------------------------------------------------------
(***************************************************************************)
(* The tokens of a file may come in any order, but a word is one of those   *)
(* that its place calls for, and after so many lines only words and the end *)
(* of the file follow.                                                     *)
(***************************************************************************)

WordsAt(ts) ==
    LET k       == KeywordOf(ts, Len(ts) + 1)
        keyword == IF k = 0 THEN "PACKAGE" ELSE ts[k].kind
    IN  CASE keyword = "PACKAGE"                  -> SectionNames
          [] keyword = "CONFIG" /\ k = Len(ts)   -> TypeNames
          [] keyword = "CONFIG" /\ k < Len(ts)   -> SectionNames
          [] keyword \in {"OPTION", "LIST"}      -> IF k = Len(ts) THEN OptionNames ELSE Values

LinesIn(ts) == Cardinality({k \in DOMAIN ts : ts[k].kind \in {"CONFIG", "OPTION", "LIST"}})

NextTokens(ts) ==
    {Bare("EOF")}
    \cup {Token("VALUE", word) : word \in WordsAt(ts)}
    \cup IF LinesIn(ts) < MaxLines
         THEN {Bare(kind) : kind \in {"UNDEF", "PACKAGE", "CONFIG", "OPTION", "LIST"}} ELSE {}

-----------------------------------------------------------------------------

ReaderInit == tokens = <<>> /\ result = Reading

ReadToken ==
    /\ result = Reading
    /\ Viable(tokens) /\ ~Ended(tokens)
    /\ \E t \in NextTokens(tokens) : tokens' = Append(tokens, t)
    /\ UNCHANGED result

Accept ==
    /\ result = Reading
    /\ Grammatical(tokens)
    /\ result' = Accepted(ParseFile(PackageOf(tokens), DocumentOf(tokens)))
    /\ UNCHANGED tokens

Reject ==
    /\ result = Reading
    /\ ~Viable(tokens)
    /\ result' = Rejected
    /\ UNCHANGED tokens

ReaderNext == ReadToken \/ Accept \/ Reject

ReaderSpec == ReaderInit /\ [][ReaderNext]_readerVars

=============================================================================
