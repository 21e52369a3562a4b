--------------------------- MODULE UciParserProps ---------------------------
(***************************************************************************)
(* What the parser promises: of its stack, of the strings it owns, and of   *)
(* the AST it returns.  The meaning of a file is stated without adding,     *)
(* moving and merging nodes, which is how the grammar builds an AST.       *)
(***************************************************************************)
EXTENDS UciParser

\* The longest the stack can get: package lines CONFIG VALUE VALUE options OPTION
\* VALUE VALUE on top of the initial state.
MaxDepth == 10

Symbols == {"YYEMPTY"} \cup TokenKinds
Phases  == {"parsing", "erring", "accepted", "aborted"}

\* The parser's registers hold states of its tables, tokens it has read and
\* nodes it has made.
ParserTypeOK ==
    /\ tokens \in Seq([kind : TokenKinds, text : Strings \cup {NoString}])
    /\ stack \in Seq([state : States, value : Nat])
    /\ stack # <<>>
    /\ yychar \in Symbols
    /\ yylval \in 0 .. Len(tokens)
    /\ kept \in Seq(DOMAIN tokens) /\ freed \in Seq(DOMAIN tokens)
    /\ phase \in Phases

\* The grammar is left-recursive, so the stack does not grow with the file: it
\* never has to be moved to the heap, and the branch that gives up because the
\* stack is exhausted is dead, whatever the file.
StackBounded == Len(stack) <= MaxDepth

Words == {i \in DOMAIN tokens : tokens[i].kind = "VALUE"}

\* The owners of the string of token i: the lookahead, an entry of the stack whose
\* symbol is a VALUE, a node that stores it, a call of free.
Owners(i) ==
    {p \in {<<"lookahead", 0>>} : yychar = "VALUE" /\ yylval = i}
    \cup {<<"stack", k>> : k \in {k \in DOMAIN stack :
              At(yystos, stack[k].state) = YYSYMBOL_VALUE /\ stack[k].value = i}}
    \cup {<<"node", k>> : k \in {k \in DOMAIN kept : kept[k] = i}}
    \cup {<<"free", k>> : k \in {k \in DOMAIN freed : freed[k] = i}}

\* The string uci_unquote allocated for a word has exactly one owner: none is leaked
\* and none freed twice, wherever a syntax error stops the parser.
StringsOwnedOnce == \A i \in Words : Cardinality(Owners(i)) = 1

\* A parser that fails leaves nothing allocated, and one that succeeds has freed
\* nothing a node refers to.
NothingLeftBehind ==
    /\ phase = "aborted"  => Range(freed) = Words
    /\ phase = "accepted" => Range(kept) = Words /\ freed = <<>>

\* yyparse stops at the first token that cannot be part of a configuration file,
\* accepts exactly the configuration files, and returns the AST that the semantic
\* actions make of a file in order.
ReadsAsPromised == Reader!ReaderSpec

\* yyparse returns for every file, also where it runs into an error.
ParserReturns == <>(phase \in {"accepted", "aborted"})

-----------------------------------------------------------------------------
(***************************************************************************)
(* The meaning of a file.                                                  *)
(***************************************************************************)

\* The entries of s that come first among those with the same key.
Firsts(s, Key(_)) ==
    LET first == {k \in DOMAIN s : \A i \in 1 .. k - 1 : Key(s[i]) # Key(s[k])}
    IN  [k \in 1 .. Cardinality(first) |->
            s[CHOOSE i \in first : Cardinality({l \in first : l <= i}) = k]]

\* The first line for a name decides: an option keeps the value of that line
\* and all other lines for the name are lost; a list collects the elements of
\* all its lines and stays empty only if there are none.
Meaning(lines, first) ==
    LET elements == SelectSeq(lines, LAMBDA l : /\ l.kind = "list" /\ l.name = first.name
                                                /\ l.value # NoString)
    IN  IF first.kind = "option" \/ elements = <<>> THEN <<first>> ELSE elements

MeaningOfLines(lines) ==
    LET firsts == Firsts(lines, LAMBDA l : l.name)
    IN  FlattenSeq([k \in DOMAIN firsts |-> Meaning(lines, firsts[k])])

\* The sections of one type stand together, where the first of them stood.
MeaningOfFile(d) ==
    LET types == Firsts(d, LAMBDA s : s.type)
    IN  FlattenSeq([k \in DOMAIN types |->
            SelectSeq([i \in DOMAIN d |-> [d[i] EXCEPT !.lines = MeaningOfLines(@)]],
                      LAMBDA s : s.type = types[k].type)])

-----------------------------------------------------------------------------
(***************************************************************************)
(* The AST of a file.                                                      *)
(***************************************************************************)

Parsed == phase = "accepted"

\* The AST of every file is a tree in which the node API can work, whatever the
\* parser moved and merged on the way: the types, the lines of a section and the
\* counters of unnamed sections are what the functions of the API keep.
ParsedIsWellFormed ==
    Parsed => WellFormed(heap) /\ Orderly(heap) /\ Numbered(heap) /\ ConfigNode(heap) # NoNode

\* Reading a file and writing it keeps its meaning.
ParsedAsMeant ==
    Parsed => Sync(heap, ConfigNode(heap)) = MeaningOfFile(DocumentOf(tokens))

\* The sections in the order of the AST.
SectionNodes(h) == FlattenSeq(SeqMap(LAMBDA t : Written(h, t), Written(h, ConfigNode(h))))

\* The n-th unnamed section of a type is named @type[n], counted from 0 in the
\* order of the file.
UnnamedAreNumbered ==
    Parsed =>
    LET names == SeqMap(LAMBDA n : heap[n].name, SectionNodes(heap))
        file  == DocumentOf(tokens)
    IN  \A type \in TypeNames :
            LET unnamed == SelectSeq(file, LAMBDA s : s.type = type /\ s.name = NoString)
            IN  SelectSeq(names, LAMBDA nm : nm \in UnnamedNames /\ nm[1] = type)
                    = [n \in 1 .. Len(unnamed) |-> UnnamedName(type, n - 1)]

=============================================================================
