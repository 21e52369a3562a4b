------------------------------ MODULE UciParser ------------------------------
(***************************************************************************)
(* yyparse of src/src/parser.c, the automaton that bison makes of the       *)
(* grammar: its tables, its stack of states and values, the lookahead, and  *)
(* the error path, which frees the strings the parser still owns.  The      *)
(* semantic actions are those of UciDocument.                               *)
(*                                                                         *)
(* A string is the place of its token among all tokens read, so that it can *)
(* be told where each of them is.  kept and freed are history variables: the*)
(* strings stored in nodes, and those given to free, each in order.         *)
(***************************************************************************)
EXTENDS UciGrammar

CONSTANT
    MaxLines        \* bound: the config, option and list lines of a file

VARIABLES
    tokens,         \* what yylex has returned so far
    stack,          \* yyss and yyvs: states with their values, the top last
    yychar,         \* YYEMPTY, or the kind of the lookahead token
    yylval,         \* the string yylex stored last, 0 before the first one
    heap,           \* the nodes of the AST
    kept,
    freed,
    phase           \* where yyparse is, and what it returns

parserVars == <<tokens, stack, yychar, yylval, heap, kept, freed, phase>>

-----------------------------------------------------------------------------
(***************************************************************************)
(* The tables.  They are indexed from 0 in the code.                       *)
(***************************************************************************)

yypact == <<1, -1, 9, 13, 10, 10, -10, -10, -2, -10, -10, 10,
            -10, 5, 12, 14, 5, -10, 5, 15, 16, -10, -10, -10>>

yydefact == <<0, 0, 0, 0, 0, 2, 5, 7, 8, 4, 1, 3,
              6, 9, 0, 0, 10, 12, 11, 0, 15, 13, 14, 16>>

yypgoto == <<-10, -10, -10, 17, -5, -10, 3, -9>>

yydefgoto == <<0, 3, 4, 5, 6, 7, 16, 17>>

yytable == <<12, 13, 8, 14, 15, 1, 12, 21, 2, 21, 14, 15,
             9, 10, 1, 19, 18, 20, 22, 23, 0, 11>>

yycheck == <<5, 3, 3, 5, 6, 4, 11, 16, 7, 18, 5, 6,
             3, 0, 4, 3, 13, 3, 3, 3, -1, 4>>

yystos == <<0, 4, 7, 9, 10, 11, 12, 13, 3, 3, 0, 11,
            12, 3, 5, 6, 14, 15, 14, 3, 3, 15, 3, 3>>

yyr1 == <<0, 8, 9, 9, 10, 11, 11, 12, 13, 13, 13, 13, 14, 14, 15, 15, 15>>

yyr2 == <<0, 2, 1, 2, 2, 1, 2, 1, 2, 3, 3, 4, 1, 2, 3, 2, 3>>

At(table, i) == table[i + 1]

\* Mutant: the state after root accepts, before the end of the file is seen.
AcceptsEarly == 3

YYNSTATES == 24
YYNTOKENS == 8
YYLAST    == 21
YYFINAL   == 10
YYPACT_NINF == -10

States == 0 .. YYNSTATES - 1

\* The terminal symbols, by the kinds of tokens.
YYTRANSLATE ==
    [EOF |-> 0, UNDEF |-> 2, VALUE |-> 3, CONFIG |-> 4, OPTION |-> 5, LIST |-> 6, PACKAGE |-> 7]

YYSYMBOL_YYerror == 1
YYSYMBOL_VALUE   == 3

\* The entry for symbol in the row that starts at base; 0 if it has none.
Entry(base, symbol) ==
    LET i == base + symbol
    IN  IF i \in 0 .. YYLAST /\ At(yycheck, i) = symbol THEN At(yytable, i) ELSE 0

\* What can be done in a state whatever the lookahead is.
IsDefault(state) == At(yypact, state) = YYPACT_NINF

ShiftTo(state, symbol) == IF IsDefault(state) THEN 0 ELSE Entry(At(yypact, state), symbol)

Goto(state, nonterminal) ==
    LET lhs   == nonterminal - YYNTOKENS
        entry == Entry(At(yypgoto, lhs), state)
    IN  IF entry # 0 THEN entry ELSE At(yydefgoto, lhs)

-----------------------------------------------------------------------------
(***************************************************************************)
(* The actions of the 15 rules, yyval included.  rhs holds the values of    *)
(* the symbols on the right-hand side: nodes, and places of tokens in ts.   *)
(***************************************************************************)

RuleAction(rule, h, ts, rhs) ==
    LET text(k) == ts[rhs[k]].text
    IN  CASE rule = 2  -> ReduceRoot(h, NoNode, rhs[1])
          [] rule = 3  -> ReduceRoot(h, rhs[1], rhs[2])
          [] rule = 4  -> ReducePackage(h, text(2))
          [] rule = 7  -> Reduced(h, rhs[1])
          [] rule = 8  -> ReduceConfig(h, text(2), NoString, NoNode)
          [] rule = 9  -> ReduceConfig(h, text(2), text(3), NoNode)
          [] rule = 10 -> ReduceConfig(h, text(2), NoString, rhs[3])
          [] rule = 11 -> ReduceConfig(h, text(2), text(3), rhs[4])
          [] rule \in {5, 12} -> ReduceFirst(h, rhs[1])
          [] rule \in {6, 13} -> ReduceNext(h, rhs[1], rhs[2])
          [] rule = 14 -> ReduceOption(h, text(2), text(3))
          [] rule = 15 -> ReduceList(h, text(2), NoString)
          [] rule = 16 -> ReduceList(h, text(2), text(3))

\* Mutant: the list element is copied, and its string stays with nobody.
StoresCopied(rule) ==
    CASE rule \in {4, 8, 10, 15, 16} -> <<2>>
      [] rule \in {9, 11, 14}       -> <<2, 3>>
      [] OTHER                      -> <<>>

\* The symbols of a rule whose strings its action hands over to a node.
Stores(rule) ==
    CASE rule \in {4, 8, 10, 15}      -> <<2>>
      [] rule \in {9, 11, 14, 16}     -> <<2, 3>>
      [] OTHER                        -> <<>>

-----------------------------------------------------------------------------
(***************************************************************************)
(* The state machine: yyparse from one of its labels to the next.          *)
(***************************************************************************)

Result ==
    [status |-> CASE phase = "accepted" -> "accepted"
                  [] phase = "aborted"  -> "rejected"
                  [] OTHER              -> "reading",
     ast    |-> IF phase = "accepted" THEN heap ELSE <<>>]

Reader == INSTANCE UciReader WITH result <- Result

Item(state, value) == [state |-> state, value |-> value]

Top == Last(stack).state

Init ==
    /\ tokens = <<>>
    /\ stack = << Item(0, 0) >>
    /\ yychar = "YYEMPTY"
    /\ yylval = 0
    /\ heap = <<>>
    /\ kept = <<>>
    /\ freed = <<>>
    /\ phase = "parsing"

\* What the tables say for the state on top: the rule to reduce by, 0 for none.
Shifts  == yychar # "YYEMPTY" /\ ShiftTo(Top, YYTRANSLATE[yychar]) # 0
Decided == IsDefault(Top) \/ yychar # "YYEMPTY"
Default == At(yydefact, Top)

Parsing == phase = "parsing" /\ Top # YYFINAL

\* yybackup: a lookahead is read only where the state does not decide by itself.
Yylex ==
    /\ Parsing
    /\ ~Decided
    /\ \E t \in Reader!NextTokens(tokens) :
          /\ tokens' = Append(tokens, t)
          /\ yychar' = t.kind
          /\ yylval' = IF t.kind = "VALUE" THEN Len(tokens) + 1 ELSE yylval
    /\ UNCHANGED <<stack, heap, kept, freed, phase>>

\* yylval goes with every token, the last string with a keyword too.
Shift ==
    /\ Parsing
    /\ Shifts
    /\ stack' = Append(stack, Item(ShiftTo(Top, YYTRANSLATE[yychar]), yylval))
    /\ yychar' = "YYEMPTY"
    /\ UNCHANGED <<tokens, yylval, heap, kept, freed, phase>>

\* Mutant: the symbols of the right-hand side stay on the stack.
ReduceOnTop ==
    LET left == Len(stack) - At(yyr2, Default)
        rhs  == SeqMap(LAMBDA item : item.value, SubSeq(stack, left + 1, Len(stack)))
        r    == RuleAction(Default, heap, tokens, rhs)
        goto == Goto(stack[left].state, At(yyr1, Default))
    IN  /\ Parsing
        /\ Decided /\ ~Shifts
        /\ Default # 0
        /\ heap' = r.heap
        /\ stack' = Append(stack, Item(goto, r.node))
        /\ UNCHANGED <<tokens, yychar, yylval, kept, freed, phase>>

Reduce ==
    LET left == Len(stack) - At(yyr2, Default)
        rhs  == SeqMap(LAMBDA item : item.value, SubSeq(stack, left + 1, Len(stack)))
        r    == RuleAction(Default, heap, tokens, rhs)
        goto == Goto(stack[left].state, At(yyr1, Default))
    IN  /\ Parsing
        /\ Decided /\ ~Shifts
        /\ Default # 0
        /\ heap' = r.heap
        /\ stack' = Append(SubSeq(stack, 1, left), Item(goto, r.node))
        /\ kept' = kept \o SeqMap(LAMBDA k : rhs[k], Stores(Default))
        /\ UNCHANGED <<tokens, yychar, yylval, freed, phase>>

\* yyerrlab.  The first error is the last one, so no lookahead is discarded here.
SyntaxError ==
    /\ Parsing
    /\ Decided /\ ~Shifts
    /\ Default = 0
    /\ phase' = "erring"
    /\ UNCHANGED <<tokens, stack, yychar, yylval, heap, kept, freed>>

\* Mutant: whatever has been shifted is taken for a string.
DestructAny(symbol, string) == <<string>>

\* The destructor of symbol frees the string of a VALUE and nothing else.
Destruct(symbol, string) == IF symbol = YYSYMBOL_VALUE THEN <<string>> ELSE <<>>

\* yyerrlab1: pop states until one can shift the error token.
Pop ==
    /\ phase = "erring"
    /\ ShiftTo(Top, YYSYMBOL_YYerror) = 0
    /\ Len(stack) > 1
    /\ freed' = freed \o Destruct(At(yystos, Top), Last(stack).value)
    /\ stack' = Front(stack)
    /\ UNCHANGED <<tokens, yychar, yylval, heap, kept, phase>>

\* Mutants: the lookahead that was in the way is tried again; the AST stays.
AbortRetrying ==
    /\ phase = "erring" /\ Len(stack) = 1
    /\ phase' = "parsing"
    /\ UNCHANGED <<tokens, stack, yychar, yylval, heap, kept, freed>>
AbortWithAst ==
    /\ phase = "erring" /\ Len(stack) = 1
    /\ freed' = freed \o Destruct(IF yychar = "YYEMPTY" THEN 0 ELSE YYTRANSLATE[yychar], yylval)
    /\ yychar' = "YYEMPTY"
    /\ phase' = "aborted"
    /\ UNCHANGED <<tokens, stack, yylval, heap, kept>>

\* YYABORT at the bottom of the stack: yyreturnlab discards the lookahead, and
\* uci2_config_parse destroys the AST and with it the strings of its nodes.
Abort ==
    /\ phase = "erring"
    /\ ShiftTo(Top, YYSYMBOL_YYerror) = 0
    /\ Len(stack) = 1
    /\ freed' = freed \o Destruct(IF yychar = "YYEMPTY" THEN 0 ELSE YYTRANSLATE[yychar], yylval)
                      \o kept
    /\ kept' = <<>>
    /\ heap' = <<>>
    /\ yychar' = "YYEMPTY"
    /\ phase' = "aborted"
    /\ UNCHANGED <<tokens, stack, yylval>>

\* YYACCEPT: yyreturnlab pops what is left.
Accept ==
    /\ phase = "parsing"
    /\ Top = YYFINAL
    /\ freed' = freed \o FlattenSeq([k \in 1 .. Len(stack) - 1 |->
                            Destruct(At(yystos, stack[k + 1].state), stack[k + 1].value)])
    /\ stack' = << stack[1] >>
    /\ phase' = "accepted"
    /\ UNCHANGED <<tokens, yychar, yylval, heap, kept>>

\* yyparse has returned.
Returned == phase \in {"accepted", "aborted"} /\ UNCHANGED parserVars

ParserNext == Yylex \/ Shift \/ Reduce \/ SyntaxError \/ Pop \/ Abort \/ Accept

Next == ParserNext \/ Returned

\* The parser runs on until it returns: weak fairness of ParserNext, which is
\* enabled until then.  (TLC could not evaluate ENABLED of the semantic actions.)
RunsOn == []<>(phase \in {"accepted", "aborted"}) \/ []<><<ParserNext>>_parserVars

ParserSpec == Init /\ [][Next]_parserVars /\ RunsOn

=============================================================================
