-------------------------- MODULE UciParserProofs --------------------------
(***************************************************************************)
(* Theorems about yyparse for files of any length.                         *)
(***************************************************************************)
EXTENDS UciParserProps, UciAstProofs

\* The states that may stand directly beneath a state on the stack.
Beneath == << {}, {0, 4, 5, 11}, {0}, {0}, {0}, {0}, {0, 4}, {0, 4, 5, 11},
              {1}, {2}, {3}, {4}, {5, 11}, {8}, {8, 13, 16, 18}, {8, 13, 16, 18},
              {8}, {8, 13}, {13}, {14}, {15}, {16, 18}, {19}, {20} >>

\* The highest place of a state on the stack.
Height == << 1, 4, 2, 2, 2, 2, 3, 4, 5, 3, 3, 3, 4, 6, 8, 8, 7, 8, 7, 9, 9, 8, 10, 10 >>

\* An entry of the stack lies on one that may stand beneath it.
Path(s) ==
    /\ s # <<>> /\ s[1].state = 0
    /\ \A k \in 2 .. Len(s) : s[k - 1].state \in At(Beneath, s[k].state)
    /\ \A k \in 1 .. Len(s) : k <= At(Height, s[k].state)

Items(V) == [state : States, value : V]

\* How many symbols the rule a state reduces by has.
Size(state) == At(yyr2, At(yydefact, state))

LeftSide(state) == At(yyr1, At(yydefact, state))

\* The places of the symbols whose strings the rule stores.
Stored(state) == Range(Stores(At(yydefact, state)))

\* In state p the left-hand side of a rule leads to a state that may lie on top of p
\* and stands for it.
Leads(p, lhs) ==
    /\ Goto(p, lhs) \in States
    /\ p \in At(Beneath, Goto(p, lhs))
    /\ At(yystos, Goto(p, lhs)) = lhs

-----------------------------------------------------------------------------

\* The table of heights fits the table of what lies beneath.
LEMMA HeightGrows ==
    ASSUME NEW q \in States
    PROVE  /\ At(Height, q) \in 1 .. MaxDepth
           /\ \A p \in At(Beneath, q) : p \in States /\ At(Height, p) + 1 <= At(Height, q)
BY DEF States, YYNSTATES, At, Beneath, Height, MaxDepth

\* Shifting a symbol leads to a state that stands for it and may lie on top.
LEMMA ShiftIsEdge ==
    ASSUME NEW p \in States, NEW a \in 0 .. YYNTOKENS - 1, ShiftTo(p, a) # 0
    PROVE  /\ ShiftTo(p, a) \in States
           /\ p \in At(Beneath, ShiftTo(p, a))
           /\ At(yystos, ShiftTo(p, a)) = a
BY DEF ShiftTo, IsDefault, Entry, States, YYNSTATES, YYNTOKENS, YYLAST, YYPACT_NINF, At,
       yypact, yycheck, yytable, yystos, Beneath

\* Where the rules lead that can be reduced in a state of their left-hand side.
LEMMA GotoFacts ==
    /\ Goto(0, 9) = 3 /\ Goto(0, 10) = 4
    /\ Goto(0, 11) = 5 /\ Goto(4, 11) = 11
    /\ \A p \in {0, 4} : Goto(p, 12) = 6
    /\ \A p \in {5, 11} : Goto(p, 12) = 12
    /\ \A p \in {0, 4, 5, 11} : Goto(p, 13) = 7
    /\ Goto(8, 14) = 16 /\ Goto(13, 14) = 18
    /\ \A p \in {8, 13} : Goto(p, 15) = 17
    /\ \A p \in {16, 18} : Goto(p, 15) = 21
BY DEF Goto, Entry, At, YYNTOKENS, YYLAST, yypgoto, yydefgoto, yytable, yycheck

\* The rules by which the states reduce: how many symbols they have, and what they
\* make of them.
LEMMA RuleFacts ==
    ASSUME NEW t \in States, At(yydefact, t) # 0, t # YYFINAL
    PROVE  \/ t = 5 /\ Size(t) = 1 /\ LeftSide(t) = 9
           \/ t = 11 /\ Size(t) = 2 /\ LeftSide(t) = 9
           \/ t = 9 /\ Size(t) = 2 /\ LeftSide(t) = 10
           \/ t = 6 /\ Size(t) = 1 /\ LeftSide(t) = 11
           \/ t = 12 /\ Size(t) = 2 /\ LeftSide(t) = 11
           \/ t = 7 /\ Size(t) = 1 /\ LeftSide(t) = 12
           \/ t = 8 /\ Size(t) = 2 /\ LeftSide(t) = 13
           \/ t \in {13, 16} /\ Size(t) = 3 /\ LeftSide(t) = 13
           \/ t = 18 /\ Size(t) = 4 /\ LeftSide(t) = 13
           \/ t = 17 /\ Size(t) = 1 /\ LeftSide(t) = 14
           \/ t = 21 /\ Size(t) = 2 /\ LeftSide(t) = 14
           \/ t = 20 /\ Size(t) = 2 /\ LeftSide(t) = 15
           \/ t \in {22, 23} /\ Size(t) = 3 /\ LeftSide(t) = 15
BY DEF States, YYNSTATES, YYFINAL, Size, LeftSide, At, yydefact, yyr1, yyr2

LEMMA GotoIsEdge ==
    ASSUME NEW t \in States, At(yydefact, t) # 0, t # YYFINAL
    PROVE  /\ Size(t) \in 1 .. 4 /\ t # 0
           /\ \A p \in At(Beneath, t) :
              /\ Size(t) = 1 => Leads(p, LeftSide(t))
              /\ Size(t) > 1 => p # 0
              /\ \A q \in At(Beneath, p) :
                 /\ Size(t) = 2 => Leads(q, LeftSide(t))
                 /\ Size(t) > 2 => q # 0
                 /\ \A r \in At(Beneath, q) :
                    /\ Size(t) = 3 => Leads(r, LeftSide(t))
                    /\ Size(t) > 3 => r # 0 /\ \A u \in At(Beneath, r) : Leads(u, LeftSide(t))
BY RuleFacts, GotoFacts DEF At, Beneath, Leads, States, YYNSTATES, yystos

-----------------------------------------------------------------------------
(***************************************************************************)
(* The stack.  It stays a path through the states of the automaton, each    *)
(* of which may lie on the one below only; such a path is never long.       *)
(***************************************************************************)

StackOK == (\E V : stack \in Seq(Items(V))) /\ Path(stack)

StackInv == StackOK /\ yychar \in Symbols

\* The bottom of the stack is a path.
LEMMA PathBottom ==
    ASSUME NEW V, NEW s \in Seq(Items(V)), Len(s) = 1, s[1].state = 0
    PROVE  Path(s)
<1>1. s # <<>>
  BY EmptySeq
<1>2. 1 <= At(Height, 0)
  BY DEF At, Height
<1>3. QED
  BY <1>1, <1>2 DEF Path

\* A state may be pushed on top of a state that may lie beneath it.
LEMMA PathPush ==
    ASSUME NEW V, NEW s \in Seq(Items(V)), Path(s),
           NEW q \in States, Last(s).state \in At(Beneath, q), NEW v
    PROVE  LET t == Append(s, Item(q, v))
           IN  t \in Seq(Items(V \cup {v})) /\ Path(t)
<1> DEFINE W == Items(V \cup {v})
<1> DEFINE t == Append(s, Item(q, v))
<1>1. s \in Seq(W) /\ Item(q, v) \in W
  <2>1. Items(V) \subseteq W
    BY DEF Items
  <2>2. Seq(Items(V)) \subseteq Seq(W)
    BY <2>1, SeqMonotonic
  <2>3. QED
    BY <2>2 DEF Items, Item
<1>2. /\ t \in Seq(W)
      /\ Len(t) = Len(s) + 1
      /\ \A k \in 1 .. Len(s) : t[k] = s[k]
      /\ t[Len(s) + 1] = Item(q, v)
  <2> HIDE DEF W
  <2>1. QED
    BY <1>1, AppendProperties
<1>3. Len(s) \in Nat /\ Len(s) >= 1 /\ s[Len(s)] \in W
  <2> HIDE DEF W
  <2>1. Len(s) \in Nat /\ Len(s) # 0
    BY <1>1, LenProperties, EmptySeq DEF Path
  <2>2. QED
    BY <1>1, <2>1, ElementOfSeq
<1>4. Item(q, v).state = q /\ s[Len(s)].state \in At(Beneath, q)
  BY DEF Item, Last
<1>5. t # <<>> /\ t[1].state = 0
  BY <1>2, <1>3 DEF Path
<1>6. ASSUME NEW k \in 2 .. Len(t) PROVE t[k - 1].state \in At(Beneath, t[k].state)
  BY <1>2, <1>3, <1>4, <1>6 DEF Path
<1>7. ASSUME NEW k \in 1 .. Len(t) PROVE k <= At(Height, t[k].state)
  <2>1. CASE k <= Len(s)
    BY <1>2, <1>3, <2>1 DEF Path
  <2>2. CASE k = Len(s) + 1
    <3>1. t[k].state = q
      BY <1>2, <1>4, <2>2
    <3>2. Len(s) <= At(Height, s[Len(s)].state)
      BY <1>3 DEF Path
    <3>3. At(Height, q) \in Int /\ At(Height, s[Len(s)].state) \in Int
          /\ At(Height, s[Len(s)].state) + 1 <= At(Height, q)
      BY <1>4, HeightGrows
    <3>4. QED
      BY <1>3, <2>2, <3>1, <3>2, <3>3
  <2>3. QED
    BY <1>2, <1>3, <2>1, <2>2
<1>8. QED
  BY <1>2, <1>5, <1>6, <1>7 DEF Path

\* What is left of the stack when its top is popped is a path.
LEMMA PathPop ==
    ASSUME NEW V, NEW s \in Seq(Items(V)), Path(s), NEW n \in 1 .. Len(s)
    PROVE  /\ SubSeq(s, 1, n) \in Seq(Items(V)) /\ Path(SubSeq(s, 1, n))
           /\ Len(SubSeq(s, 1, n)) = n
           /\ \A k \in 1 .. n : SubSeq(s, 1, n)[k] = s[k]
<1>1. Len(s) \in Nat /\ \A k \in 1 .. n : s[k] \in Items(V)
  BY LenProperties, ElementOfSeq
<1>2. /\ SubSeq(s, 1, n) \in Seq(Items(V))
      /\ Len(SubSeq(s, 1, n)) = n
      /\ \A k \in 1 .. n : SubSeq(s, 1, n)[k] = s[k]
  BY <1>1, SubSeqProperties
<1>3. SubSeq(s, 1, n) # <<>>
  BY <1>2
<1>4. QED
  BY <1>1, <1>2, <1>3 DEF Path

\* Where a rule is reduced, its symbols lie on the stack, and the state below them
\* has a state for its left-hand side.
LEMMA ReducePath ==
    ASSUME NEW V, NEW s \in Seq(Items(V)), Path(s),
           NEW t, t = Last(s).state, At(yydefact, t) # 0, t # YYFINAL
    PROVE  /\ t \in States
           /\ Size(t) \in 1 .. Len(s) - 1
           /\ Leads(s[Len(s) - Size(t)].state, LeftSide(t))
<1> DEFINE n == Len(s)
<1>1. n \in Nat /\ n >= 1 /\ t = s[n].state /\ t \in States
  <2>1. n \in Nat /\ n # 0
    BY LenProperties, EmptySeq DEF Path
  <2>2. s[n] \in Items(V)
    BY <2>1, ElementOfSeq
  <2>3. QED
    BY <2>1, <2>2 DEF Last, Items
<1>2. \A k \in 2 .. n : s[k - 1].state \in At(Beneath, s[k].state)
  BY DEF Path
<1>3. \A k \in 1 .. n : s[k].state # 0 => k - 1 \in 1 .. n
  BY <1>1 DEF Path
<1>4. Size(t) \in 1 .. 4 /\ t # 0
  BY <1>1, GotoIsEdge
<1> HIDE DEF n
<1>5. n - 1 \in 1 .. n /\ s[n - 1].state \in At(Beneath, t)
  BY <1>1, <1>2, <1>3, <1>4
<1>6. CASE Size(t) = 1
  BY <1>1, <1>5, <1>6, GotoIsEdge DEF n
<1>7. CASE Size(t) > 1
  <2>1. s[n - 1].state # 0
    BY <1>1, <1>5, <1>7, GotoIsEdge
  <2>2. n - 2 \in 1 .. n /\ s[n - 2].state \in At(Beneath, s[n - 1].state)
    BY <1>1, <1>2, <1>3, <1>5, <2>1
  <2>3. CASE Size(t) = 2
    BY <1>1, <1>5, <2>2, <2>3, GotoIsEdge DEF n
  <2>4. CASE Size(t) > 2
    <3>1. s[n - 2].state # 0
      BY <1>1, <1>5, <2>2, <2>4, GotoIsEdge
    <3>2. n - 3 \in 1 .. n /\ s[n - 3].state \in At(Beneath, s[n - 2].state)
      BY <1>1, <1>2, <1>3, <2>2, <3>1
    <3>3. CASE Size(t) = 3
      BY <1>1, <1>5, <2>2, <3>2, <3>3, GotoIsEdge DEF n
    <3>4. CASE Size(t) = 4
      <4>1. s[n - 3].state # 0
        BY <1>1, <1>5, <2>2, <3>2, <3>4, GotoIsEdge
      <4>2. n - 4 \in 1 .. n /\ s[n - 4].state \in At(Beneath, s[n - 3].state)
        BY SMTT(30), <1>1, <1>2, <1>3, <3>2, <4>1
      <4>3. QED
        BY SMTT(30), <1>1, <1>5, <2>2, <3>2, <3>4, <4>2, GotoIsEdge DEF n
    <3>5. QED
      BY <1>4, <2>4, <3>3, <3>4
  <2>5. QED
    BY <1>4, <1>7, <2>3, <2>4
<1>8. QED
  BY <1>4, <1>6, <1>7

\* The lookahead is a token of the parser.
LEMMA TokenFacts ==
    ASSUME NEW ts, NEW t \in Reader!NextTokens(ts)
    PROVE  t.kind \in TokenKinds /\ t.kind # "YYEMPTY"
BY DEF Reader!NextTokens, Reader!Bare, Reader!Token, TokenKinds, Keywords

LEMMA TranslateFacts ==
    ASSUME NEW kind \in TokenKinds
    PROVE  YYTRANSLATE[kind] \in 0 .. YYNTOKENS - 1
BY DEF TokenKinds, Keywords, YYTRANSLATE, YYNTOKENS

LEMMA StackInvInit == Init => StackInv
<1> SUFFICES ASSUME Init PROVE StackInv
  OBVIOUS
<1>1. stack = << Item(0, 0) >> /\ yychar = "YYEMPTY"
  BY DEF Init
<1>2. stack \in Seq(Items({0})) /\ Len(stack) = 1 /\ stack[1].state = 0
  BY <1>1 DEF Items, Item, States, YYNSTATES
<1>3. Path(stack)
  BY <1>2, PathBottom
<1>4. QED
  BY <1>1, <1>2, <1>3 DEF StackInv, StackOK, Symbols

LEMMA ShiftFacts ==
    ASSUME StackInv, Shift
    PROVE  /\ yychar \in TokenKinds
           /\ Top \in States
           /\ ShiftTo(Top, YYTRANSLATE[yychar]) \in States
           /\ Top \in At(Beneath, ShiftTo(Top, YYTRANSLATE[yychar]))
           /\ At(yystos, ShiftTo(Top, YYTRANSLATE[yychar])) = YYTRANSLATE[yychar]
<1>1. yychar \in TokenKinds
  BY DEF StackInv, Symbols, Shift, Shifts
<1>2. Top \in States
  <2>1. PICK V : stack \in Seq(Items(V))
    BY DEF StackInv, StackOK
  <2>2. Len(stack) \in Nat /\ Len(stack) # 0
    BY <2>1, LenProperties, EmptySeq DEF StackInv, StackOK, Path
  <2>3. stack[Len(stack)] \in Items(V)
    BY <2>1, <2>2, ElementOfSeq
  <2>4. QED
    BY <2>3 DEF Top, Last, Items
<1>3. ShiftTo(Top, YYTRANSLATE[yychar]) # 0
  BY DEF Shift, Shifts
<1>4. QED
  BY <1>1, <1>2, <1>3, TranslateFacts, ShiftIsEdge

\* What Reduce pops and pushes.
LEMMA ReduceFacts ==
    ASSUME NEW V, stack \in Seq(Items(V)), Path(stack), Reduce
    PROVE  /\ Top \in States
           /\ Size(Top) \in 1 .. Len(stack) - 1
           /\ Leads(stack[Len(stack) - Size(Top)].state, LeftSide(Top))
           /\ \E v : stack' = Append(SubSeq(stack, 1, Len(stack) - Size(Top)),
                                     Item(Goto(stack[Len(stack) - Size(Top)].state,
                                               LeftSide(Top)), v))
<1>1. Top = Last(stack).state /\ At(yydefact, Top) # 0 /\ Top # YYFINAL
  BY DEF Top, Reduce, Default, Parsing
<1>2. /\ Top \in States
      /\ Size(Top) \in 1 .. Len(stack) - 1
      /\ Leads(stack[Len(stack) - Size(Top)].state, LeftSide(Top))
  BY <1>1, ReducePath
<1>3. \E v : stack' = Append(SubSeq(stack, 1, Len(stack) - Size(Top)),
                             Item(Goto(stack[Len(stack) - Size(Top)].state,
                                       LeftSide(Top)), v))
  BY DEF Reduce, Size, LeftSide, Default
<1>4. QED
  BY <1>2, <1>3

LEMMA StackInvNext == StackInv /\ [Next]_parserVars => StackInv'
<1> SUFFICES ASSUME StackInv, [Next]_parserVars PROVE StackInv'
  OBVIOUS
<1>0. PICK V : stack \in Seq(Items(V))
  BY DEF StackInv, StackOK
<1>1. Path(stack) /\ yychar \in Symbols /\ Len(stack) \in Nat /\ Len(stack) >= 1
  <2>1. Path(stack) /\ yychar \in Symbols
    BY DEF StackInv, StackOK
  <2>2. QED
    BY <1>0, <2>1, LenProperties, EmptySeq DEF Path
<1>2. CASE Yylex
  <2>1. yychar' \in Symbols
    BY <1>2, TokenFacts DEF Yylex, Symbols
  <2>2. QED
    BY <1>2, <2>1 DEF Yylex, StackInv, StackOK
<1>3. CASE Shift
  <2>1. stack' = Append(stack, Item(ShiftTo(Top, YYTRANSLATE[yychar]), yylval))
        /\ yychar' = "YYEMPTY"
    BY <1>3 DEF Shift
  <2>2. StackOK'
    BY <1>0, <1>1, <1>3, <2>1, ShiftFacts, PathPush DEF StackOK, Top
  <2>3. QED
    BY <2>1, <2>2 DEF StackInv, Symbols
<1>4. CASE Reduce
  <2> DEFINE left == Len(stack) - Size(Top)
  <2> DEFINE s == SubSeq(stack, 1, left)
  <2>1. /\ left \in 1 .. Len(stack)
        /\ Leads(stack[left].state, LeftSide(Top))
    BY <1>0, <1>1, <1>4, ReduceFacts
  <2>2. PICK v : stack' = Append(s, Item(Goto(stack[left].state, LeftSide(Top)), v))
    BY <1>0, <1>1, <1>4, ReduceFacts
  <2>3. s \in Seq(Items(V)) /\ Path(s) /\ Last(s) = stack[left]
    <3> HIDE DEF left
    <3>1. QED
      BY <1>0, <1>1, <2>1, PathPop DEF Last
  <2> HIDE DEF s, left
  <2>4. StackOK'
    BY <2>1, <2>2, <2>3, PathPush DEF StackOK, Leads
  <2>5. QED
    BY <1>1, <1>4, <2>4 DEF StackInv, Reduce
<1>5. CASE Pop
  <2>1. stack' = SubSeq(stack, 1, Len(stack) - 1) /\ Len(stack) - 1 \in 1 .. Len(stack)
    BY <1>1, <1>5 DEF Pop, Front
  <2>2. StackOK'
    BY <1>0, <1>1, <2>1, PathPop DEF StackOK
  <2>3. QED
    BY <1>1, <1>5, <2>2 DEF StackInv, Pop
<1>6. CASE Accept
  <2>1. stack' = << stack[1] >> /\ stack[1] \in Items(V) /\ stack[1].state = 0
    BY <1>0, <1>1, <1>6, ElementOfSeq DEF Accept, Path
  <2>2. stack' \in Seq(Items(V)) /\ Len(stack') = 1 /\ stack'[1].state = 0
    BY <2>1
  <2>3. Path(stack')
    BY <2>2, PathBottom
  <2>4. StackOK'
    BY <2>2, <2>3 DEF StackOK
  <2>5. QED
    BY <1>1, <1>6, <2>4 DEF StackInv, Accept
<1>7. CASE Abort
  BY <1>7 DEF Abort, StackInv, StackOK, Symbols
<1>8. CASE SyntaxError \/ Returned \/ UNCHANGED parserVars
  BY <1>8 DEF SyntaxError, Returned, parserVars, StackInv, StackOK
<1>9. QED
  BY <1>2, <1>3, <1>4, <1>5, <1>6, <1>7, <1>8 DEF Next, ParserNext

\* However long a file is, right or wrong, the stack of yyparse never holds more
\* than MaxDepth entries.
THEOREM StackStaysSmall == ParserSpec => []StackBounded
<1>1. StackInv => StackBounded
  <2> SUFFICES ASSUME StackInv PROVE Len(stack) <= MaxDepth
    BY DEF StackBounded
  <2>0. PICK V : stack \in Seq(Items(V))
    BY DEF StackInv, StackOK
  <2>1. Path(stack) /\ Len(stack) \in Nat /\ Len(stack) # 0
    BY <2>0, LenProperties, EmptySeq DEF StackInv, StackOK, Path
  <2>2. stack[Len(stack)].state \in States
    <3>1. stack[Len(stack)] \in Items(V)
      BY <2>0, <2>1, ElementOfSeq
    <3>2. QED
      BY <3>1 DEF Items
  <2>3. Len(stack) <= At(Height, stack[Len(stack)].state)
    BY <2>1 DEF Path
  <2>4. At(Height, stack[Len(stack)].state) \in 1 .. MaxDepth
    BY <2>2, HeightGrows
  <2>5. QED
    BY <2>1, <2>3, <2>4 DEF MaxDepth
<1>2. QED
  BY <1>1, StackInvInit, StackInvNext, PTL DEF ParserSpec

-----------------------------------------------------------------------------
(***************************************************************************)
(* The strings.  Owns says of each place that may own the string of token i *)
(* whether it does, Single that there is one such place.                   *)
(***************************************************************************)

IsValue(state) == At(yystos, state) = YYSYMBOL_VALUE

Owns(place, k, i) ==
    \/ place = "lookahead" /\ k = 0 /\ yychar = "VALUE" /\ yylval = i
    \/ place = "stack" /\ k \in DOMAIN stack /\ IsValue(stack[k].state) /\ stack[k].value = i
    \/ place = "node" /\ k \in DOMAIN kept /\ kept[k] = i
    \/ place = "free" /\ k \in DOMAIN freed /\ freed[k] = i

Single(i) == \E place, k : /\ Owns(place, k, i)
                           /\ \A other, l : Owns(other, l, i) => other = place /\ l = k

StringsInv ==
    /\ StackInv
    /\ \E T : tokens \in Seq([kind : TokenKinds, text : T])
    /\ yychar = "VALUE" => yylval \in Words
    /\ \A k \in DOMAIN stack : IsValue(stack[k].state) => stack[k].value \in Words
    /\ kept \in Seq(Words) /\ freed \in Seq(Words)
    /\ \A i \in Words : Single(i)

\* The strings each rule stores.
LEMMA StoresOf ==
    ASSUME NEW t \in States
    PROVE  Stores(At(yydefact, t)) = IF t \in {8, 9, 16, 20} THEN <<2>>
                                     ELSE IF t \in {13, 18, 22, 23} THEN <<2, 3>> ELSE <<>>
<1>1. ASSUME t \in {8, 9, 16, 20} PROVE At(yydefact, t) \in {4, 8, 10, 15}
  BY <1>1 DEF At, yydefact
<1>2. ASSUME t \in {13, 18, 22, 23} PROVE At(yydefact, t) \in {9, 11, 14, 16}
  BY <1>2 DEF At, yydefact
<1>3. ASSUME t \notin {8, 9, 16, 20, 13, 18, 22, 23}
      PROVE  At(yydefact, t) \notin {4, 8, 10, 15, 9, 11, 14, 16}
  BY <1>3 DEF At, yydefact, States, YYNSTATES
<1>4. QED
  BY <1>1, <1>2, <1>3 DEF Stores

\* No rule stores a string twice.
LEMMA StoredOnce ==
    ASSUME NEW t \in States
    PROVE  /\ Stores(At(yydefact, t)) \in Seq(2 .. 3)
           /\ \A k, l \in DOMAIN Stores(At(yydefact, t)) :
                 Stores(At(yydefact, t))[k] = Stores(At(yydefact, t))[l] => k = l
           /\ Stored(t) = IF t \in {8, 9, 16, 20} THEN {2}
                          ELSE IF t \in {13, 18, 22, 23} THEN {2, 3} ELSE {}
<1> DEFINE s == Stores(At(yydefact, t))
<1>1. CASE t \in {8, 9, 16, 20}
  <2>1. s = <<2>>
    BY <1>1, StoresOf
  <2>2. QED
    BY <1>1, <2>1 DEF Stored, Range
<1>2. CASE t \in {13, 18, 22, 23}
  <2>1. s = <<2, 3>>
    BY <1>2, StoresOf
  <2>2. QED
    BY <1>2, <2>1 DEF Stored, Range
<1>3. CASE t \notin {8, 9, 16, 20, 13, 18, 22, 23}
  <2>1. s = <<>>
    BY <1>3, StoresOf
  <2>2. QED
    BY <1>3, <2>1 DEF Stored, Range
<1>4. QED
  BY <1>1, <1>2, <1>3

\* The strings a rule stores are among its symbols.
LEMMA StoredInRule ==
    ASSUME NEW t \in States, At(yydefact, t) # 0, t # YYFINAL
    PROVE  Stored(t) \subseteq 1 .. Size(t)
<1>1. CASE t \in {8, 9, 16, 20}
  <2>1. Stored(t) = {2}
    BY <1>1, StoredOnce
  <2>2. Size(t) \in 2 .. 4
    BY <1>1, RuleFacts
  <2>3. QED
    BY <2>1, <2>2
<1>2. CASE t \in {13, 18, 22, 23}
  <2>1. Stored(t) = {2, 3}
    BY <1>2, StoredOnce
  <2>2. Size(t) \in 3 .. 4
    BY <1>2, RuleFacts
  <2>3. QED
    BY <2>1, <2>2
<1>3. QED
  BY <1>1, <1>2, StoredOnce

\* The states in which a VALUE has just been shifted.
LEMMA ValueStates ==
    ASSUME NEW t \in States
    PROVE  IsValue(t) <=> t \in {8, 9, 13, 19, 20, 22, 23}
BY DEF IsValue, YYSYMBOL_VALUE, At, yystos, States, YYNSTATES

\* The symbols of a rule that are strings are those that its action stores in nodes.
LEMMA StoresFacts ==
    ASSUME NEW t \in States, At(yydefact, t) # 0, t # YYFINAL
    PROVE  /\ IsValue(t) <=> Size(t) \in Stored(t)
           /\ \A p \in At(Beneath, t) :
              /\ Size(t) > 1 => (IsValue(p) <=> Size(t) - 1 \in Stored(t))
              /\ \A q \in At(Beneath, p) :
                 /\ Size(t) > 2 => (IsValue(q) <=> Size(t) - 2 \in Stored(t))
                 /\ \A r \in At(Beneath, q) :
                       Size(t) > 3 => (IsValue(r) <=> Size(t) - 3 \in Stored(t))
<1>1. \A q \in States : \A p \in At(Beneath, q) : p \in States
  BY HeightGrows
<1>2. Stored(t) = IF t \in {8, 9, 16, 20} THEN {2}
                  ELSE IF t \in {13, 18, 22, 23} THEN {2, 3} ELSE {}
  BY StoredOnce
<1>3. CASE Size(t) = 1
  BY <1>2, <1>3, RuleFacts, ValueStates
<1>4. CASE Size(t) = 2
  <2>1. t \in {8, 9, 11, 12, 20, 21}
    BY <1>4, RuleFacts
  <2>2. QED
    BY <1>1, <1>2, <1>4, <2>1, ValueStates DEF At, Beneath
<1>5. CASE Size(t) = 3
  <2>1. t \in {13, 16, 22, 23}
    BY <1>5, RuleFacts
  <2>2. QED
    BY <1>1, <1>2, <1>5, <2>1, ValueStates DEF At, Beneath
<1>6. CASE Size(t) = 4
  <2>1. t = 18
    BY <1>6, RuleFacts
  <2>2. QED
    BY <1>1, <1>2, <1>6, <2>1, ValueStates DEF At, Beneath
<1>7. QED
  BY <1>3, <1>4, <1>5, <1>6, GotoIsEdge

\* The strings on the stack that a rule pops are those it stores.
LEMMA RuleStrings ==
    ASSUME NEW V, NEW s \in Seq(Items(V)), Path(s),
           NEW t, t = Last(s).state, At(yydefact, t) # 0, t # YYFINAL
    PROVE  \A j \in 1 .. Size(t) :
              IsValue(s[Len(s) - Size(t) + j].state) <=> j \in Stored(t)
<1> DEFINE n == Len(s)
<1>1. n \in Nat /\ t \in States /\ t = s[n].state /\ Size(t) \in 1 .. n - 1 /\ Size(t) \in 1 .. 4
  BY LenProperties, ReducePath, GotoIsEdge DEF Last
<1>2. \A k \in 2 .. n : s[k - 1].state \in At(Beneath, s[k].state)
  BY DEF Path
<1> HIDE DEF n
<1>3. s[n - 1].state \in At(Beneath, t)
  BY <1>1, <1>2
<1>4. Size(t) > 1 => s[n - 2].state \in At(Beneath, s[n - 1].state)
  BY <1>1, <1>2
<1>5. Size(t) > 2 => s[n - 3].state \in At(Beneath, s[n - 2].state)
  BY <1>1, <1>2
<1>6. /\ IsValue(s[n].state) <=> Size(t) \in Stored(t)
      /\ Size(t) > 1 => (IsValue(s[n - 1].state) <=> Size(t) - 1 \in Stored(t))
      /\ Size(t) > 2 => (IsValue(s[n - 2].state) <=> Size(t) - 2 \in Stored(t))
      /\ Size(t) > 3 => (IsValue(s[n - 3].state) <=> Size(t) - 3 \in Stored(t))
  BY <1>1, <1>3, <1>4, <1>5, StoresFacts
<1>7. ASSUME NEW j \in 1 .. Size(t)
      PROVE  IsValue(s[n - Size(t) + j].state) <=> j \in Stored(t)
  <2>1. CASE j = Size(t)
    <3>1. n - Size(t) + j = n
      BY <1>1, <2>1
    <3>2. QED
      BY <1>6, <2>1, <3>1
  <2>2. CASE j = Size(t) - 1
    <3>1. n - Size(t) + j = n - 1 /\ Size(t) > 1
      BY <1>1, <1>7, <2>2
    <3>2. QED
      BY <1>6, <2>2, <3>1
  <2>3. CASE j = Size(t) - 2
    <3>1. n - Size(t) + j = n - 2 /\ Size(t) > 2
      BY <1>1, <1>7, <2>3
    <3>2. QED
      BY <1>6, <2>3, <3>1
  <2>4. CASE j = Size(t) - 3
    <3>1. n - Size(t) + j = n - 3 /\ Size(t) > 3
      BY <1>1, <1>7, <2>4
    <3>2. QED
      BY <1>6, <2>4, <3>1
  <2>5. j = Size(t) \/ j = Size(t) - 1 \/ j = Size(t) - 2 \/ j = Size(t) - 3
    BY <1>1, <1>7
  <2>6. QED
    BY <2>1, <2>2, <2>3, <2>4, <2>5
<1>8. QED
  BY <1>7 DEF n

\* The stack of a file that has been read: the root and the end of the file.
LEMMA FinalStack ==
    ASSUME NEW V, NEW s \in Seq(Items(V)), Path(s), Last(s).state = YYFINAL
    PROVE  Len(s) = 3 /\ \A k \in 1 .. 3 : ~IsValue(s[k].state)
<1> DEFINE n == Len(s)
<1>1. n \in Nat /\ n # 0 /\ s[n].state = 10
  BY LenProperties, EmptySeq DEF Last, Path, YYFINAL
<1>2. \A k \in 2 .. n : s[k - 1].state \in At(Beneath, s[k].state)
  BY DEF Path
<1>3. s[1].state = 0
  BY DEF Path
<1> HIDE DEF n
<1>4. At(Beneath, 10) = {3} /\ At(Beneath, 3) = {0} /\ At(Beneath, 0) = {}
  BY DEF At, Beneath
<1>5. n > 1 /\ s[n - 1].state = 3
  BY <1>1, <1>2, <1>3, <1>4
<1>6. n > 2 /\ s[n - 2].state = 0
  <2>1. n - 1 \in 2 .. n
    BY <1>1, <1>3, <1>5
  <2>2. s[(n - 1) - 1].state \in At(Beneath, s[n - 1].state)
    BY <1>2, <2>1
  <2>3. QED
    BY <1>1, <1>4, <1>5, <2>1, <2>2
<1>7. n = 3
  <2>1. ASSUME n # 3 PROVE FALSE
    <3>1. n - 2 \in 2 .. n
      BY <1>1, <1>6, <2>1
    <3>2. s[(n - 2) - 1].state \in At(Beneath, s[n - 2].state)
      BY <1>2, <3>1
    <3>3. QED
      BY <1>4, <1>6, <3>2
  <2>2. QED
    BY <2>1
<1>8. ~IsValue(0) /\ ~IsValue(3) /\ ~IsValue(10)
  BY ValueStates DEF States, YYNSTATES
<1>9. QED
  BY <1>1, <1>3, <1>5, <1>7, <1>8 DEF n

-----------------------------------------------------------------------------

\* What StringsInv says of types, for the steps below.
LEMMA StringsTyped ==
    ASSUME StringsInv
    PROVE  /\ Len(tokens) \in Nat /\ Words \subseteq 1 .. Len(tokens)
           /\ \E V : stack \in Seq(Items(V))
           /\ Path(stack)
           /\ Len(stack) \in Nat /\ Len(stack) >= 1 /\ DOMAIN stack = 1 .. Len(stack)
           /\ \A k \in DOMAIN stack : stack[k].state \in States
           /\ Len(kept) \in Nat /\ DOMAIN kept = 1 .. Len(kept)
           /\ Len(freed) \in Nat /\ DOMAIN freed = 1 .. Len(freed)
           /\ \A k \in DOMAIN kept : kept[k] \in Words
           /\ \A k \in DOMAIN freed : freed[k] \in Words
<1>1. Len(tokens) \in Nat /\ Words \subseteq 1 .. Len(tokens)
  <2>1. PICK T : tokens \in Seq([kind : TokenKinds, text : T])
    BY DEF StringsInv
  <2>2. QED
    BY <2>1, LenProperties DEF Words
<1>2. PICK V : stack \in Seq(Items(V))
  BY DEF StringsInv, StackInv, StackOK
<1>3. Path(stack)
  BY DEF StringsInv, StackInv, StackOK
<1>4. Len(stack) \in Nat /\ Len(stack) # 0 /\ DOMAIN stack = 1 .. Len(stack)
  BY <1>2, <1>3, LenProperties, EmptySeq DEF Path
<1>5. \A k \in DOMAIN stack : stack[k].state \in States
  <2>1. \A k \in DOMAIN stack : stack[k] \in Items(V)
    BY <1>2, <1>4, ElementOfSeq
  <2>2. QED
    BY <2>1 DEF Items
<1>6. kept \in Seq(Words) /\ freed \in Seq(Words)
  BY DEF StringsInv
<1>7. /\ Len(kept) \in Nat /\ DOMAIN kept = 1 .. Len(kept)
      /\ Len(freed) \in Nat /\ DOMAIN freed = 1 .. Len(freed)
      /\ \A k \in DOMAIN kept : kept[k] \in Words
      /\ \A k \in DOMAIN freed : freed[k] \in Words
  BY <1>6, LenProperties, ElementOfSeq
<1>8. QED
  BY <1>1, <1>2, <1>3, <1>4, <1>5, <1>7

\* A string that stays where it is has one owner.
LEMMA Stays ==
    ASSUME NEW i, Single(i), \A place, k : Owns(place, k, i)' <=> Owns(place, k, i)
    PROVE  Single(i)'
BY DEF Single

\* So has one that is moved to a place.
LEMMA Moves ==
    ASSUME NEW i, NEW to, NEW m,
           \A place, k : Owns(place, k, i)' <=> place = to /\ k = m
    PROVE  Single(i)'
BY DEF Single

\* Who owns a string is the only one who does.
LEMMA OneOwner ==
    ASSUME NEW i, Single(i), NEW place, NEW k, Owns(place, k, i)
    PROVE  \A other, l : Owns(other, l, i) => other = place /\ l = k
BY DEF Single

LEMMA StringsYylex ==
    ASSUME StringsInv, Yylex, StackInv'
    PROVE  StringsInv'
<1>1. PICK t \in Reader!NextTokens(tokens) :
         /\ tokens' = Append(tokens, t)
         /\ yychar' = t.kind
         /\ yylval' = IF t.kind = "VALUE" THEN Len(tokens) + 1 ELSE yylval
  BY DEF Yylex
<1>2. UNCHANGED <<stack, kept, freed>> /\ yychar = "YYEMPTY"
  BY DEF Yylex, Decided
<1>3. t \in [kind : TokenKinds, text : {t.text}]
  BY DEF Reader!NextTokens, Reader!Bare, Reader!Token, TokenKinds, Keywords
<1>4. PICK T : tokens \in Seq([kind : TokenKinds, text : T])
  BY DEF StringsInv
<1> DEFINE Toks == [kind : TokenKinds, text : T \cup {t.text}]
<1>5. tokens \in Seq(Toks) /\ t \in Toks
  <2>1. Seq([kind : TokenKinds, text : T]) \subseteq Seq(Toks)
    BY SeqMonotonic
  <2>2. QED
    BY <1>3, <1>4, <2>1
<1>6. /\ tokens' \in Seq(Toks)
      /\ Len(tokens') = Len(tokens) + 1
      /\ \A k \in 1 .. Len(tokens) : tokens'[k] = tokens[k]
      /\ tokens'[Len(tokens) + 1] = t
  <2> HIDE DEF Toks
  <2>1. QED
    BY <1>1, <1>5, AppendProperties
<1>7. /\ Words \subseteq Words'
      /\ \A i \in Words' : i \notin Words => i = Len(tokens) + 1 /\ t.kind = "VALUE"
      /\ t.kind = "VALUE" => Len(tokens) + 1 \in Words'
      /\ Words \subseteq 1 .. Len(tokens) /\ Len(tokens) \in Nat
  <2>1. /\ Len(tokens) \in Nat
        /\ DOMAIN tokens = 1 .. Len(tokens) /\ DOMAIN tokens' = 1 .. Len(tokens) + 1
    <3> HIDE DEF Toks
    <3>1. QED
      BY <1>5, <1>6, LenProperties
  <2> HIDE DEF Toks
  <2>2. QED
    BY <1>6, <2>1 DEF Words
<1> HIDE DEF Toks
<1>8. ASSUME NEW i \in Words' PROVE Single(i)'
  <2>1. CASE i \in Words
    <3>1. i # Len(tokens) + 1
      BY <1>7, <2>1
    <3>2. \A place, k : Owns(place, k, i)' <=> Owns(place, k, i)
      BY <1>1, <1>2, <3>1 DEF Owns, IsValue
    <3>3. Single(i)
      BY <2>1 DEF StringsInv
    <3>4. QED
      BY <3>2, <3>3, Stays
  <2>2. CASE i \notin Words
    <3>1. i = Len(tokens) + 1 /\ t.kind = "VALUE"
      BY <1>7, <2>2
    <3>2. \A place, k : ~Owns(place, k, i)
      <4>1. /\ \A k \in DOMAIN kept : kept[k] \in Words
            /\ \A k \in DOMAIN freed : freed[k] \in Words
            /\ \A k \in DOMAIN stack : IsValue(stack[k].state) => stack[k].value \in Words
        BY StringsTyped DEF StringsInv
      <4>2. QED
        BY <1>2, <2>2, <4>1 DEF Owns
    <3>3. \A place, k : Owns(place, k, i)' <=> place = "lookahead" /\ k = 0
      BY <1>1, <1>2, <3>1, <3>2 DEF Owns, IsValue
    <3>4. QED
      BY <3>3, Moves
  <2>3. QED
    BY <2>1, <2>2
<1>9. \A k \in DOMAIN stack' : IsValue(stack[k].state)' => stack'[k].value \in Words'
  BY <1>2, <1>7 DEF StringsInv, IsValue
<1>10. kept' \in Seq(Words') /\ freed' \in Seq(Words')
  <2>1. Seq(Words) \subseteq Seq(Words')
    BY <1>7, SeqMonotonic
  <2>2. QED
    BY <1>2, <2>1 DEF StringsInv
<1>11. yychar' = "VALUE" => yylval' \in Words'
  BY <1>1, <1>7
<1>12. \E W : tokens' \in Seq([kind : TokenKinds, text : W])
  BY <1>6 DEF Toks
<1>13. QED
  BY <1>8, <1>9, <1>10, <1>11, <1>12 DEF StringsInv

\* The parts of StringsInv that no other action disturbs.
LEMMA SameTokens ==
    ASSUME StringsInv, UNCHANGED tokens
    PROVE  Words' = Words /\ (\E T : tokens \in Seq([kind : TokenKinds, text : T]))'
BY DEF StringsInv, Words

LEMMA StringsShift ==
    ASSUME StringsInv, Shift, StackInv'
    PROVE  StringsInv'
<1> DEFINE q == ShiftTo(Top, YYTRANSLATE[yychar])
<1>1. /\ stack' = Append(stack, Item(q, yylval))
      /\ yychar' = "YYEMPTY"
      /\ UNCHANGED <<tokens, yylval, kept, freed>>
  BY DEF Shift
<1>2. PICK V : stack \in Seq(Items(V))
  BY StringsTyped
<1>3. yychar \in TokenKinds /\ q \in States /\ At(yystos, q) = YYTRANSLATE[yychar]
  BY ShiftFacts DEF StringsInv
<1>4. IsValue(q) <=> yychar = "VALUE"
  BY <1>3 DEF IsValue, YYTRANSLATE, YYSYMBOL_VALUE, TokenKinds, Keywords
<1> HIDE DEF q
<1>5. /\ DOMAIN stack = 1 .. Len(stack) /\ DOMAIN stack' = 1 .. Len(stack) + 1
      /\ Len(stack) \in Nat
      /\ \A k \in 1 .. Len(stack) : stack'[k] = stack[k]
      /\ stack'[Len(stack) + 1].state = q /\ stack'[Len(stack) + 1].value = yylval
  <2> DEFINE W == Items(V \cup {yylval})
  <2>1. stack \in Seq(W) /\ Item(q, yylval) \in W
    <3>1. Seq(Items(V)) \subseteq Seq(W)
      BY SeqMonotonic DEF Items
    <3>2. QED
      BY <1>2, <1>3, <3>1 DEF Items, Item
  <2>2. Item(q, yylval).state = q /\ Item(q, yylval).value = yylval
    BY DEF Item
  <2> HIDE DEF W
  <2>3. QED
    BY <1>1, <2>1, <2>2, AppendProperties, LenProperties
<1>6. ASSUME NEW i \in Words PROVE Single(i)'
  <2>0. Single(i)
    BY DEF StringsInv
  <2>1. CASE yychar = "VALUE" /\ yylval = i
    <3>1. Owns("lookahead", 0, i)
      BY <2>1 DEF Owns
    <3>2. \A place, k : Owns(place, k, i) => place = "lookahead" /\ k = 0
      BY <2>0, <3>1, OneOwner
    <3>3. PICK m : m = Len(stack) + 1
      OBVIOUS
    <3>4. Owns("stack", m, i)'
      BY <1>4, <1>5, <2>1, <3>3 DEF Owns, IsValue
    <3>5. ASSUME NEW place, NEW k, Owns(place, k, i)' PROVE place = "stack" /\ k = m
      <4>1. ~Owns("node", k, i) /\ ~Owns("free", k, i) /\ ~Owns("stack", k, i)
        BY <3>2
      <4>2. QED
        BY <1>1, <1>5, <3>3, <3>5, <4>1 DEF Owns, IsValue
    <3>6. QED
      BY <3>4, <3>5 DEF Single
  <2>2. CASE ~(yychar = "VALUE" /\ yylval = i)
    <3>1. \A place, k : Owns(place, k, i)' <=> Owns(place, k, i)
      BY <1>1, <1>4, <1>5, <2>2 DEF Owns, IsValue
    <3>2. QED
      BY <2>0, <3>1, Stays
  <2>3. QED
    BY <2>1, <2>2
<1>7. \A k \in DOMAIN stack' : IsValue(stack'[k].state) => stack'[k].value \in Words
  BY SMTT(30), <1>4, <1>5 DEF StringsInv
<1>8. QED
  BY <1>1, <1>6, <1>7, SameTokens DEF StringsInv, IsValue

LEMMA StringsReduce ==
    ASSUME StringsInv, Reduce, StackInv'
    PROVE  StringsInv'
<1> DEFINE n == Len(stack)
<1> DEFINE left == n - Size(Top)
<1> DEFINE q == Goto(stack[left].state, LeftSide(Top))
<1> DEFINE stores == Stores(At(yydefact, Top))
<1> DEFINE moved == [m \in DOMAIN stores |-> stack[left + stores[m]].value]
<1>1. UNCHANGED <<tokens, yychar, yylval, freed>>
  BY DEF Reduce
<1>2. PICK V : stack \in Seq(Items(V)) /\ Path(stack)
  BY StringsTyped
<1>3. /\ Top \in States /\ Size(Top) \in 1 .. n - 1
      /\ Leads(stack[left].state, LeftSide(Top))
      /\ Top = Last(stack).state /\ At(yydefact, Top) # 0 /\ Top # YYFINAL
  BY <1>2, ReduceFacts DEF Top, Reduce, Default, Parsing
<1>4. n \in Nat /\ left \in 1 .. n /\ left < n /\ Size(Top) = n - left
      /\ \A k \in 1 .. n : stack[k] \in Items(V)
  BY <1>2, <1>3, LenProperties, ElementOfSeq
<1>5. PICK v : stack' = Append(SubSeq(stack, 1, left), Item(q, v))
  BY <1>2, ReduceFacts
<1>6. \A j \in 1 .. Size(Top) : IsValue(stack[left + j].state) <=> j \in Range(stores)
  BY <1>2, <1>3, RuleStrings DEF Stored
<1>7. /\ stores \in Seq(2 .. 3)
      /\ \A k, l \in DOMAIN stores : stores[k] = stores[l] => k = l
  BY <1>3, StoredOnce
<1>8. ~IsValue(q)
  BY SMTT(30), <1>3, RuleFacts DEF Leads, IsValue, YYSYMBOL_VALUE
<1>9. kept' = kept \o moved
  <2>1. \A m \in DOMAIN stores : stores[m] \in 1 .. Size(Top)
    <3>1. \A j \in Stored(Top) : j \in 1 .. Size(Top)
      BY <1>3, StoredInRule
    <3>2. QED
      BY <3>1 DEF Stored, Range
  <2> DEFINE top == SubSeq(stack, left + 1, n)
  <2> DEFINE rhs == SeqMap(LAMBDA item : item.value, top)
  <2>2. /\ DOMAIN top = 1 .. Size(Top)
        /\ \A j \in 1 .. Size(Top) : top[j] = stack[left + j]
    <3> HIDE DEF left, n
    <3>1. /\ SubSeq(stack, left + 1, n) \in Seq(Items(V))
          /\ Len(SubSeq(stack, left + 1, n)) = n - left
          /\ \A j \in 1 .. n - left : SubSeq(stack, left + 1, n)[j] = stack[left + j]
      BY <1>4, SubSeqProperties
    <3>2. QED
      BY <1>4, <3>1, LenProperties
  <2>3. \A j \in 1 .. Size(Top) : rhs[j] = stack[left + j].value
    <3> HIDE DEF left, n, top
    <3>1. QED
      BY <2>2 DEF SeqMap
  <2>4. kept' = kept \o [m \in DOMAIN stores |-> rhs[stores[m]]]
    BY DEF Reduce, SeqMap, Size, Default
  <2> HIDE DEF rhs
  <2>5. [m \in DOMAIN stores |-> rhs[stores[m]]] = moved
    BY <2>1, <2>3
  <2>6. QED
    BY <2>4, <2>5
<1>10. /\ DOMAIN stack' = 1 .. left + 1
       /\ \A k \in 1 .. left : stack'[k] = stack[k]
       /\ stack'[left + 1].state = q
  <2> DEFINE rest == SubSeq(stack, 1, left)
  <2> DEFINE W == Items(V \cup {v})
  <2> HIDE DEF left
  <2>1. rest \in Seq(Items(V)) /\ Len(rest) = left /\ \A k \in 1 .. left : rest[k] = stack[k]
    BY <1>2, <1>4, PathPop
  <2>2. rest \in Seq(W) /\ Item(q, v) \in W
    <3>1. Seq(Items(V)) \subseteq Seq(W)
      BY SeqMonotonic DEF Items
    <3>2. QED
      BY <1>3, <2>1, <3>1 DEF Items, Item, Leads
  <2>3. Item(q, v).state = q
    BY DEF Item
  <2> HIDE DEF W, rest, q
  <2>4. QED
    BY <1>5, <2>1, <2>2, <2>3, AppendProperties, LenProperties DEF rest
<1>11. /\ \A m \in DOMAIN stores : left + stores[m] \in left + 1 .. n
       /\ \A m \in DOMAIN stores : IsValue(stack[left + stores[m]].state)
  <2>1. ASSUME NEW m \in DOMAIN stores
        PROVE  left + stores[m] \in left + 1 .. n /\ IsValue(stack[left + stores[m]].state)
    <3>1. stores[m] \in Range(stores) /\ stores[m] \in 1 .. Size(Top)
      BY <1>3, StoredInRule DEF Stored, Range
    <3>2. IsValue(stack[left + stores[m]].state)
      BY <1>6, <3>1
    <3> HIDE DEF left, n, stores
    <3>3. QED
      BY <1>4, <3>1, <3>2
  <2>2. QED
    BY <2>1
<1>12. /\ moved \in Seq(Words) /\ Len(moved) = Len(stores) /\ DOMAIN stores = 1 .. Len(stores)
       /\ Len(stores) \in Nat
  <2>1. DOMAIN stores = 1 .. Len(stores) /\ Len(stores) \in Nat
    BY <1>7, LenProperties
  <2>2. \A m \in DOMAIN stores : stack[left + stores[m]].value \in Words
    BY <1>4, <1>11, StringsTyped DEF StringsInv
  <2>3. QED
    BY <2>1, <2>2
<1>13. /\ kept \in Seq(Words) /\ Len(kept) \in Nat /\ DOMAIN kept = 1 .. Len(kept)
       /\ kept' \in Seq(Words) /\ DOMAIN kept' = 1 .. Len(kept) + Len(stores)
       /\ \A k \in 1 .. Len(kept) : kept'[k] = kept[k]
       /\ \A m \in DOMAIN stores : kept'[Len(kept) + m] = stack[left + stores[m]].value
  <2>1. kept \in Seq(Words) /\ Len(kept) \in Nat /\ DOMAIN kept = 1 .. Len(kept)
    BY StringsTyped DEF StringsInv
  <2>2. \A m \in DOMAIN stores : moved[m] = stack[left + stores[m]].value
    OBVIOUS
  <2> HIDE DEF moved, stores
  <2>3. /\ kept' \in Seq(Words) /\ DOMAIN kept' = 1 .. Len(kept) + Len(moved)
        /\ \A k \in 1 .. Len(kept) : kept'[k] = kept[k]
        /\ \A m \in 1 .. Len(moved) : kept'[Len(kept) + m] = moved[m]
    BY SMTT(30), <1>9, <1>12, <2>1, Joined
  <2>4. QED
    BY <1>12, <2>1, <2>2, <2>3
<1> HIDE DEF moved, stores, q, left, n
<1>14. DOMAIN stack = 1 .. n
  BY StringsTyped DEF n
<1>15. ASSUME NEW i \in Words PROVE Single(i)'
  <2>0. Single(i)
    BY DEF StringsInv
  <2>1. \A m \in DOMAIN stores : kept'[Len(kept) + m] = i => Owns("stack", left + stores[m], i)
    BY <1>4, <1>11, <1>13, <1>14 DEF Owns
  <2>2. CASE \E k \in left + 1 .. n : Owns("stack", k, i)
    <3>1. PICK k \in left + 1 .. n : Owns("stack", k, i)
      BY <2>2
    <3>2. \A other, l : Owns(other, l, i) => other = "stack" /\ l = k
      BY <2>0, <3>1, OneOwner
    <3>3. PICK m \in DOMAIN stores : left + stores[m] = k
      <4>1. k - left \in 1 .. Size(Top) /\ left + (k - left) = k
        BY <1>4
      <4>2. IsValue(stack[k].state)
        BY <3>1 DEF Owns
      <4>3. k - left \in Range(stores)
        BY <1>6, <4>1, <4>2
      <4>4. PICK m \in DOMAIN stores : stores[m] = k - left
        BY <4>3 DEF Range
      <4>5. QED
        BY <4>1, <4>4
    <3>4. PICK to : to = Len(kept) + m
      OBVIOUS
    <3>5. Owns("node", to, i)'
      <4>1. to \in DOMAIN kept' /\ kept'[to] = stack[k].value
        BY SMTT(30), <1>12, <1>13, <3>3, <3>4
      <4>2. stack[k].value = i
        BY <3>1 DEF Owns
      <4>3. QED
        BY <4>1, <4>2 DEF Owns
    <3>6. ASSUME NEW place, NEW l, Owns(place, l, i)' PROVE place = "node" /\ l = to
      <4>1. CASE place = "lookahead" \/ place = "free"
        <5>1. Owns(place, l, i)
          BY <1>1, <3>6, <4>1 DEF Owns
        <5>2. QED
          BY <3>2, <4>1, <5>1
      <4>2. CASE place = "stack"
        <5>1. l \in 1 .. left + 1 /\ IsValue(stack'[l].state) /\ stack'[l].value = i
          BY <1>10, <3>6, <4>2 DEF Owns, IsValue
        <5>2. l \in 1 .. left /\ stack'[l] = stack[l]
          BY <1>4, <1>8, <1>10, <5>1
        <5>3. Owns("stack", l, i)
          BY <1>4, <1>14, <5>1, <5>2 DEF Owns
        <5>4. QED
          BY <1>4, <3>2, <5>2, <5>3
      <4>3. CASE place = "node"
        <5>1. l \in 1 .. Len(kept) + Len(stores) /\ kept'[l] = i
          BY <1>13, <3>6, <4>3 DEF Owns
        <5>2. ~ (l \in 1 .. Len(kept))
          <6>1. ASSUME l \in 1 .. Len(kept) PROVE FALSE
            <7>1. Owns("node", l, i)
              BY <1>13, <5>1, <6>1 DEF Owns
            <7>2. QED
              BY <3>2, <7>1
          <6>2. QED
            BY <6>1
        <5>3. PICK m2 \in DOMAIN stores : l = Len(kept) + m2
          <6>1. l - Len(kept) \in 1 .. Len(stores) /\ l = Len(kept) + (l - Len(kept))
            BY <1>12, <1>13, <5>1, <5>2
          <6>2. QED
            BY <1>12, <6>1
        <5>4. left + stores[m2] = k
          BY <2>1, <3>2, <5>1, <5>3
        <5>5. stores[m2] = stores[m]
          <6>1. stores[m] \in Int /\ stores[m2] \in Int
            BY <1>7, <1>12, ElementOfSeq
          <6>2. QED
            BY <1>4, <3>3, <5>4, <6>1
        <5>6. QED
          BY <1>7, <3>4, <4>3, <5>3, <5>5
      <4>4. QED
        BY <3>6, <4>1, <4>2, <4>3 DEF Owns
    <3>7. QED
      BY <3>5, <3>6 DEF Single
  <2>3. CASE \A k \in left + 1 .. n : ~Owns("stack", k, i)
    <3>1. \A l : Owns("node", l, i)' <=> Owns("node", l, i)
      <4>1. \A m \in DOMAIN stores : kept'[Len(kept) + m] # i
        BY <1>11, <2>1, <2>3
      <4>2. \A l \in DOMAIN kept' : l \in DOMAIN kept \/ \E m \in DOMAIN stores : l = Len(kept) + m
        <5>1. ASSUME NEW l \in DOMAIN kept', l \notin DOMAIN kept
              PROVE  \E m \in DOMAIN stores : l = Len(kept) + m
          <6>1. l - Len(kept) \in 1 .. Len(stores) /\ l = Len(kept) + (l - Len(kept))
            BY <1>12, <1>13, <5>1
          <6>2. QED
            BY <1>12, <6>1
        <5>2. QED
          BY <5>1
      <4>3. \A l \in DOMAIN kept : l \in DOMAIN kept' /\ kept'[l] = kept[l]
        BY <1>12, <1>13
      <4>4. QED
        BY <4>1, <4>2, <4>3 DEF Owns
    <3>2. \A l : Owns("stack", l, i)' <=> Owns("stack", l, i)
      <4>1. ASSUME NEW l, Owns("stack", l, i) PROVE Owns("stack", l, i)'
        <5>1. l \in 1 .. left
          BY <1>4, <1>14, <2>3, <4>1 DEF Owns
        <5>2. QED
          BY <1>4, <1>10, <4>1, <5>1 DEF Owns, IsValue
      <4>2. ASSUME NEW l, Owns("stack", l, i)' PROVE Owns("stack", l, i)
        <5>1. l \in 1 .. left + 1 /\ IsValue(stack'[l].state) /\ stack'[l].value = i
          BY <1>10, <4>2 DEF Owns, IsValue
        <5>2. l \in 1 .. left /\ stack'[l] = stack[l]
          BY <1>4, <1>8, <1>10, <5>1
        <5>3. QED
          BY <1>4, <1>14, <5>1, <5>2 DEF Owns
      <4>3. QED
        BY <4>1, <4>2
    <3>3. \A place, l : Owns(place, l, i)' <=> Owns(place, l, i)
      <4>1. ASSUME NEW place, NEW l, place \notin {"node", "stack"}
            PROVE  Owns(place, l, i)' <=> Owns(place, l, i)
        BY <1>1, <4>1 DEF Owns
      <4>2. QED
        BY <3>1, <3>2, <4>1
    <3>4. QED
      BY <2>0, <3>3, Stays
  <2>4. QED
    BY <2>2, <2>3
<1>16. \A k \in DOMAIN stack' : IsValue(stack'[k].state) => stack'[k].value \in Words
  <2>1. ASSUME NEW k \in DOMAIN stack', IsValue(stack'[k].state)
        PROVE  stack'[k].value \in Words
    <3>1. k \in 1 .. left /\ stack'[k] = stack[k]
      BY <1>4, <1>8, <1>10, <2>1
    <3>2. QED
      BY <1>4, <1>14, <2>1, <3>1 DEF StringsInv
  <2>2. QED
    BY <2>1
<1>17. QED
  BY <1>1, <1>13, <1>15, <1>16, SameTokens DEF StringsInv, IsValue

\* The destructor of the state on top, and that of the lookahead.
LEMMA DestructFacts ==
    ASSUME NEW state, NEW string
    PROVE  Destruct(At(yystos, state), string) = IF IsValue(state) THEN << string >> ELSE <<>>
BY DEF Destruct, IsValue

LEMMA DestructLookahead ==
    ASSUME NEW char \in Symbols, NEW string
    PROVE  Destruct(IF char = "YYEMPTY" THEN 0 ELSE YYTRANSLATE[char], string)
               = IF char = "VALUE" THEN << string >> ELSE <<>>
BY DEF Destruct, YYTRANSLATE, YYSYMBOL_VALUE, Symbols, TokenKinds, Keywords

\* The strings that are given to free stay there.
LEMMA StringsPop ==
    ASSUME StringsInv, Pop, StackInv'
    PROVE  StringsInv'
<1> DEFINE n == Len(stack)
<1> DEFINE d == Destruct(At(yystos, Top), Last(stack).value)
<1>1. /\ freed' = freed \o d
      /\ stack' = SubSeq(stack, 1, n - 1)
      /\ UNCHANGED <<tokens, yychar, yylval, kept>>
      /\ n > 1
  BY DEF Pop, Front
<1>2. PICK V : stack \in Seq(Items(V)) /\ Path(stack) /\ DOMAIN stack = 1 .. n /\ n \in Nat
  BY StringsTyped
<1>3. /\ DOMAIN stack' = 1 .. n - 1
      /\ \A k \in 1 .. n - 1 : stack'[k] = stack[k]
  <2> HIDE DEF n
  <2>1. n - 1 \in 1 .. Len(stack)
    BY <1>1, <1>2 DEF n
  <2>2. /\ SubSeq(stack, 1, n - 1) \in Seq(Items(V))
        /\ Len(SubSeq(stack, 1, n - 1)) = n - 1
        /\ \A k \in 1 .. n - 1 : SubSeq(stack, 1, n - 1)[k] = stack[k]
    BY <1>2, <2>1, PathPop
  <2>3. QED
    BY <1>1, <2>2, LenProperties
<1>4. d = IF IsValue(stack[n].state) THEN << stack[n].value >> ELSE <<>>
  BY DestructFacts DEF Top, Last
<1>5. d \in Seq(Words)
  <2>1. IsValue(stack[n].state) => stack[n].value \in Words
    BY <1>1, <1>2 DEF StringsInv
  <2>2. QED
    BY <1>4, <2>1
<1> HIDE DEF d, n
<1>6. freed \in Seq(Words)
  BY DEF StringsInv
<1>7. /\ freed' \in Seq(Words) /\ DOMAIN freed' = 1 .. Len(freed) + Len(d)
      /\ Len(freed) \in Nat /\ Len(d) \in Nat /\ DOMAIN freed = 1 .. Len(freed)
      /\ \A k \in 1 .. Len(freed) : freed'[k] = freed[k]
      /\ \A k \in 1 .. Len(d) : freed'[Len(freed) + k] = d[k]
  BY <1>1, <1>5, <1>6, Joined
<1>8. ASSUME NEW i \in Words PROVE Single(i)'
  <2>0. Single(i)
    BY DEF StringsInv
  <2>1. CASE IsValue(stack[n].state) /\ stack[n].value = i
    <3>1. Owns("stack", n, i)
      BY <1>1, <1>2, <2>1 DEF Owns
    <3>2. \A place, k : Owns(place, k, i) => place = "stack" /\ k = n
      BY <2>0, <3>1, OneOwner
    <3>3. Len(d) = 1 /\ d[1] = i
      BY <1>4, <2>1
    <3>4. PICK to : to = Len(freed) + 1
      OBVIOUS
    <3>5. Owns("free", to, i)'
      BY <1>7, <3>3, <3>4 DEF Owns
    <3>6. ASSUME NEW place, NEW k, Owns(place, k, i)' PROVE place = "free" /\ k = to
      <4>1. ~Owns("lookahead", k, i) /\ ~Owns("node", k, i) /\ ~Owns("free", k, i)
        BY <3>2
      <4>2. Owns("stack", k, i) => k = n
        BY <3>2
      <4>3. place = "free"
        BY <1>1, <1>2, <1>3, <3>6, <4>1, <4>2 DEF Owns, IsValue
      <4>4. k \in 1 .. Len(freed) + 1 /\ freed'[k] = i
        BY <1>7, <3>3, <3>6, <4>3 DEF Owns
      <4>5. ~(k \in 1 .. Len(freed))
        BY <1>7, <4>1, <4>4 DEF Owns
      <4>6. QED
        BY <1>7, <3>4, <4>3, <4>4, <4>5
    <3>7. QED
      BY <3>5, <3>6 DEF Single
  <2>2. CASE ~(IsValue(stack[n].state) /\ stack[n].value = i)
    <3>1. \A k : Owns("free", k, i)' <=> Owns("free", k, i)
      <4>1. \/ Len(d) = 0
            \/ Len(d) = 1 /\ d[1] # i
        BY <1>4, <2>2
      <4>2. QED
        BY <1>7, <4>1 DEF Owns
    <3>2. \A k : Owns("stack", k, i)' <=> Owns("stack", k, i)
      BY <1>1, <1>2, <1>3, <2>2 DEF Owns, IsValue
    <3>3. \A place, k : place \notin {"free", "stack"} =>
                            (Owns(place, k, i)' <=> Owns(place, k, i))
      BY <1>1 DEF Owns
    <3>4. \A place, k : Owns(place, k, i)' <=> Owns(place, k, i)
      BY <3>1, <3>2, <3>3
    <3>5. QED
      BY <2>0, <3>4, Stays
  <2>3. QED
    BY <2>1, <2>2
<1>9. \A k \in DOMAIN stack' : IsValue(stack'[k].state) => stack'[k].value \in Words
  BY <1>1, <1>2, <1>3 DEF StringsInv
<1>10. QED
  BY <1>1, <1>7, <1>8, <1>9, SameTokens DEF StringsInv, IsValue

\* The bottom of the stack holds no string.
LEMMA BottomIsNoString == ~IsValue(0)
BY ValueStates DEF States, YYNSTATES

LEMMA StringsAbort ==
    ASSUME StringsInv, Abort, StackInv'
    PROVE  StringsInv' /\ Range(freed') = Words'
<1> DEFINE d == Destruct(IF yychar = "YYEMPTY" THEN 0 ELSE YYTRANSLATE[yychar], yylval)
<1>1. /\ freed' = freed \o d \o kept
      /\ kept' = <<>>
      /\ yychar' = "YYEMPTY"
      /\ UNCHANGED <<tokens, stack, yylval>>
      /\ Len(stack) = 1
  BY DEF Abort
<1>2. d = IF yychar = "VALUE" THEN << yylval >> ELSE <<>>
  BY DestructLookahead DEF StringsInv, StackInv
<1>3. DOMAIN stack = {1} /\ stack[1].state = 0
  BY <1>1, StringsTyped DEF Path
<1> HIDE DEF d
<1>4. d \in Seq(Words) /\ freed \in Seq(Words) /\ kept \in Seq(Words)
  <2>1. yychar = "VALUE" => yylval \in Words
    BY DEF StringsInv
  <2>2. d \in Seq(Words)
    BY <1>2, <2>1
  <2>3. QED
    BY <2>2 DEF StringsInv
<1>5. /\ freed' \in Seq(Words) /\ DOMAIN freed' = 1 .. Len(freed) + Len(d) + Len(kept)
      /\ Len(freed) \in Nat /\ Len(d) \in Nat /\ Len(kept) \in Nat
      /\ DOMAIN freed = 1 .. Len(freed) /\ DOMAIN kept = 1 .. Len(kept)
      /\ \A k \in 1 .. Len(freed) : freed'[k] = freed[k]
      /\ \A k \in 1 .. Len(d) : freed'[Len(freed) + k] = d[k]
      /\ \A k \in 1 .. Len(kept) : freed'[Len(freed) + Len(d) + k] = kept[k]
  <2> DEFINE f == freed \o d
  <2>1. /\ f \in Seq(Words) /\ DOMAIN f = 1 .. Len(freed) + Len(d)
        /\ Len(freed) \in Nat /\ Len(d) \in Nat /\ DOMAIN freed = 1 .. Len(freed)
        /\ \A k \in 1 .. Len(freed) : f[k] = freed[k]
        /\ \A k \in 1 .. Len(d) : f[Len(freed) + k] = d[k]
    BY <1>4, Joined
  <2>2. freed' = f \o kept
    BY <1>1
  <2> HIDE DEF f
  <2>3. /\ f \o kept \in Seq(Words) /\ DOMAIN (f \o kept) = 1 .. Len(f) + Len(kept)
        /\ Len(f) \in Nat /\ DOMAIN f = 1 .. Len(f)
        /\ Len(kept) \in Nat /\ DOMAIN kept = 1 .. Len(kept)
        /\ \A k \in 1 .. Len(f) : (f \o kept)[k] = f[k]
        /\ \A k \in 1 .. Len(kept) : (f \o kept)[Len(f) + k] = kept[k]
    BY <1>4, <2>1, Joined
  <2>4. Len(f) = Len(freed) + Len(d)
    BY <2>1, <2>3
  <2>5. \A k \in 1 .. Len(d) : Len(freed) + k \in 1 .. Len(f)
    BY <2>1, <2>4
  <2>6. QED
    BY SMTT(30), <2>1, <2>2, <2>3, <2>4, <2>5
<1>6. Len(d) = (IF yychar = "VALUE" THEN 1 ELSE 0) /\ (yychar = "VALUE" => d[1] = yylval)
  BY <1>2
<1>7. ASSUME NEW i \in Words
      PROVE  Single(i)' /\ \E k \in DOMAIN freed' : freed'[k] = i
  <2>1. PICK place, k : Owns(place, k, i) /\ \A other, l : Owns(other, l, i) => other = place /\ l = k
    BY DEF StringsInv, Single
  <2>2. PICK to : to = CASE place = "free" -> k
                         [] place = "lookahead" -> Len(freed) + 1
                         [] place = "node" -> Len(freed) + Len(d) + k
    OBVIOUS
  <2>3. place \in {"free", "lookahead", "node"}
    BY <1>3, <2>1, BottomIsNoString DEF Owns
  <2>4. to \in DOMAIN freed' /\ freed'[to] = i
    <3>1. CASE place = "free"
      BY <1>5, <2>1, <2>2, <3>1 DEF Owns
    <3>2. CASE place = "lookahead"
      BY <1>5, <1>6, <2>1, <2>2, <3>2 DEF Owns
    <3>3. CASE place = "node"
      BY <1>5, <2>1, <2>2, <3>3 DEF Owns
    <3>4. QED
      BY <2>3, <3>1, <3>2, <3>3
  <2>5. ASSUME NEW l \in DOMAIN freed', freed'[l] = i PROVE l = to
    <3>1. CASE l \in 1 .. Len(freed)
      <4>1. Owns("free", l, i)
        BY <1>5, <2>5, <3>1 DEF Owns
      <4>2. QED
        BY <2>1, <2>2, <4>1
    <3>2. CASE l = Len(freed) + 1 /\ yychar = "VALUE"
      <4>1. Owns("lookahead", 0, i)
        <5>1. freed'[Len(freed) + 1] = d[1]
          BY <1>5, <1>6, <3>2
        <5>2. QED
          BY <1>6, <2>5, <3>2, <5>1 DEF Owns
      <4>2. place = "lookahead"
        BY <2>1, <4>1
      <4>3. QED
        BY <2>2, <3>2, <4>2
    <3>3. CASE ~(l \in 1 .. Len(freed)) /\ ~(l = Len(freed) + 1 /\ yychar = "VALUE")
      <4>1. l - (Len(freed) + Len(d)) \in 1 .. Len(kept)
            /\ l = Len(freed) + Len(d) + (l - (Len(freed) + Len(d)))
        BY SMTT(30), <1>5, <1>6, <2>5, <3>3
      <4>2. Owns("node", l - (Len(freed) + Len(d)), i)
        BY <1>5, <2>5, <4>1 DEF Owns
      <4>3. place = "node" /\ k = l - (Len(freed) + Len(d))
        BY <2>1, <4>2
      <4>4. QED
        BY <2>2, <4>1, <4>3
    <3>4. QED
      BY <3>1, <3>2, <3>3
  <2>6. Owns("free", to, i)'
    BY <2>4 DEF Owns
  <2>7. ASSUME NEW other, NEW l, Owns(other, l, i)' PROVE other = "free" /\ l = to
    <3>1. other \notin {"lookahead", "node"}
      BY <1>1, <2>7 DEF Owns
    <3>2. other # "stack"
      BY <1>1, <1>3, <2>7, BottomIsNoString DEF Owns, IsValue
    <3>3. QED
      BY <2>5, <2>7, <3>1, <3>2 DEF Owns
  <2>8. QED
    BY <2>4, <2>6, <2>7 DEF Single
<1>8. kept' \in Seq(Words)
  BY <1>1
<1>9. Words' = Words
  BY <1>1, SameTokens
<1>10. StringsInv'
  <2>1. \A k \in DOMAIN stack' : IsValue(stack[k].state)' => stack'[k].value \in Words
    BY <1>1 DEF StringsInv, IsValue
  <2>2. QED
    BY <1>1, <1>5, <1>7, <1>8, <1>9, <2>1, SameTokens DEF StringsInv
<1>11. Range(freed') = Words
  <2>1. \A k \in DOMAIN freed' : freed'[k] \in Words
    BY <1>5, ElementOfSeq, LenProperties
  <2>2. QED
    BY <1>7, <2>1 DEF Range
<1>12. QED
  BY <1>9, <1>10, <1>11

\* At the end of a file the stack holds no string, so that nothing is freed.
LEMMA AcceptFacts ==
    ASSUME StringsInv, Accept
    PROVE  /\ freed' = freed
           /\ stack' = << stack[1] >>
           /\ \A k \in DOMAIN stack : ~IsValue(stack[k].state)
           /\ UNCHANGED <<tokens, yychar, yylval, kept>>
<1>1. PICK V : stack \in Seq(Items(V)) /\ Path(stack) /\ DOMAIN stack = 1 .. Len(stack)
  BY StringsTyped
<1>2. Last(stack).state = YYFINAL
  BY DEF Accept, Top
<1>3. Len(stack) = 3 /\ \A k \in 1 .. 3 : ~IsValue(stack[k].state)
  BY <1>1, <1>2, FinalStack
<1> DEFINE none == [k \in 1 .. Len(stack) - 1 |->
                       Destruct(At(yystos, stack[k + 1].state), stack[k + 1].value)]
<1>4. none \in Seq(Seq({})) /\ freed' = freed \o FlattenSeq(none)
  <2>1. \A k \in 1 .. 2 : none[k] = <<>>
    BY <1>3, DestructFacts
  <2>2. none = [k \in 1 .. 2 |-> <<>>]
    BY <1>3, <2>1
  <2>3. freed' = freed \o FlattenSeq(none)
    BY DEF Accept
  <2> HIDE DEF none
  <2>4. <<>> \in Seq({})
    OBVIOUS
  <2>5. \A k \in 1 .. 2 : none[k] \in Seq({})
    BY <2>2, <2>4
  <2>6. none \in Seq(Seq({}))
    BY <2>2, <2>5
  <2>7. QED
    BY <2>3, <2>6
<1> HIDE DEF none
<1>5. FlattenSeq(none) \in Seq({})
  BY <1>4, FlattenFacts
<1>6. FlattenSeq(none) = <<>>
  <2>1. Len(FlattenSeq(none)) = 0
    <3>1. \A k \in 1 .. Len(FlattenSeq(none)) : FlattenSeq(none)[k] \in {}
      BY <1>5, ElementOfSeq
    <3>2. Len(FlattenSeq(none)) \in Nat
      BY <1>5, LenProperties
    <3>3. QED
      BY <3>1, <3>2
  <2>2. QED
    BY <1>5, <2>1, EmptySeq
<1>7. freed' = freed
  <2>1. freed \in Seq(Words)
    BY DEF StringsInv
  <2>2. QED
    BY <1>4, <1>6, <2>1
<1>8. QED
  BY <1>1, <1>3, <1>7 DEF Accept

LEMMA StringsAccept ==
    ASSUME StringsInv, Accept, StackInv'
    PROVE  StringsInv'
<1>1. /\ UNCHANGED <<tokens, yychar, yylval, kept, freed>>
      /\ stack' = << stack[1] >>
      /\ \A k \in DOMAIN stack : ~IsValue(stack[k].state)
      /\ 1 \in DOMAIN stack
  BY AcceptFacts, StringsTyped
<1>2. \A k \in DOMAIN stack' : ~IsValue(stack'[k].state)
  BY <1>1
<1>3. ASSUME NEW i \in Words PROVE Single(i)'
  <2>1. \A place, k : Owns(place, k, i)' <=> Owns(place, k, i)
    BY <1>1, <1>2 DEF Owns, IsValue
  <2>2. Single(i)
    BY DEF StringsInv
  <2>3. QED
    BY <2>1, <2>2, Stays
<1>4. QED
  BY <1>1, <1>2, <1>3, SameTokens DEF StringsInv, IsValue

\* A step that leaves the registers of the parser alone.
LEMMA StringsRest ==
    ASSUME StringsInv, UNCHANGED <<tokens, stack, yychar, yylval, kept, freed>>, StackInv'
    PROVE  StringsInv'
<1>1. ASSUME NEW i \in Words PROVE Single(i)'
  <2>1. \A place, k : Owns(place, k, i)' <=> Owns(place, k, i)
    BY DEF Owns, IsValue
  <2>2. Single(i)
    BY DEF StringsInv
  <2>3. QED
    BY <2>1, <2>2, Stays
<1>2. \A k \in DOMAIN stack' : IsValue(stack[k].state)' => stack'[k].value \in Words
  BY DEF StringsInv, IsValue
<1>3. QED
  BY <1>1, <1>2, SameTokens DEF StringsInv

LEMMA StringsInit == ASSUME Init PROVE StringsInv
<1>1. StackInv
  BY StackInvInit
<1>2. Words = {} /\ tokens = <<>> /\ kept = <<>> /\ freed = <<>> /\ yychar = "YYEMPTY"
  BY DEF Init, Words
<1>3. \A k \in DOMAIN stack : ~IsValue(stack[k].state)
  BY BottomIsNoString DEF Init, Item
<1>4. QED
  BY <1>1, <1>2, <1>3 DEF StringsInv

LEMMA StringsNext ==
    ASSUME StringsInv, [Next]_parserVars
    PROVE  StringsInv'
<1>1. StackInv'
  BY StackInvNext DEF StringsInv
<1>2. CASE Yylex
  BY <1>1, <1>2, StringsYylex
<1>3. CASE Shift
  BY <1>1, <1>3, StringsShift
<1>4. CASE Reduce
  BY <1>1, <1>4, StringsReduce
<1>5. CASE SyntaxError
  BY <1>1, <1>5, StringsRest DEF SyntaxError
<1>6. CASE Pop
  BY <1>1, <1>6, StringsPop
<1>7. CASE Abort
  BY <1>1, <1>7, StringsAbort
<1>8. CASE Accept
  BY <1>1, <1>8, StringsAccept
<1>9. CASE Returned \/ UNCHANGED parserVars
  BY <1>1, <1>9, StringsRest DEF Returned, parserVars
<1>10. QED
  BY <1>2, <1>3, <1>4, <1>5, <1>6, <1>7, <1>8, <1>9 DEF Next, ParserNext

\* One owner is one element of Owners.
LEMMA OwnersOfOne ==
    ASSUME NEW i, Single(i)
    PROVE  Cardinality(Owners(i)) = 1
<1>1. PICK place, k : Owns(place, k, i) /\ \A other, l : Owns(other, l, i) => other = place /\ l = k
  BY DEF Single
<1>2. \A p : p \in Owners(i) <=> \E other, l : p = <<other, l>> /\ Owns(other, l, i)
  BY DEF Owners, Owns, IsValue
<1>3. Owners(i) = {<<place, k>>}
  BY <1>1, <1>2
<1>4. QED
  BY <1>3, FS_Singleton

\* Every string that uci_unquote allocated for the parser has exactly one owner in
\* every state of yyparse, whatever the file and wherever it goes wrong.
THEOREM StringsHaveOneOwner == ParserSpec => []StringsOwnedOnce
<1>1. StringsInv => StringsOwnedOnce
  BY OwnersOfOne DEF StringsInv, StringsOwnedOnce
<1>2. QED
  BY <1>1, StringsInit, StringsNext, PTL DEF ParserSpec

\* How yyparse ends.
EndInv ==
    /\ phase \in {"parsing", "accepted"} => freed = <<>>
    /\ phase = "parsing" /\ Top = YYFINAL => yychar = "YYEMPTY"
    /\ phase = "accepted" => yychar = "YYEMPTY" /\ Len(stack) = 1
    /\ phase = "aborted" => kept = <<>> /\ Range(freed) = Words

LEMMA EndNext ==
    ASSUME StringsInv, EndInv, [Next]_parserVars
    PROVE  EndInv'
<1>0. StackInv'
  BY StackInvNext DEF StringsInv
<1>1. CASE Yylex
  <2>1. phase' = "parsing" /\ Top' # YYFINAL /\ freed' = freed /\ phase = "parsing"
    BY <1>1 DEF Yylex, Parsing, Top, Last
  <2>2. QED
    BY <2>1 DEF EndInv
<1>2. CASE Shift
  BY <1>2 DEF Shift, Parsing, EndInv
<1>3. CASE Reduce
  <2>1. phase' = "parsing" /\ freed' = freed /\ phase = "parsing"
    BY <1>3 DEF Reduce, Parsing
  <2>2. PICK V : stack \in Seq(Items(V)) /\ Path(stack) /\ Len(stack) \in Nat
    BY StringsTyped
  <2> DEFINE left == Len(stack) - Size(Top)
  <2> DEFINE q == Goto(stack[left].state, LeftSide(Top))
  <2>3. /\ Top = Last(stack).state /\ At(yydefact, Top) # 0 /\ Top # YYFINAL
    BY <1>3 DEF Top, Reduce, Default, Parsing
  <2>4. /\ Top \in States /\ Size(Top) \in 1 .. Len(stack) - 1
        /\ Leads(stack[left].state, LeftSide(Top))
    BY <2>2, <2>3, ReduceFacts, <1>3
  <2>5. PICK v : stack' = Append(SubSeq(stack, 1, left), Item(q, v))
    BY <1>3, <2>2, ReduceFacts
  <2>6. q # YYFINAL /\ q \in States
    <3>1. q \in States /\ At(yystos, q) = LeftSide(Top)
      BY <2>4 DEF Leads
    <3>2. LeftSide(Top) # 0
      BY <2>3, <2>4, RuleFacts
    <3>3. At(yystos, YYFINAL) = 0
      BY DEF At, yystos, YYFINAL
    <3> HIDE DEF q
    <3>4. QED
      BY <3>1, <3>2, <3>3
  <2>7. Top' = q
    <3> HIDE DEF q
    <3>1. left \in 1 .. Len(stack)
      BY <2>2, <2>4
    <3> HIDE DEF left
    <3>2. SubSeq(stack, 1, left) \in Seq(Items(V))
      BY <2>2, <3>1, PathPop
    <3> DEFINE W == Items(V \cup {v})
    <3>3. SubSeq(stack, 1, left) \in Seq(W) /\ Item(q, v) \in W
      <4>1. Seq(Items(V)) \subseteq Seq(W)
        BY SeqMonotonic DEF Items
      <4>2. QED
        BY <2>6, <3>2, <4>1 DEF Items, Item
    <3> HIDE DEF W
    <3>4. Last(stack') = Item(q, v)
      BY <2>5, <3>3, AppendProperties DEF Last
    <3>5. QED
      BY <3>4 DEF Top, Item
  <2>8. QED
    BY <2>1, <2>6, <2>7 DEF EndInv
<1>4. CASE SyntaxError
  BY <1>4 DEF SyntaxError, EndInv
<1>5. CASE Pop
  BY <1>5 DEF Pop, EndInv
<1>6. CASE Abort
  <2>1. Range(freed') = Words'
    BY <1>0, <1>6, StringsAbort
  <2>2. phase' = "aborted" /\ kept' = <<>>
    BY <1>6 DEF Abort
  <2>3. QED
    BY <2>1, <2>2 DEF EndInv
<1>7. CASE Accept
  <2>1. freed' = freed /\ stack' = << stack[1] >> /\ yychar' = yychar
    BY <1>7, AcceptFacts
  <2>2. phase = "parsing" /\ phase' = "accepted" /\ Top = YYFINAL
    BY <1>7 DEF Accept
  <2>3. QED
    BY <2>1, <2>2 DEF EndInv
<1>8. CASE Returned \/ UNCHANGED parserVars
  <2>1. UNCHANGED <<tokens, stack, yychar, yylval, kept, freed, phase>>
    BY <1>8 DEF Returned, parserVars
  <2>2. QED
    BY <2>1 DEF EndInv, Top, Words
<1>9. QED
  BY <1>1, <1>2, <1>3, <1>4, <1>5, <1>6, <1>7, <1>8 DEF Next, ParserNext

\* When the parser has accepted a file, the nodes own all strings.
LEMMA EndOwners ==
    ASSUME StringsInv, EndInv
    PROVE  NothingLeftBehind
<1>1. ASSUME phase = "accepted" PROVE Range(kept) = Words /\ freed = <<>>
  <2>1. yychar = "YYEMPTY" /\ Len(stack) = 1 /\ freed = <<>>
    BY <1>1 DEF EndInv
  <2>2. DOMAIN stack = {1} /\ stack[1].state = 0
    BY <2>1, StringsTyped DEF Path
  <2>3. ASSUME NEW i \in Words PROVE \E k \in DOMAIN kept : kept[k] = i
    <3>1. PICK place, k : Owns(place, k, i)
      BY DEF StringsInv, Single
    <3>2. QED
      BY <2>1, <2>2, <3>1, BottomIsNoString DEF Owns
  <2>4. \A k \in DOMAIN kept : kept[k] \in Words
    BY StringsTyped
  <2>5. QED
    BY <2>1, <2>3, <2>4 DEF Range
<1>2. QED
  BY <1>1 DEF EndInv, NothingLeftBehind

\* When yyparse returns no string is lost: after an error all have been freed, and the
\* nodes of an AST that is returned own all, whatever the file.
THEOREM StringsEndWell == ParserSpec => []NothingLeftBehind
<1>1. Init => EndInv
  BY DEF Init, EndInv, Top, Last, Item, YYFINAL
<1>2. QED
  BY <1>1, StringsInit, StringsNext, EndNext, EndOwners, PTL DEF ParserSpec

-----------------------------------------------------------------------------
(***************************************************************************)
(* What the semantic actions make of the nodes, before there is a root.    *)
(***************************************************************************)

\* What the parser makes of a node before it makes the root.
MadeNode(h, n) ==
    /\ h[n].kind \in LineKinds => h[n].name # NoString
    /\ h[n].kind = "ANT_OPTION" => h[n].value # NoString
    /\ h[n].kind = "ANT_SECTION_TYPE" =>
          /\ h[n].name \in TypeNames
          /\ h[n].children # <<>> /\ h[n].number > 0
    /\ h[n].kind = "ANT_SECTION_NAME" =>
          h[n].name \in SectionNames \cup {Placeholder} /\ DistinctBelow(h, n)
    /\ h[n].kind \notin {"ANT_ROOT", "ANT_CONFIG"}

Made(h) == \A n \in DOMAIN h : MadeNode(h, n)

\* A node stays as it was made where its attributes stay, and the array of a section
\* type, and the lines of a section and the names of those.
LEMMA MadeStays ==
    ASSUME NEW h, NEW g, NEW n, MadeNode(h, n),
           g[n].kind = h[n].kind, g[n].name = h[n].name, g[n].value = h[n].value,
           h[n].kind = "ANT_SECTION_TYPE" => SameArray(h, g, n),
           h[n].kind = "ANT_SECTION_NAME" =>
              /\ KidSet(g, n) = KidSet(h, n)
              /\ \A m \in KidSet(h, n) :
                    g[m].name = h[m].name /\ (Deleted(h, m) => Deleted(g, m))
    PROVE  MadeNode(g, n)
<1>1. h[n].kind = "ANT_SECTION_NAME" => (DistinctBelow(h, n) => DistinctBelow(g, n))
  BY DEF DistinctBelow
<1>2. QED
  BY <1>1 DEF MadeNode, SameArray

\* So it does where a node is new.
LEMMA NewKeepsMade ==
    ASSUME NEW h, TypedAst(h), NEW g, NEW L, NEW x, Creates(h, g, L, x),
           NEW n \in DOMAIN h, MadeNode(h, n)
    PROVE  MadeNode(g, n)
<1>1. g[n] = h[n] /\ \A m \in DOMAIN h : g[m] = h[m]
  BY DEF Creates
<1>2. KidSet(h, n) \subseteq DOMAIN h
  BY TypedUnfolds, KidsFacts
<1>3. KidSet(g, n) = KidSet(h, n) /\ SameArray(h, g, n)
  BY <1>1 DEF KidSet, SameArray
<1>4. \A m \in KidSet(h, n) : g[m].name = h[m].name /\ (Deleted(h, m) => Deleted(g, m))
  BY <1>1, <1>2 DEF Deleted
<1>5. QED
  BY <1>1, <1>3, <1>4, MadeStays

\* Where a node that waits is put below another.
LEMMA AddKeepsMade ==
    ASSUME NEW h, NEW W, Built(h, W), NEW p \in DOMAIN h, NEW m \in W, p # m,
           NEW g, Below(h, g, p, m),
           NEW n \in DOMAIN h, MadeNode(h, n),
           n = p => h[p].kind \notin {"ANT_SECTION_TYPE", "ANT_SECTION_NAME"}
    PROVE  MadeNode(g, n)
<1>1. KidSet(h, n) \subseteq DOMAIN h /\ m \notin KidSet(h, n)
  BY TypedUnfolds, KidsFacts, WaitingFree DEF Built
<1>2. /\ \A i \in DOMAIN h : /\ g[i].kind = h[i].kind /\ g[i].name = h[i].name
                             /\ g[i].value = h[i].value
      /\ \A i \in DOMAIN h \ {m} : g[i].parent = h[i].parent
      /\ n # p => SameArray(h, g, n) /\ KidSet(g, n) = KidSet(h, n)
  BY DEF Below
<1>3. \A i \in KidSet(h, n) : g[i].name = h[i].name /\ (Deleted(h, i) => Deleted(g, i))
  BY <1>1, <1>2 DEF Deleted
<1>4. QED
  BY <1>2, <1>3, MadeStays

\* Where the children of a sentinel move to another node.
LEMMA MoveKeepsMade ==
    ASSUME NEW h, NEW W, Built(h, W), NEW d \in DOMAIN h, NEW s \in W,
           h[s].kind = "ANT_SENTINEL",
           NEW g, Transfers(h, g, d, s), NEW n \in DOMAIN h, n # d, MadeNode(h, n)
    PROVE  MadeNode(g, n)
<1>1. /\ KidSet(h, n) \subseteq DOMAIN h /\ n \in DOMAIN h /\ s \in DOMAIN h
      /\ DisjointChildren(h)
  BY TypedUnfolds, KidsFacts, WaitingFree DEF Built, Linked
<1>2. /\ g[n].kind = h[n].kind /\ g[n].name = h[n].name /\ g[n].value = h[n].value
      /\ \A i \in DOMAIN h : g[i].name = h[i].name
      /\ n # s => SameArray(h, g, n) /\ KidSet(g, n) = KidSet(h, n)
  BY <1>1 DEF Transfers
<1>3. n # s => KidSet(h, n) \cap KidSet(h, s) = {}
  BY <1>1 DEF DisjointChildren, KidSet
<1>4. \A i \in DOMAIN h : i \notin KidSet(h, s) => g[i].parent = h[i].parent
  <2>1. g[d].parent = h[d].parent /\ g[s].parent = h[s].parent
    BY DEF Transfers
  <2>2. \A i \in DOMAIN h : i \notin {d, s} /\ i \notin KidSet(h, s) => g[i] = h[i]
    BY DEF Transfers
  <2>3. QED
    BY <2>1, <2>2
<1>5. n # s => \A i \in KidSet(h, n) : g[i].name = h[i].name /\ (Deleted(h, i) => Deleted(g, i))
  BY <1>1, <1>2, <1>3, <1>4 DEF Deleted
<1>6. QED
  BY <1>2, <1>5, MadeStays

\* Where the lines of a section are merged.
LEMMA LinesKeepMade ==
    ASSUME NEW h, NEW W, Built(h, W), NEW c \in DOMAIN h, h[c].kind = "ANT_SECTION_NAME",
           NEW g, MergesLines(h, g, c),
           NEW n \in DOMAIN h, MadeNode(h, n)
    PROVE  MadeNode(g, n)
<1>1. /\ KidSet(h, n) \subseteq DOMAIN h /\ DisjointChildren(h) /\ BuiltNode(h, W, n)
  BY TypedUnfolds, KidsFacts DEF Built, Linked
<1>2. /\ g[n].kind = h[n].kind /\ g[n].name = h[n].name /\ g[n].value = h[n].value
      /\ \A i \in DOMAIN h : i \notin KidSet(h, c) /\ h[i].kind # "ANT_LIST_ITEM" => g[i] = h[i]
      /\ \A i \in KidSet(h, c) : h[i].kind \in {"ANT_OPTION", "ANT_LIST"}
      /\ DistinctBelow(g, c)
  BY DEF MergesLines
<1>3. h[n].kind \in {"ANT_SECTION_TYPE", "ANT_SECTION_NAME"} => g[n] = h[n]
  BY <1>2
<1>4. CASE n = c
  BY <1>2, <1>4 DEF MadeNode
<1>5. CASE n # c
  <2>1. KidSet(h, n) \cap KidSet(h, c) = {}
    BY <1>1, <1>5 DEF DisjointChildren, KidSet
  <2>2. h[n].kind = "ANT_SECTION_NAME" => \A i \in KidSet(h, n) : g[i] = h[i]
    BY <1>1, <1>2, <2>1 DEF BuiltNode, BuiltKinds, ChildKinds
  <2>3. h[n].kind \in {"ANT_SECTION_TYPE", "ANT_SECTION_NAME"} =>
           SameArray(h, g, n) /\ KidSet(g, n) = KidSet(h, n)
    BY <1>3 DEF SameArray, KidSet
  <2>4. QED
    BY <1>2, <2>2, <2>3, MadeStays DEF Deleted
<1>6. QED
  BY <1>4, <1>5

\* A rule takes the nodes in P, which wait, and leaves r.node to wait for the next one.
Yields(h, W, P, r, kind) ==
    /\ Built(r.heap, (W \ P) \cup {r.node}) /\ Made(r.heap)
    /\ r.node \in DOMAIN r.heap /\ r.node \notin W \ P /\ r.heap[r.node].kind = kind
    /\ DOMAIN h \subseteq DOMAIN r.heap
    /\ \A n \in DOMAIN h : r.heap[n].kind = h[n].kind
    /\ \A n \in W \ P : r.heap[n] = h[n]

\* The children of node n are of the kinds K.
KidsAre(h, n, K) == \A m \in KidSet(h, n) : h[m].kind \in K

\* ast_node_new keeps what was made, and makes nodes of its own.
LEMMA NewIsMade ==
    ASSUME NEW h, NEW W, Built(h, W), NEW N, \A n \in DOMAIN h \ N : MadeNode(h, n),
           NEW g, NEW L, NEW x, Creates(h, g, L, x), L \notin N => MadeNode(g, L)
    PROVE  \A n \in DOMAIN g \ N : MadeNode(g, n)
<1>1. TypedAst(h) /\ DOMAIN g = DOMAIN h \cup {L}
  BY DEF Built, Creates
<1>2. QED
  BY <1>1, NewKeepsMade

LEMMA NewNodeIsMade ==
    ASSUME NEW h, NEW n, NEW kind, NEW name, NEW value, h[n] = NewNode(kind, name, value),
           kind \in LineKinds => name # NoString, kind = "ANT_OPTION" => value # NoString,
           kind = "ANT_SECTION_NAME" => name \in SectionNames \cup {Placeholder},
           kind \notin {"ANT_ROOT", "ANT_CONFIG", "ANT_SECTION_TYPE"}
    PROVE  MadeNode(h, n) /\ h[n].kind = kind /\ h[n].parent = Pool /\ KidSet(h, n) = {}
<1>1. /\ h[n].kind = kind /\ h[n].name = name /\ h[n].value = value /\ h[n].number = 0
      /\ h[n].parent = Pool
  BY DEF NewNode
<1>2. KidSet(h, n) = {}
  BY <1>1 DEF KidSet
<1>3. QED
  BY <1>1, <1>2 DEF MadeNode, DistinctBelow

\* The strings of a file.
LEMMA FileStrings ==
    /\ NoString \notin Strings
    /\ TypeNames \subseteq Strings /\ SectionNames \subseteq Strings /\ Placeholder \in Strings
    /\ AST_NODE_ROOT_NAME \in Strings /\ AST_NODE_CONFIG_NAME \in Strings
    /\ AST_NODE_PACKAGE_NAME \in Strings
BY NamesAssumption DEF Strings, AtNames

\* A rule whose action is one new node.
LEMMA NewYields ==
    ASSUME NEW h, NEW W, Built(h, W), Made(h),
           NEW kind \in {"ANT_SENTINEL", "ANT_OPTION", "ANT_LIST", "ANT_LIST_ITEM", "ANT_PACKAGE"},
           NEW name \in Strings \cup {NoString}, kind \in LineKinds => name # NoString,
           NEW value \in Strings \cup {NoString}, kind = "ANT_OPTION" => value # NoString,
           NEW g, g = AstNodeNew(h, kind, name, value)
    PROVE  /\ Yields(h, W, {}, Reduced(g, Newest(g)), kind)
           /\ Creates(h, g, Len(h) + 1, NewNode(kind, name, value))
           /\ KidSet(g, Newest(g)) = {} /\ Newest(g) \notin DOMAIN h
<1> DEFINE L == Len(h) + 1
<1> DEFINE x == NewNode(kind, name, value)
<1>1. Built(g, W \cup {L}) /\ Creates(h, g, L, x)
  <2>1. kind \in NodeKinds /\ kind # "ANT_SECTION_TYPE"
    BY DEF NodeKinds
  <2>2. QED
    BY <2>1, NewIsBuilt
<1> HIDE DEF L, x
<1>2. /\ Newest(g) = L /\ L \notin DOMAIN h /\ DOMAIN g = DOMAIN h \cup {L} /\ g[L] = x
      /\ \A n \in DOMAIN h : g[n] = h[n]
  BY <1>1 DEF Creates, Newest
<1>3. MadeNode(g, L) /\ g[L].kind = kind /\ KidSet(g, L) = {}
  <2>1. g[L] = NewNode(kind, name, value)
    BY <1>2 DEF x
  <2>2. kind \notin {"ANT_ROOT", "ANT_CONFIG", "ANT_SECTION_TYPE", "ANT_SECTION_NAME"}
    OBVIOUS
  <2>3. MadeNode(g, L) /\ g[L].kind = kind /\ g[L].parent = Pool /\ KidSet(g, L) = {}
    <3> HIDE DEF x
    <3>1. kind = "ANT_SECTION_NAME" => name \in SectionNames \cup {Placeholder}
      BY <2>2
    <3>2. QED
      BY <2>1, <2>2, <3>1, NewNodeIsMade
  <2>4. QED
    BY <2>3
<1>4. Made(g)
  <2>1. \A n \in DOMAIN g \ {} : MadeNode(g, n)
    <3>1. \A n \in DOMAIN h \ {} : MadeNode(h, n)
      BY DEF Made
    <3>2. QED
      BY <1>1, <1>3, <3>1, NewIsMade
  <2>2. QED
    BY <2>1 DEF Made
<1>5. W \subseteq DOMAIN h
  BY DEF Built
<1>6. Built(g, (W \ {}) \cup {L})
  <2>1. W \ {} = W
    OBVIOUS
  <2>2. QED
    BY <1>1, <2>1
<1>7. Yields(h, W, {}, Reduced(g, L), kind)
  <2>1. Reduced(g, L).heap = g /\ Reduced(g, L).node = L
    BY DEF Reduced
  <2>2. QED
    BY <1>2, <1>3, <1>4, <1>5, <1>6, <2>1 DEF Yields
<1>8. QED
  BY <1>1, <1>2, <1>3, <1>7 DEF L, x

\* option : OPTION VALUE VALUE
LEMMA OptionYields ==
    ASSUME NEW h, NEW W, Built(h, W), Made(h), NEW name \in Strings, NEW value \in Strings
    PROVE  Yields(h, W, {}, ReduceOption(h, name, value), "ANT_OPTION")
BY NewYields, FileStrings DEF ReduceOption

\* package : PACKAGE VALUE
LEMMA PackageYields ==
    ASSUME NEW h, NEW W, Built(h, W), Made(h), NEW name \in Strings
    PROVE  Yields(h, W, {}, ReducePackage(h, name), "ANT_PACKAGE")
BY NewYields, FileStrings DEF ReducePackage

\* Two rules, or two parts of the action of one rule, one after the other.
LEMMA YieldsAdd ==
    ASSUME NEW h, NEW W, NEW P, NEW r, NEW kind, Yields(h, W, P, r, kind),
           NEW m \in (W \ P) \cup {r.node}, NEW p \in DOMAIN r.heap, p # m,
           r.heap[m].kind \in BuiltKinds(r.heap[p].kind),
           r.heap[p].kind \in {"ANT_SENTINEL", "ANT_LIST"}, p \in (W \ P) \cup {r.node},
           NEW g, g = AstNodeAdd(r.heap, p, m),
           NEW Q, (W \ Q) \cup {p} = ((W \ P) \cup {r.node}) \ {m}, p \notin W \ Q,
           W \ Q \subseteq (W \ P) \ {p, m}
    PROVE  Yields(h, W, Q, Reduced(g, p), r.heap[p].kind) /\ Below(r.heap, g, p, m)
<1> DEFINE f == r.heap
<1> DEFINE V == (W \ P) \cup {r.node}
<1>1. Built(f, V) /\ Made(f)
  BY DEF Yields
<1>2. m \in V /\ p \in DOMAIN f /\ f[m].kind \in BuiltKinds(f[p].kind) /\ (f[p].kind = "ANT_SENTINEL" => p \in V)
      /\ g = AstNodeAdd(f, p, m)
  OBVIOUS
<1> HIDE DEF f, V
<1>3. Built(g, V \ {m}) /\ Attaches(f, g, p, m) /\ Below(f, g, p, m)
  BY <1>1, <1>2, AddIsBuilt
<1>4. /\ DOMAIN g = DOMAIN f /\ \A n \in DOMAIN f : g[n].kind = f[n].kind
      /\ \A n \in DOMAIN f \ {p, m} : g[n] = f[n]
  BY <1>3 DEF Attaches, Below
<1>5. Made(g)
  <2>1. ASSUME NEW n \in DOMAIN f PROVE MadeNode(g, n)
    <3>1. MadeNode(f, n) /\ (n = p => f[p].kind \notin {"ANT_SECTION_TYPE", "ANT_SECTION_NAME"})
      BY <1>1 DEF Made, f
    <3>2. QED
      BY <1>1, <1>2, <1>3, <3>1, AddKeepsMade
  <2>2. QED
    BY <1>4, <2>1 DEF Made
<1>6. Built(g, (W \ Q) \cup {p})
  BY <1>3 DEF V
<1>7. /\ DOMAIN h \subseteq DOMAIN f
      /\ \A n \in DOMAIN h : f[n].kind = h[n].kind
      /\ \A n \in W \ P : f[n] = h[n]
  BY DEF Yields, f
<1>8. V \subseteq DOMAIN f
  BY <1>1 DEF Built
<1>9. \A n \in W \ Q : g[n] = h[n]
  <2>1. \A n \in W \ Q : n \in (W \ P) \ {p, m} /\ n \in DOMAIN f
    BY <1>8 DEF V
  <2>2. QED
    BY <1>4, <1>7, <2>1
<1>10. Reduced(g, p).heap = g /\ Reduced(g, p).node = p
  BY DEF Reduced
<1>11. QED
  <2>1. g[p].kind = f[p].kind /\ p \in DOMAIN g
    BY <1>2, <1>4
  <2>2. Yields(h, W, Q, Reduced(g, p), f[p].kind)
    BY <1>4, <1>5, <1>6, <1>7, <1>9, <1>10, <2>1 DEF Yields
  <2>3. QED
    BY <1>3, <2>2 DEF f

-----------------------------------------------------------------------------
(***************************************************************************)
(* The semantic actions one by one.                                        *)
(***************************************************************************)

\* Two actions, or two parts of one, one after the other.
LEMMA YieldsThen ==
    ASSUME NEW h, NEW W, NEW P, NEW r, NEW kind, Yields(h, W, P, r, kind),
           NEW V, V = (W \ P) \cup {r.node}, NEW Q, NEW s, NEW last, Yields(r.heap, V, Q, s, last),
           NEW R, W \ R = (V \ Q) \ {r.node}, r.node \in Q
    PROVE  Yields(h, W, R, s, last)
<1>1. /\ DOMAIN h \subseteq DOMAIN r.heap /\ r.node \notin W \ P
      /\ \A n \in DOMAIN h : r.heap[n].kind = h[n].kind
      /\ \A n \in W \ P : r.heap[n] = h[n]
  BY DEF Yields
<1>2. /\ Built(s.heap, (V \ Q) \cup {s.node}) /\ Made(s.heap)
      /\ s.node \in DOMAIN s.heap /\ s.node \notin V \ Q /\ s.heap[s.node].kind = last
      /\ DOMAIN r.heap \subseteq DOMAIN s.heap
      /\ \A n \in DOMAIN r.heap : s.heap[n].kind = r.heap[n].kind
      /\ \A n \in V \ Q : s.heap[n] = r.heap[n]
  BY DEF Yields
<1>3. W \ R = V \ Q /\ V \ Q \subseteq W \ P
  OBVIOUS
<1>4. \A n \in W \ R : s.heap[n] = h[n]
  BY <1>1, <1>2, <1>3
<1>5. QED
  BY <1>1, <1>2, <1>3, <1>4 DEF Yields

\* option : LIST VALUE | LIST VALUE VALUE
LEMMA ListYields ==
    ASSUME NEW h, NEW W, Built(h, W), Made(h), NEW name \in Strings,
           NEW value \in Strings \cup {NoString}
    PROVE  Yields(h, W, {}, ReduceList(h, name, value), "ANT_LIST")
<1> DEFINE list == AstNodeNew(h, "ANT_LIST", name, NoString)
<1> DEFINE L == Newest(list)
<1> DEFINE item == AstNodeNew(list, "ANT_LIST_ITEM", value, NoString)
<1> DEFINE I == Newest(item)
<1> DEFINE V == W \cup {L}
<1>1. Yields(h, W, {}, Reduced(list, L), "ANT_LIST") /\ L \notin DOMAIN h
  BY NewYields, FileStrings
<1>2. /\ Built(list, (W \ {}) \cup {L}) /\ Made(list) /\ list[L].kind = "ANT_LIST"
      /\ L \in DOMAIN list
  <2>1. Reduced(list, L).heap = list /\ Reduced(list, L).node = L
    BY DEF Reduced
  <2>2. QED
    BY <1>1, <2>1 DEF Yields
<1>3. W \subseteq DOMAIN h /\ L \notin W /\ Built(list, V)
  <2>1. W \ {} = W
    OBVIOUS
  <2>2. W \subseteq DOMAIN h
    BY DEF Built
  <2>3. QED
    BY <1>1, <1>2, <2>1, <2>2
<1>4. CASE value = NoString
  BY <1>1, <1>4 DEF ReduceList
<1>5. CASE value # NoString
  <2> DEFINE r == Reduced(item, I)
  <2> DEFINE g == AstNodeAdd(item, L, I)
  <2> HIDE DEF list, L, V
  <2>1. Yields(list, V, {}, r, "ANT_LIST_ITEM") /\ I \notin DOMAIN list
        /\ Creates(list, item, Len(list) + 1, NewNode("ANT_LIST_ITEM", value, NoString))
    BY <1>2, <1>3, <1>5, NewYields, FileStrings DEF LineKinds
  <2>2. L \in DOMAIN list /\ list[L].kind = "ANT_LIST" /\ L # I
    BY <1>2, <2>1
  <2>3. r.heap = item /\ r.node = I
    BY DEF Reduced
  <2> HIDE DEF r, item, I
  <2>4. item[I].kind = "ANT_LIST_ITEM" /\ item[L].kind = "ANT_LIST" /\ L \in DOMAIN item
    BY <2>1, <2>2, <2>3 DEF Yields
  <2>5. /\ I \in (V \ {}) \cup {I} /\ L \in (V \ {}) \cup {I}
        /\ (V \ {L}) \cup {L} = ((V \ {}) \cup {I}) \ {I}
        /\ L \notin V \ {L} /\ V \ {L} \subseteq (V \ {}) \ {L, I}
    <3>1. L \in V /\ V \subseteq DOMAIN list
      BY <1>3 DEF V, Built
    <3>2. I \notin V
      BY <2>1, <3>1
    <3>3. QED
      BY <3>1, <3>2
  <2> HIDE DEF g
  <2>6. item[I].kind \in BuiltKinds(item[L].kind) /\ item[L].kind \in {"ANT_SENTINEL", "ANT_LIST"}
    BY <2>4 DEF BuiltKinds, ChildKinds
  <2>7. Yields(list, V, {L}, Reduced(g, L), item[L].kind)
    BY <2>1, <2>2, <2>3, <2>4, <2>5, <2>6, YieldsAdd DEF g
  <2>8. Reduced(list, L).heap = list /\ Reduced(list, L).node = L
    BY DEF Reduced
  <2>9. V = (W \ {}) \cup {L} /\ W \ {} = (V \ {L}) \ {L} /\ L \in {L}
    BY <1>3 DEF V
  <2>10. Yields(h, W, {}, Reduced(g, L), "ANT_LIST")
    BY <1>1, <2>4, <2>7, <2>8, <2>9, YieldsThen
  <2>11. QED
    BY <1>5, <2>10 DEF ReduceList, g, item, list, L, I
<1>6. QED
  BY <1>4, <1>5

\* options : option, lines : line
LEMMA FirstYields ==
    ASSUME NEW h, NEW W, Built(h, W), Made(h), NEW node \in W, NEW K,
           K \subseteq BuiltKinds("ANT_SENTINEL"), h[node].kind \in K
    PROVE  LET r == ReduceFirst(h, node)
           IN  Yields(h, W, {node}, r, "ANT_SENTINEL") /\ KidsAre(r.heap, r.node, K)
<1> DEFINE f == AstNodeNew(h, "ANT_SENTINEL", NoString, NoString)
<1> DEFINE L == Newest(f)
<1> DEFINE g == AstNodeAdd(f, L, node)
<1> DEFINE r == Reduced(f, L)
<1>1. Yields(h, W, {}, r, "ANT_SENTINEL") /\ KidSet(f, L) = {} /\ L \notin DOMAIN h
  BY NewYields DEF LineKinds
<1>2. r.heap = f /\ r.node = L
  BY DEF Reduced
<1>3. W \subseteq DOMAIN h
  BY DEF Built
<1> HIDE DEF f, L, r
<1>4. /\ f[node].kind = h[node].kind /\ f[L].kind = "ANT_SENTINEL" /\ L \in DOMAIN f
      /\ \A n \in DOMAIN h : f[n].kind = h[n].kind
  BY <1>1, <1>2, <1>3 DEF Yields
<1>5. /\ node \in (W \ {}) \cup {L} /\ L \in (W \ {}) \cup {L} /\ L # node
      /\ (W \ {node}) \cup {L} = ((W \ {}) \cup {L}) \ {node}
      /\ L \notin W \ {node} /\ W \ {node} \subseteq (W \ {}) \ {L, node}
  BY <1>1, <1>3
<1> HIDE DEF g
<1>6. Yields(h, W, {node}, Reduced(g, L), f[L].kind) /\ Below(f, g, L, node)
  <2> DEFINE P == {}
  <2> DEFINE Q == {node}
  <2>1. Yields(h, W, P, r, "ANT_SENTINEL")
    BY <1>1
  <2>2. /\ node \in (W \ P) \cup {r.node} /\ L \in DOMAIN r.heap /\ L # node
        /\ r.heap[node].kind \in BuiltKinds(r.heap[L].kind)
        /\ r.heap[L].kind \in {"ANT_SENTINEL", "ANT_LIST"} /\ L \in (W \ P) \cup {r.node}
        /\ g = AstNodeAdd(r.heap, L, node)
    BY <1>2, <1>4, <1>5 DEF g
  <2>3. /\ (W \ Q) \cup {L} = ((W \ P) \cup {r.node}) \ {node}
        /\ L \notin W \ Q /\ W \ Q \subseteq (W \ P) \ {L, node}
    BY <1>2, <1>5
  <2> HIDE DEF P, Q
  <2>4. Yields(h, W, Q, Reduced(g, L), r.heap[L].kind) /\ Below(r.heap, g, L, node)
    BY <2>1, <2>2, <2>3, YieldsAdd
  <2>5. QED
    BY <1>2, <2>4 DEF Q
<1>7. KidsAre(g, L, K)
  <2>1. KidSet(g, L) = KidSet(f, L) \cup {node} /\ g[node].kind = f[node].kind
    BY <1>3, <1>1, <1>6, <1>2 DEF Below, Yields
  <2>2. QED
    BY <1>1, <1>4, <2>1 DEF KidsAre
<1>8. ReduceFirst(h, node) = Reduced(g, L)
  BY DEF ReduceFirst, Wrap, g, f, L
<1>9. Reduced(g, L).heap = g /\ Reduced(g, L).node = L
  BY DEF Reduced
<1>10. QED
  BY <1>4, <1>6, <1>7, <1>8, <1>9

\* options : options option, lines : lines line
LEMMA NextYields ==
    ASSUME NEW h, NEW W, Built(h, W), Made(h), NEW sentinel \in W, NEW node \in W, sentinel # node,
           NEW K, K \subseteq BuiltKinds("ANT_SENTINEL"), h[node].kind \in K,
           h[sentinel].kind = "ANT_SENTINEL", KidsAre(h, sentinel, K)
    PROVE  LET r == ReduceNext(h, sentinel, node)
           IN  Yields(h, W, {sentinel, node}, r, "ANT_SENTINEL") /\ KidsAre(r.heap, r.node, K)
<1> DEFINE g == AstNodeAdd(h, sentinel, node)
<1> DEFINE r == Reduced(h, sentinel)
<1>1. W \subseteq DOMAIN h /\ r.heap = h /\ r.node = sentinel
  BY DEF Built, Reduced
<1>2. (W \ {sentinel}) \cup {sentinel} = W
  OBVIOUS
<1> HIDE DEF r
<1>3. Yields(h, W, {sentinel}, r, "ANT_SENTINEL")
  BY <1>1, <1>2 DEF Yields
<1>4. /\ node \in (W \ {sentinel}) \cup {sentinel} /\ sentinel \in (W \ {sentinel}) \cup {sentinel}
      /\ (W \ {sentinel, node}) \cup {sentinel} = ((W \ {sentinel}) \cup {sentinel}) \ {node}
      /\ sentinel \notin W \ {sentinel, node}
      /\ W \ {sentinel, node} \subseteq (W \ {sentinel}) \ {sentinel, node}
  OBVIOUS
<1> HIDE DEF g
<1>5. Yields(h, W, {sentinel, node}, Reduced(g, sentinel), h[sentinel].kind)
      /\ Below(h, g, sentinel, node)
  BY <1>1, <1>3, <1>4, YieldsAdd DEF g
<1>6. KidsAre(g, sentinel, K)
  <2>1. KidSet(g, sentinel) = KidSet(h, sentinel) \cup {node}
        /\ \A n \in DOMAIN h : g[n].kind = h[n].kind
    BY <1>5 DEF Below
  <2>2. KidSet(h, sentinel) \subseteq DOMAIN h
    BY <1>1, TypedUnfolds, KidsFacts DEF Built
  <2>3. QED
    BY <1>1, <2>1, <2>2 DEF KidsAre
<1>7. Reduced(g, sentinel).heap = g /\ Reduced(g, sentinel).node = sentinel
  BY DEF Reduced
<1>8. QED
  BY <1>5, <1>6, <1>7 DEF ReduceNext, g

\* From h to g section type t is new and waits, with the new section s as its only
\* child, and nothing else changes.
MakesSection(h, W, g, t, s) ==
    /\ Built(g, W \cup {t}) /\ Made(g)
    /\ t \notin DOMAIN h /\ s \notin DOMAIN h /\ t # s
    /\ DOMAIN g = DOMAIN h \cup {t, s}
    /\ g[t].kind = "ANT_SECTION_TYPE" /\ g[s].kind = "ANT_SECTION_NAME" /\ g[s].number = 0
    /\ \A n \in DOMAIN h : g[n] = h[n]

LEMMA SectionIsMade ==
    ASSUME NEW h, NEW W, Built(h, W), Made(h), NEW type \in TypeNames,
           NEW name \in SectionNames \cup {Placeholder},
           NEW typed, typed = AstNodeNew(h, "ANT_SECTION_TYPE", type, NoString),
           NEW named, named = AstNodeNew(typed, "ANT_SECTION_NAME", name, NoString),
           NEW g, g = AstNodeAdd(named, Newest(typed), Newest(named))
    PROVE  MakesSection(h, W, g, Newest(typed), Newest(named))
<1> DEFINE L == Len(h) + 1
<1> DEFINE x == NewNode("ANT_SECTION_TYPE", type, NoString)
<1> DEFINE S == Len(typed) + 1
<1> DEFINE y == NewNode("ANT_SECTION_NAME", name, NoString)
<1>1. Built(typed, W \cup {L}) /\ Creates(h, typed, L, x)
  <2>1. "ANT_SECTION_TYPE" \in NodeKinds /\ type \in Strings \cup {NoString}
    BY FileStrings DEF NodeKinds
  <2>2. QED
    BY <2>1, NewIsBuilt
<1>2. Built(named, (W \cup {L}) \cup {S}) /\ Creates(typed, named, S, y)
  <2>1. "ANT_SECTION_NAME" \in NodeKinds /\ name \in Strings \cup {NoString}
    BY FileStrings DEF NodeKinds
  <2> HIDE DEF L, x
  <2>2. QED
    BY <1>1, <2>1, NewIsBuilt
<1>3. /\ Newest(typed) = L /\ L \notin DOMAIN h /\ DOMAIN typed = DOMAIN h \cup {L}
      /\ typed[L] = x /\ \A n \in DOMAIN h : typed[n] = h[n]
  BY <1>1 DEF Creates, Newest
<1>4. /\ Newest(named) = S /\ S \notin DOMAIN typed /\ DOMAIN named = DOMAIN typed \cup {S}
      /\ named[S] = y /\ \A n \in DOMAIN typed : named[n] = typed[n]
  BY <1>2 DEF Creates, Newest
<1> HIDE DEF L, S
<1>5. /\ named[L].kind = "ANT_SECTION_TYPE" /\ named[L].name = type /\ named[L].number = 0
      /\ named[S].kind = "ANT_SECTION_NAME" /\ named[S].name = name /\ named[S].number = 0
      /\ L # S /\ L \in DOMAIN named /\ S \in DOMAIN named
  BY <1>3, <1>4 DEF x, y, NewNode
<1> HIDE DEF x, y
<1> DEFINE V == (W \cup {L}) \cup {S}
<1>6. Built(g, V \ {S}) /\ Attaches(named, g, L, S) /\ Below(named, g, L, S)
  <2>1. "ANT_SECTION_NAME" \in BuiltKinds("ANT_SECTION_TYPE")
    BY DEF BuiltKinds, ChildKinds
  <2>2. S \in V /\ g = AstNodeAdd(named, L, S) /\ Built(named, V)
    BY <1>2, <1>3, <1>4
  <2> HIDE DEF V
  <2>3. QED
    BY <1>5, <2>1, <2>2, AddIsBuilt
<1>7. /\ DOMAIN g = DOMAIN named /\ \A n \in DOMAIN named \ {L, S} : g[n] = named[n]
  BY <1>6 DEF Attaches
<1>8. /\ \A n \in {L, S} : g[n].kind = named[n].kind /\ g[n].name = named[n].name
      /\ g[L].number = 1 /\ g[S].number = 0 /\ KidSet(g, S) = KidSet(named, S)
  BY <1>5, <1>6 DEF Below, SameArray
<1>9. \A n \in DOMAIN h : g[n] = h[n]
  BY <1>3, <1>4, <1>7
<1>10. W \subseteq DOMAIN h /\ TypedAst(h) /\ TypedAst(typed) /\ TypedAst(g)
  BY <1>1, <1>6 DEF Built
<1>11. Built(g, W \cup {L})
  <2>1. V \ {S} = W \cup {L}
    BY <1>3, <1>4, <1>10
  <2>2. QED
    BY <1>6, <2>1
<1>12. ASSUME NEW n \in DOMAIN h PROVE MadeNode(g, n)
  <2>1. MadeNode(h, n)
    BY DEF Made
  <2>2. MadeNode(typed, n)
    BY <1>1, <1>10, <2>1, NewKeepsMade
  <2>3. MadeNode(named, n)
    BY <1>2, <1>3, <1>10, <2>2, NewKeepsMade
  <2>4. S \in V /\ L # S /\ Built(named, V) /\ n \in DOMAIN named /\ n # L
    BY <1>2, <1>3, <1>4
  <2> HIDE DEF V
  <2>5. QED
    BY <1>5, <1>6, <2>3, <2>4, AddKeepsMade
<1>13. MadeNode(g, L)
  <2>1. g[L].kind = "ANT_SECTION_TYPE" /\ g[L].name \in TypeNames /\ g[L].number > 0
    BY <1>5, <1>8
  <2>2. g[L].children # <<>>
    <3>1. g[L].number <= Len(g[L].children)
      BY <1>5, <1>7, <1>10, TypedUnfolds, NodeFields
    <3>2. QED
      BY <1>8, <3>1
  <2>3. QED
    BY <2>1, <2>2 DEF MadeNode, LineKinds
<1>14. MadeNode(g, S)
  <2>1. g[S].kind = "ANT_SECTION_NAME" /\ g[S].name \in SectionNames \cup {Placeholder}
    BY <1>5, <1>8
  <2>2. KidSet(g, S) = {}
    BY <1>8 DEF KidSet
  <2>3. QED
    BY <2>1, <2>2 DEF MadeNode, LineKinds, DistinctBelow
<1>15. Made(g)
  BY <1>3, <1>4, <1>7, <1>12, <1>13, <1>14 DEF Made
<1>16. QED
  BY <1>3, <1>4, <1>5, <1>7, <1>8, <1>9, <1>11, <1>15 DEF MakesSection

\* A heap that is written out is itself.
LEMMA WholeIsSame ==
    ASSUME NEW h, TypedAst(h)
    PROVE  Whole(h) = h
BY SubSeqFull DEF Whole, TypedAst

\* config : CONFIG VALUE, with a name or without, and with lines or without.
LEMMA ConfigYields ==
    ASSUME NEW h, NEW W, Built(h, W), Made(h), NEW type \in TypeNames,
           NEW name \in SectionNames \cup {NoString}, NEW options,
           options # NoNode => /\ options \in W /\ h[options].kind = "ANT_SENTINEL"
                               /\ KidsAre(h, options, {"ANT_OPTION", "ANT_LIST"})
    PROVE  Yields(h, W, {options}, ReduceConfig(h, type, name, options), "ANT_SECTION_TYPE")
<1> DEFINE typed == AstNodeNew(h, "ANT_SECTION_TYPE", type, NoString)
<1> DEFINE string == IF name = NoString THEN Placeholder ELSE name
<1> DEFINE named == AstNodeNew(typed, "ANT_SECTION_NAME", string, NoString)
<1> DEFINE added == AstNodeAdd(named, Newest(typed), Newest(named))
<1> DEFINE L == Newest(typed)
<1> DEFINE S == Newest(named)
<1> DEFINE moved == AstNodeMove(added, S, options)
<1> DEFINE merged == AstNodeMerge(moved, S)
<1> DEFINE V == W \cup {L}
<1>1. MakesSection(h, W, added, L, S)
  <2>1. string \in SectionNames \cup {Placeholder}
    OBVIOUS
  <2>2. QED
    BY <2>1, SectionIsMade
<1>2. ReduceConfig(h, type, name, options) =
         IF options = NoNode THEN Reduced(added, L) ELSE Reduced(Whole(merged), L)
  BY DEF ReduceConfig
<1> HIDE DEF added, L, S
<1>3. /\ Built(added, V) /\ Made(added)
      /\ L \notin DOMAIN h /\ S \notin DOMAIN h /\ L # S
      /\ DOMAIN added = DOMAIN h \cup {L, S}
      /\ added[L].kind = "ANT_SECTION_TYPE"
      /\ added[S].kind = "ANT_SECTION_NAME" /\ added[S].number = 0
      /\ \A n \in DOMAIN h : added[n] = h[n]
  BY <1>1 DEF MakesSection
<1>4. W \subseteq DOMAIN h /\ NoNode \notin DOMAIN h
  BY TypedUnfolds DEF Built, NoNode
<1> HIDE DEF V, moved, merged
<1>5. CASE options = NoNode
  <2>1. W \ {options} = W /\ V = W \cup {L}
    BY <1>4, <1>5 DEF V
  <2>2. Reduced(added, L).heap = added /\ Reduced(added, L).node = L
    BY DEF Reduced
  <2>3. Yields(h, W, {options}, Reduced(added, L), "ANT_SECTION_TYPE")
    BY <1>3, <1>4, <2>1, <2>2 DEF Yields
  <2>4. QED
    BY <1>2, <1>5, <2>3
<1>6. CASE options # NoNode
  <2>1. options \in W /\ options \in V /\ options \in DOMAIN h /\ h[options].kind = "ANT_SENTINEL"
    BY <1>4, <1>6 DEF V
  <2>2. /\ added[options] = h[options] /\ options # S /\ options # L
        /\ added[options].kind = "ANT_SENTINEL" /\ options \in DOMAIN added
    BY <1>3, <2>1
  <2>3. KidSet(added, options) = KidSet(h, options) /\ KidSet(h, options) \subseteq DOMAIN h
    BY <2>1, <2>2, TypedUnfolds, KidsFacts DEF KidSet, Built
  <2>4. \A m \in KidSet(added, options) : added[m].kind \in {"ANT_OPTION", "ANT_LIST"}
    BY <1>3, <1>6, <2>3 DEF KidsAre
  <2>5. Built(moved, V \ {options}) /\ Transfers(added, moved, S, options)
    <3>1. S \in DOMAIN added
      BY <1>3
    <3>2. \A m \in KidSet(added, options) : added[m].kind \in BuiltKinds(added[S].kind)
      BY <1>3, <2>4 DEF BuiltKinds, ChildKinds
    <3>3. QED
      BY <1>3, <2>1, <2>2, <3>1, <3>2, MoveIsBuilt DEF moved
  <2>6. /\ DOMAIN moved = DOMAIN added
        /\ \A n \in DOMAIN added : moved[n].kind = added[n].kind /\ moved[n].name = added[n].name
        /\ KidSet(moved, S) = KidSet(added, options)
        /\ \A n \in DOMAIN added : n \notin {S, options} /\ n \notin KidSet(added, options) =>
              moved[n] = added[n]
    BY <2>5 DEF Transfers
  <2>7. \A n \in DOMAIN added \ {S} : MadeNode(moved, n)
    BY <1>3, <2>1, <2>2, <2>5, MoveKeepsMade DEF Made
  <2>8. /\ Built(merged, V \ {options}) /\ MergesLines(moved, merged, S)
        /\ \A n \in V \ {options} : merged[n] = moved[n]
    <3>1. \A m \in KidSet(moved, S) : moved[m].name # NoString
      BY <1>3, <2>3, <2>4, <2>6 DEF Made, MadeNode, LineKinds
    <3>2. S \in DOMAIN moved /\ moved[S].kind = "ANT_SECTION_NAME"
      BY <1>3, <2>6
    <3>3. QED
      BY <2>5, <3>1, <3>2, LinesAreBuilt DEF merged
  <2>9. /\ DOMAIN merged = DOMAIN moved
        /\ \A n \in DOMAIN moved : merged[n].kind = moved[n].kind /\ merged[n].name = moved[n].name
        /\ DistinctBelow(merged, S)
    BY <2>8 DEF MergesLines
  <2>10. Made(merged)
    <3>1. \A n \in DOMAIN added \ {S} : MadeNode(merged, n)
      BY <1>3, <2>5, <2>6, <2>7, <2>8, LinesKeepMade
    <3>2. MadeNode(merged, S)
      <4>1. merged[S].kind = "ANT_SECTION_NAME" /\ merged[S].name = added[S].name
        BY <1>3, <2>6, <2>9
      <4>2. S \in DOMAIN added /\ added[S].kind = "ANT_SECTION_NAME"
        BY <1>3
      <4>3. MadeNode(added, S)
        BY <1>3, <4>2 DEF Made
      <4>4. merged[S].name \in SectionNames \cup {Placeholder}
        BY <4>1, <4>2, <4>3 DEF MadeNode
      <4>5. QED
        BY <2>9, <4>1, <4>4 DEF MadeNode, LineKinds
    <3>3. QED
      BY <2>6, <2>9, <3>1, <3>2 DEF Made
  <2>11. \A n \in W \ {options} : merged[n] = h[n]
    <3>1. ASSUME NEW n \in W \ {options} PROVE merged[n] = h[n]
      <4>1. n \in V /\ n \in DOMAIN h /\ n # S
        BY <1>3, <1>4 DEF V
      <4>2. n \notin KidSet(added, options)
        BY <1>3, <2>2, <4>1, WaitingFree
      <4>3. QED
        BY <1>3, <2>6, <2>8, <4>1, <4>2
    <3>2. QED
      BY <3>1
  <2>12. Whole(merged) = merged
    BY <2>8, WholeIsSame DEF Built
  <2>13. Built(merged, (W \ {options}) \cup {L})
    <3>1. V \ {options} = (W \ {options}) \cup {L}
      BY <2>2 DEF V
    <3>2. QED
      BY <2>8, <3>1
  <2>14. Reduced(merged, L).heap = merged /\ Reduced(merged, L).node = L
    BY DEF Reduced
  <2>15. L \in DOMAIN merged /\ L \notin W \ {options} /\ merged[L].kind = "ANT_SECTION_TYPE"
         /\ DOMAIN h \subseteq DOMAIN merged /\ \A n \in DOMAIN h : merged[n].kind = h[n].kind
    BY <1>3, <1>4, <2>6, <2>9
  <2>16. Yields(h, W, {options}, Reduced(merged, L), "ANT_SECTION_TYPE")
    BY <2>10, <2>11, <2>13, <2>14, <2>15 DEF Yields
  <2>17. QED
    BY <1>2, <1>6, <2>12, <2>16
<1>7. QED
  BY <1>5, <1>6

-----------------------------------------------------------------------------
(***************************************************************************)
(* The action that makes the root: the config node below it, the merge of  *)
(* the section types and the names of the unnamed sections.                *)
(***************************************************************************)

\* From h to f the root R is new, the package is below it if there is one, and the
\* sentinel of the sections still waits.
Rooting(h, f, R, lines) ==
    /\ Built(f, {lines, R})
    /\ R \notin DOMAIN h /\ DOMAIN f = DOMAIN h \cup {R} /\ f[R].kind = "ANT_ROOT"
    /\ \A n \in DOMAIN h : MadeNode(f, n) /\ f[n].kind = h[n].kind
    /\ f[lines] = h[lines]

LEMMA RootIsPlaced ==
    ASSUME NEW h, NEW lines, NEW package, NEW W,
           W = {lines} \cup ({package} \ {NoNode}), Built(h, W), Made(h), package # lines,
           package # NoNode => h[package].kind = "ANT_PACKAGE",
           NEW root, root = AstNodeNew(h, "ANT_ROOT", AST_NODE_ROOT_NAME, NoString),
           NEW f, f = IF package = NoNode THEN root ELSE AstNodeAdd(root, Newest(root), package)
    PROVE  Rooting(h, f, Newest(root), lines)
<1> DEFINE R == Len(h) + 1
<1> DEFINE x == NewNode("ANT_ROOT", AST_NODE_ROOT_NAME, NoString)
<1>1. Built(root, W \cup {R}) /\ Creates(h, root, R, x)
  <2>1. "ANT_ROOT" \in NodeKinds /\ AST_NODE_ROOT_NAME \in Strings \cup {NoString}
    BY FileStrings DEF NodeKinds
  <2>2. QED
    BY <2>1, NewIsBuilt
<1>2. /\ Newest(root) = R /\ R \notin DOMAIN h /\ DOMAIN root = DOMAIN h \cup {R}
      /\ root[R] = x /\ \A n \in DOMAIN h : root[n] = h[n]
  BY <1>1 DEF Creates, Newest
<1> HIDE DEF R
<1>3. root[R].kind = "ANT_ROOT"
  BY <1>2 DEF x, NewNode
<1> HIDE DEF x
<1>4. W \subseteq DOMAIN h /\ TypedAst(h) /\ lines \in W
  BY DEF Built
<1>5. \A n \in DOMAIN h : MadeNode(root, n)
  BY <1>1, <1>4, NewKeepsMade DEF Made
<1>6. CASE package = NoNode
  <2>1. f = root /\ W \cup {R} = {lines, R}
    BY <1>6
  <2>2. QED
    BY <1>1, <1>2, <1>3, <1>4, <1>5, <2>1 DEF Rooting
<1>7. CASE package # NoNode
  <2> DEFINE V == W \cup {R}
  <2>1. /\ package \in W /\ package \in V /\ package \in DOMAIN h /\ package # R
        /\ V \ {package} = {lines, R} /\ lines \in DOMAIN h
    BY <1>2, <1>4, <1>7
  <2>2. root[package].kind = "ANT_PACKAGE"
    BY <1>2, <1>7, <2>1
  <2>3. R \in DOMAIN root /\ f = AstNodeAdd(root, R, package)
    BY <1>2, <1>7
  <2>4. root[package].kind \in BuiltKinds(root[R].kind)
    BY <1>3, <2>2 DEF BuiltKinds, ChildKinds
  <2> HIDE DEF V
  <2>5. Built(f, V \ {package}) /\ Attaches(root, f, R, package) /\ Below(root, f, R, package)
    <3>1. Built(root, V)
      BY <1>1 DEF V
    <3>2. QED
      BY <1>3, <2>1, <2>3, <2>4, <3>1, AddIsBuilt
  <2>6. /\ DOMAIN f = DOMAIN root /\ \A n \in DOMAIN root : f[n].kind = root[n].kind
        /\ \A n \in DOMAIN root \ {R, package} : f[n] = root[n]
    BY <2>5 DEF Attaches, Below
  <2>7. ASSUME NEW n \in DOMAIN h PROVE MadeNode(f, n)
    <3>1. n \in DOMAIN root /\ n # R /\ MadeNode(root, n) /\ Built(root, V)
      BY <1>1, <1>2, <1>5 DEF V
    <3>2. QED
      BY <2>1, <2>3, <2>5, <3>1, AddKeepsMade
  <2>8. f[lines] = h[lines]
    BY <1>2, <2>1, <2>6
  <2>9. R \notin DOMAIN h /\ DOMAIN f = DOMAIN h \cup {R} /\ f[R].kind = "ANT_ROOT"
    BY <1>2, <1>3, <2>3, <2>6
  <2>10. \A n \in DOMAIN h : MadeNode(f, n) /\ f[n].kind = h[n].kind
    BY <1>2, <1>3, <2>6, <2>7
  <2>11. Built(f, {lines, R})
    BY <2>1, <2>5
  <2>12. Rooting(h, f, R, lines)
    BY <2>8, <2>9, <2>10, <2>11 DEF Rooting
  <2>13. QED
    BY <1>2, <2>12
<1>8. QED
  BY <1>6, <1>7

\* A well-formed heap with root R and config node C, and all others as they were made.
Planted(h, R, C) ==
    /\ WellFormed(h)
    /\ R \in DOMAIN h /\ C \in DOMAIN h /\ R # C
    /\ h[R].kind = "ANT_ROOT" /\ h[C].kind = "ANT_CONFIG"
    /\ h[C].parent = R /\ C \in KidSet(h, R)
    /\ \A n \in DOMAIN h \ {R, C} : MadeNode(h, n)

LEMMA ConfigIsPlanted ==
    ASSUME NEW h, NEW f, NEW R, NEW lines, Rooting(h, f, R, lines), lines \in DOMAIN h,
           h[lines].kind = "ANT_SENTINEL", KidsAre(h, lines, {"ANT_SECTION_TYPE"}),
           NEW config, config = AstNodeNew(f, "ANT_CONFIG", AST_NODE_CONFIG_NAME, NoString),
           NEW C, C = Newest(config),
           NEW added, added = AstNodeAdd(config, R, C),
           NEW g, g = AstNodeMove(added, C, lines)
    PROVE  Planted(g, R, C)
<1> DEFINE x == NewNode("ANT_CONFIG", AST_NODE_CONFIG_NAME, NoString)
<1> DEFINE W == {lines, R}
<1>1. /\ Built(f, W) /\ R \notin DOMAIN h /\ DOMAIN f = DOMAIN h \cup {R}
      /\ f[R].kind = "ANT_ROOT" /\ f[lines] = h[lines]
      /\ \A n \in DOMAIN h : MadeNode(f, n) /\ f[n].kind = h[n].kind
  BY DEF Rooting
<1>2. C = Len(f) + 1
  BY <1>1, NewNodes DEF Newest, Built
<1>3. Built(config, W \cup {C}) /\ Creates(f, config, C, x)
  <2>1. "ANT_CONFIG" \in NodeKinds /\ AST_NODE_CONFIG_NAME \in Strings \cup {NoString}
    BY FileStrings DEF NodeKinds
  <2> HIDE DEF W
  <2>2. QED
    BY <1>1, <1>2, <2>1, NewIsBuilt
<1>4. /\ C \notin DOMAIN f /\ DOMAIN config = DOMAIN f \cup {C} /\ config[C] = x
      /\ \A n \in DOMAIN f : config[n] = f[n]
  BY <1>3 DEF Creates
<1>5. config[C].kind = "ANT_CONFIG" /\ config[C].number = 0
  BY <1>4 DEF x, NewNode
<1> HIDE DEF x
<1> DEFINE V == W \cup {C}
<1>6. /\ R \in DOMAIN config /\ C \in V /\ R # C /\ lines # C /\ lines # R
      /\ lines \in DOMAIN config /\ C \in DOMAIN config /\ V \ {C} = W
      /\ config[R].kind = "ANT_ROOT" /\ config[lines] = h[lines] /\ Built(config, V)
  BY <1>1, <1>3, <1>4
<1> HIDE DEF V
<1>7. Built(added, W) /\ Attaches(config, added, R, C) /\ Below(config, added, R, C)
  <2>1. config[C].kind \in BuiltKinds(config[R].kind)
    BY <1>5, <1>6 DEF BuiltKinds, ChildKinds
  <2>2. Built(added, V \ {C}) /\ Attaches(config, added, R, C) /\ Below(config, added, R, C)
    BY <1>6, <2>1, AddIsBuilt
  <2>3. QED
    BY <1>6, <2>2
<1>8. /\ DOMAIN added = DOMAIN config
      /\ \A n \in DOMAIN config \ {R, C} : added[n] = config[n]
      /\ \A n \in DOMAIN config : added[n].kind = config[n].kind
      /\ C \in KidSet(added, R) /\ added[C].parent = R
  BY <1>7 DEF Attaches, Below
<1>9. added[C].number = 0
  BY <1>5, <1>6, <1>7 DEF Below, SameArray
<1>10. added[lines] = h[lines]
  BY <1>6, <1>8
<1>11. KidSet(added, lines) = KidSet(h, lines) /\ KidSet(h, lines) \subseteq DOMAIN h
  <2>1. KidSet(added, lines) = KidSet(h, lines) /\ KidSet(f, lines) = KidSet(h, lines)
    BY <1>1, <1>10 DEF KidSet
  <2>2. KidSet(f, lines) \subseteq DOMAIN f /\ \A m \in KidSet(f, lines) : m # R
    <3>1. lines \in DOMAIN f /\ TypedAst(f) /\ R \in W
      BY <1>1 DEF Built
    <3>2. KidSet(f, lines) \subseteq DOMAIN f
      BY <3>1, TypedUnfolds, KidsFacts
    <3> HIDE DEF W
    <3>3. R \notin KidSet(f, lines)
      BY <1>1, <3>1, WaitingFree
    <3>4. QED
      BY <3>2, <3>3
  <2>3. QED
    BY <1>1, <2>1, <2>2
<1>12. \A m \in KidSet(added, lines) : added[m].kind \in BuiltKinds(added[C].kind)
  <2>1. \A m \in DOMAIN h : added[m].kind = h[m].kind
    BY <1>1, <1>4, <1>8
  <2>2. QED
    BY <1>5, <1>6, <1>8, <1>11, <2>1 DEF KidsAre, BuiltKinds, ChildKinds
<1>13. Built(g, W \ {lines}) /\ Transfers(added, g, C, lines)
  <2>1. C \in DOMAIN added /\ lines \in W /\ added[lines].kind = "ANT_SENTINEL"
        /\ added[C].kind = "ANT_CONFIG"
    BY <1>5, <1>6, <1>8, <1>10
  <2> HIDE DEF W
  <2>2. QED
    BY SMTT(30), <1>6, <1>7, <1>9, <1>12, <2>1, MoveIsBuilt
<1>14. /\ DOMAIN g = DOMAIN added /\ g[C].parent = R /\ KidSet(g, R) = KidSet(added, R)
       /\ \A n \in DOMAIN added : g[n].kind = added[n].kind
  BY <1>6, <1>8, <1>13 DEF Transfers
<1>15. Built(g, {})
  <2>1. \A n \in DOMAIN g : BuiltNode(g, {R}, n)
    <3>1. W \ {lines} = {R}
      BY <1>6
    <3>2. QED
      BY <1>13, <3>1 DEF Built
  <2>2. g[R].kind = "ANT_ROOT"
    BY <1>6, <1>8, <1>14
  <2>3. \A n \in DOMAIN g : BuiltNode(g, {}, n)
    BY <2>1, <2>2 DEF BuiltNode, PoolKinds
  <2>4. QED
    BY <1>13, <2>3 DEF Built
<1>16. WellFormed(g)
  BY <1>15, BuiltIsWellFormed
<1>17. ASSUME NEW n \in DOMAIN h PROVE MadeNode(g, n)
  <2>1. MadeNode(f, n) /\ n \in DOMAIN f /\ TypedAst(f) /\ n # R /\ n # C
    BY <1>1, <1>4 DEF Built
  <2>2. MadeNode(config, n) /\ n \in DOMAIN config
    BY <1>3, <1>4, <2>1, NewKeepsMade
  <2>3. MadeNode(added, n) /\ n \in DOMAIN added
    BY <1>6, <1>7, <1>8, <2>1, <2>2, AddKeepsMade
  <2>4. lines \in W /\ added[lines].kind = "ANT_SENTINEL" /\ C \in DOMAIN added
    BY <1>6, <1>8, <1>10
  <2> HIDE DEF W
  <2>5. QED
    BY <1>7, <1>13, <2>1, <2>3, <2>4, MoveKeepsMade
<1>18. QED
  <2>1. \A n \in DOMAIN g \ {R, C} : n \in DOMAIN h
    BY <1>1, <1>4, <1>8, <1>14
  <2>2. g[R].kind = "ANT_ROOT" /\ g[C].kind = "ANT_CONFIG" /\ C \in DOMAIN g /\ R \in DOMAIN g
    BY <1>5, <1>6, <1>8, <1>14
  <2>3. QED
    BY <1>6, <1>8, <1>14, <1>16, <1>17, <2>1, <2>2 DEF Planted

\* unnamed_section_name_set leaves no section below its config node unnamed, and the
\* counters ahead of the names, where no section had a name of that form before.
LEMMA FreshlyNumbered ==
    ASSUME NEW h, WellFormed(h), NEW c \in DOMAIN h, h[c].kind = "ANT_CONFIG",
           \A t \in DOMAIN h : h[t].kind = "ANT_SECTION_TYPE" =>
               /\ h[t].name \in TypeNames
               /\ ~Deleted(h, t) => t \in KidSet(h, c),
           \A s \in DOMAIN h : h[s].kind = "ANT_SECTION_NAME" => h[s].name \notin UnnamedNames,
           NEW g, g = UnnamedSectionNameSet(h, c)
    PROVE  Numbered(g)
<1>1. /\ Numbers(h, g, c) /\ DOMAIN g = DOMAIN h
      /\ \A m \in DOMAIN h :
          /\ g[m].kind = h[m].kind /\ g[m].parent = h[m].parent /\ SameArray(h, g, m)
          /\ m \in NamedTypes(h, c) =>
                g[m].unnamed = h[m].unnamed + Cardinality(WaitingAt(h, m))
          /\ ~ WaitsBelow(h, c, m) => g[m].name = h[m].name
          /\ WaitsBelow(h, c, m) => h[m].kind = "ANT_SECTION_NAME"
      /\ \A t \in NamedTypes(h, c) : \A k \in WaitingAt(h, t) :
             g[h[t].children[k]].name = NameAt(h, t, k)
  <2>1. Numbers(h, g, c)
    BY NumberedDetails
  <2>2. QED
    BY <2>1 DEF Numbers
<1>2. \A n \in DOMAIN h : TypedNode(h, n) /\ LayeredNode(h, n) /\ h[n].unnamed \in Nat
                          /\ KidSet(h, n) \subseteq DOMAIN h /\ h[n].number \in Nat
  BY WellFormedUnfolds, NodeFields, KidsFacts
<1>3. ASSUME NEW t \in DOMAIN g, g[t].kind = "ANT_SECTION_TYPE", ~Deleted(g, t),
             NEW s \in KidSet(g, t)
      PROVE  /\ ~Waiting(g, s)
             /\ ~Deleted(g, s) /\ g[s].name \in UnnamedNames /\ g[s].name[1] = g[t].name
                   => g[s].name[2] < g[t].unnamed
  <2>1. t \in DOMAIN h /\ h[t].kind = "ANT_SECTION_TYPE" /\ ~Deleted(h, t)
    BY <1>1, <1>3 DEF Deleted
  <2>2. h[t].name \in TypeNames /\ h[t].name # NoString /\ t \in NamedTypes(h, c)
    BY <2>1, FileStrings DEF NamedTypes
  <2>3. KidSet(g, t) = KidSet(h, t)
    BY <1>1, <2>1 DEF KidSet, SameArray
  <2>4. PICK k \in 1 .. h[t].number : s = h[t].children[k]
    BY <1>3, <2>3 DEF KidSet
  <2>5. s \in DOMAIN h /\ h[s].kind = "ANT_SECTION_NAME"
    BY <1>2, <1>3, <2>1, <2>3 DEF LayeredNode, ChildKinds
  <2>6. CASE Waiting(h, s)
    <3> DEFINE before == {i \in WaitingAt(h, t) : i < k}
    <3> DEFINE index == h[t].unnamed + Cardinality(before)
    <3>1. k \in WaitingAt(h, t)
      BY <2>4, <2>6 DEF WaitingAt
    <3>2. g[s].name = << h[t].name, index >>
      BY <1>1, <2>2, <2>4, <3>1 DEF NameAt, UnnamedName
    <3>3. /\ Cardinality(before) \in Nat /\ Cardinality(WaitingAt(h, t)) \in Nat
          /\ Cardinality(before) < Cardinality(WaitingAt(h, t))
      <4>1. IsFiniteSet(1 .. h[t].number)
        BY <1>2, <2>1, FS_Interval
      <4>2. IsFiniteSet(WaitingAt(h, t))
        BY <4>1, FS_Subset DEF WaitingAt
      <4>3. before \in SUBSET WaitingAt(h, t) /\ k \notin before
        BY <1>2, <2>1 DEF WaitingAt
      <4>4. /\ IsFiniteSet(before) /\ Cardinality(before) <= Cardinality(WaitingAt(h, t))
            /\ Cardinality(WaitingAt(h, t)) = Cardinality(before) => WaitingAt(h, t) = before
        BY <4>2, <4>3, FS_Subset
      <4>5. Cardinality(before) \in Nat /\ Cardinality(WaitingAt(h, t)) \in Nat
        BY <4>2, <4>4, FS_CardinalityType
      <4>6. QED
        BY <3>1, <4>3, <4>4, <4>5
    <3> HIDE DEF before
    <3>4. index \in Nat /\ index < g[t].unnamed
      BY <1>1, <1>2, <2>1, <2>2, <3>3
    <3> HIDE DEF index
    <3>5. g[s].name \in UnnamedNames /\ g[s].name[2] = index
      BY <2>2, <3>2, <3>4 DEF UnnamedNames
    <3>6. g[s].name # Placeholder
      BY <3>5, NamesAssumption
    <3>7. QED
      BY <3>4, <3>5, <3>6 DEF Waiting
  <2>7. CASE ~Waiting(h, s)
    <3>1. ~ WaitsBelow(h, c, s)
      BY <2>7, WaitsBelowFacts DEF WaitsBelow
    <3>2. g[s].name = h[s].name /\ g[s].kind = h[s].kind /\ g[s].parent = h[s].parent
      BY <1>1, <2>5, <3>1
    <3>3. g[s].name \notin UnnamedNames
      BY <2>5, <3>2
    <3>4. QED
      BY <2>7, <3>2, <3>3 DEF Waiting, Deleted
  <2>8. QED
    BY <2>6, <2>7
<1>4. QED
  BY <1>3 DEF Numbered

\* Root is the only root, and ConfigNode one of its children.
LEMMA ConfigIsFound ==
    ASSUME NEW h, TypedAst(h), NEW R \in DOMAIN h, h[R].kind = "ANT_ROOT",
           \A n \in DOMAIN h : h[n].kind = "ANT_ROOT" => n = R,
           NEW C \in KidSet(h, R), h[C].kind = "ANT_CONFIG", ~Deleted(h, C)
    PROVE  ConfigNode(h) # NoNode
<1> DEFINE kids == Kids(h, Root(h))
<1> DEFINE Test(n) == ~Deleted(h, n) /\ h[n].kind = "ANT_CONFIG"
<1> DEFINE at == SelectInSeq(kids, Test)
<1>1. Root(h) = R
  BY DEF Root
<1>2. /\ kids \in Seq(DOMAIN h) /\ Len(kids) = h[R].number /\ h[R].number \in Nat
      /\ \A k \in 1 .. h[R].number : kids[k] = h[R].children[k]
  BY <1>1, TypedUnfolds, KidsFacts, NodeFields
<1>3. PICK k \in 1 .. h[R].number : C = h[R].children[k]
  BY DEF KidSet
<1> DEFINE T == {i \in 1 .. Len(kids) : Test(kids[i])}
<1>4. k \in T
  BY <1>2, <1>3
<1>5. at = Min(T)
  BY <1>4 DEF SelectInSeq
<1>6. Min(T) \in T
  <2> HIDE DEF kids
  <2>1. T \subseteq 1 .. Len(kids) /\ T # {} /\ Len(kids) \in Nat
    BY <1>2, <1>4
  <2> HIDE DEF T
  <2>2. QED
    BY <2>1, LeastIsIn
<1>7. at \in 1 .. Len(kids)
  BY <1>5, <1>6
<1>8. kids[at] \in DOMAIN h /\ NoNode \notin DOMAIN h
  BY SMTT(30), <1>2, <1>7, TypedUnfolds DEF NoNode
<1>9. at # 0
  BY <1>2, <1>7
<1>10. ConfigNode(h) = IF at = 0 THEN NoNode ELSE kids[at]
  BY DEF ConfigNode
<1> HIDE DEF at, kids
<1>11. QED
  BY <1>8, <1>9, <1>10

\* The AST of a file.
ParsedHeap(h) ==
    /\ WellFormed(h) /\ Orderly(h) /\ ConfigNode(h) # NoNode
    /\ SectionNames \cap UnnamedNames = {} => Numbered(h)

\* The last two operations on it.
LEMMA PlantedIsParsed ==
    ASSUME NEW h, NEW R, NEW C, Planted(h, R, C),
           NEW m, m = AstNodeMerge(h, C), NEW g, g = UnnamedSectionNameSet(m, C)
    PROVE  ParsedHeap(g)
<1>1. /\ WellFormed(h) /\ R \in DOMAIN h /\ C \in DOMAIN h /\ R # C
      /\ h[R].kind = "ANT_ROOT" /\ h[C].kind = "ANT_CONFIG"
      /\ h[C].parent = R /\ C \in KidSet(h, R)
      /\ \A n \in DOMAIN h \ {R, C} : MadeNode(h, n)
  BY DEF Planted
<1>2. \A n \in DOMAIN h : TypedNode(h, n) /\ LayeredNode(h, n) /\ KidSet(h, n) \subseteq DOMAIN h
  BY <1>1, WellFormedUnfolds, KidsFacts
<1>3. WellFormed(m) /\ DOMAIN m = DOMAIN h
  BY <1>1, MergedIsWellFormed
<1>4. \A n \in DOMAIN h : m[n].kind = h[n].kind /\ m[n].name = h[n].name
  BY <1>1, MergedIsWellFormed
<1>5. WellFormed(g) /\ DOMAIN g = DOMAIN h
      /\ \A n \in DOMAIN h : g[n].kind = h[n].kind /\ g[n].parent = m[n].parent
  <2>1. C \in DOMAIN m /\ m[C].kind = "ANT_CONFIG"
    BY <1>1, <1>3, <1>4
  <2>2. /\ WellFormed(g) /\ DOMAIN g = DOMAIN m
        /\ \A n \in DOMAIN m : g[n].kind = m[n].kind /\ g[n].parent = m[n].parent
    BY <1>3, <2>1, NumberedIsWellFormed
  <2>3. QED
    BY <1>3, <1>4, <2>2
<1>6. \A n \in DOMAIN h : /\ h[n].kind = "ANT_ROOT" <=> n = R
                          /\ h[n].kind = "ANT_CONFIG" <=> n = C
  BY <1>1 DEF MadeNode
<1>7. OrderlyBut(h, {}, {C})
  <2>1. \A n \in DOMAIN h : AttributedNode(h, n)
    <3>1. ASSUME NEW n \in DOMAIN h \ {R, C} PROVE AttributedNode(h, n)
      BY <1>1, FileStrings DEF MadeNode, AttributedNode
    <3>2. AttributedNode(h, R) /\ AttributedNode(h, C)
      BY <1>1 DEF AttributedNode, LineKinds
    <3>3. QED
      BY <3>1, <3>2
  <2>2. LinesDistinct(h)
    <3>1. ASSUME NEW s \in DOMAIN h, h[s].kind = "ANT_SECTION_NAME" PROVE DistinctBelow(h, s)
      BY <1>1, <3>1 DEF MadeNode
    <3>2. QED
      BY <3>1 DEF LinesDistinct, DistinctBelow
  <2>3. ArraysKept(h)
    <3>1. ASSUME NEW t \in DOMAIN h, h[t].kind = "ANT_SECTION_TYPE"
          PROVE  h[t].children # <<>> /\ h[t].number > 0
      BY <1>1, <3>1 DEF MadeNode
    <3>2. QED
      BY <3>1 DEF ArraysKept
  <2>4. QED
    BY <1>1, <1>6, <2>1, <2>2, <2>3 DEF OrderlyBut, Rooted
<1>8. OrderlyBut(m, {}, {C})
  <2>1. TypesStay(h, m, {C}) /\ LinesStay(h, m) /\ \A n \in DOMAIN h : AttributesStay(h, m, n)
    BY <1>1, MergeStays
  <2>2. \A n \in DOMAIN m \ {} : AttributedNode(m, n)
    BY <1>3, <1>7, <2>1, AttributedStays DEF OrderlyBut
  <2>3. {C} \subseteq DOMAIN h
    BY <1>1
  <2>4. QED
    BY <1>1, <1>7, <2>1, <2>2, <2>3, OrderlyStays
<1>9. OrderlyBut(m, {}, {})
  <2>1. \A t \in KidSet(h, C) : h[t].name # NoString
    <3>1. ASSUME NEW t \in KidSet(h, C) PROVE h[t].name # NoString
      <4>1. t \in DOMAIN h /\ h[t].kind = "ANT_SECTION_TYPE"
        BY <1>1, <1>2 DEF LayeredNode, ChildKinds
      <4>2. MadeNode(h, t)
        BY <1>1, <4>1
      <4>3. QED
        BY <4>1, <4>2, FileStrings DEF MadeNode
    <3>2. QED
      BY <3>1
  <2>2. MergedBelow(m, C)
    BY <1>1, <2>1, MergedIsMerged
  <2>3. QED
    BY <1>8, <2>2 DEF OrderlyBut
<1>10. Orderly(g)
  <2>1. TypesStay(m, g, {}) /\ LinesStay(m, g) /\ \A n \in DOMAIN m : AttributesStay(m, g, n)
    BY <1>1, <1>3, <1>4, NumberingStays
  <2>2. \A n \in DOMAIN g \ {} : AttributedNode(g, n)
    BY <1>3, <1>5, <1>9, <2>1, AttributedStays DEF OrderlyBut
  <2>3. OrderlyBut(g, {}, {})
    BY <1>3, <1>9, <2>1, <2>2, OrderlyStays
  <2>4. QED
    BY <2>3, OrderlyParts
<1>11. ConfigNode(g) # NoNode
  <2>1. C \in KidSet(g, R)
    <3>1. SameArray(h, m, R)
      BY <1>1, MergedDetails
    <3>2. SameArray(m, g, R)
      BY <1>1, <1>3, <1>4, NumberedDetails DEF Numbers
    <3>3. QED
      BY <1>1, <3>1, <3>2 DEF SameArray, KidSet
  <2>2. m[C].parent = R
    <3>1. C \notin KidSet(h, C)
      BY <1>1, <1>2 DEF LayeredNode, ChildKinds
    <3>2. /\ Orphan(h, Kids(h, C), C) => h[C].kind = "ANT_SECTION_NAME"
          /\ C \notin KidSet(h, C) /\ ~ Orphan(h, Kids(h, C), C) => m[C].parent = h[C].parent
      BY <1>1, MergedDetails
    <3>3. QED
      BY <1>1, <3>1, <3>2
  <2>3. ~Deleted(g, C) /\ g[C].kind = "ANT_CONFIG"
    BY <1>1, <1>5, <2>2, WellFormedUnfolds DEF Deleted, NoNode
  <2>4. \A n \in DOMAIN g : g[n].kind = "ANT_ROOT" => n = R
    BY <1>5, <1>6
  <2>5. TypedAst(g) /\ R \in DOMAIN g /\ g[R].kind = "ANT_ROOT"
    BY <1>1, <1>5 DEF WellFormed
  <2>6. QED
    BY <2>1, <2>3, <2>4, <2>5, ConfigIsFound
<1>12. ASSUME SectionNames \cap UnnamedNames = {} PROVE Numbered(g)
  <2>1. ASSUME NEW t \in DOMAIN m, m[t].kind = "ANT_SECTION_TYPE"
        PROVE  /\ m[t].name \in TypeNames
               /\ ~Deleted(m, t) => t \in KidSet(m, C)
    <3>1. MadeNode(h, t) /\ m[t].name \in TypeNames
      BY <1>1, <1>3, <1>4, <2>1 DEF MadeNode
    <3>2. TypedNode(m, t) /\ LayeredNode(m, t)
      BY <1>3, <2>1, WellFormedUnfolds
    <3>3. m[t].parent \in DOMAIN m \cup {NoNode, Pool}
      BY <3>2, NodeFields
    <3>4. m[t].parent # Pool
      BY <2>1, <3>2 DEF LayeredNode, PoolKinds
    <3>5. m[t].parent \in DOMAIN m => m[t].parent = C
      <4>1. m[t].parent \in DOMAIN m => "ANT_SECTION_TYPE" \in ChildKinds(m[m[t].parent].kind)
        BY <2>1, <3>2 DEF LayeredNode
      <4>2. QED
        BY <1>3, <1>4, <1>6, <4>1 DEF ChildKinds
    <3>6. m[t].parent \in DOMAIN m => t \in KidSet(m, m[t].parent)
      BY <1>3, <2>1 DEF WellFormed, ParentsAgree
    <3>7. QED
      BY <3>1, <3>3, <3>4, <3>5, <3>6 DEF Deleted
  <2>2. ASSUME NEW s \in DOMAIN m, m[s].kind = "ANT_SECTION_NAME" PROVE m[s].name \notin UnnamedNames
    <3>1. s \in DOMAIN h \ {R, C} /\ h[s].kind = "ANT_SECTION_NAME" /\ m[s].name = h[s].name
      BY <1>1, <1>3, <1>4, <2>2
    <3>2. h[s].name \in SectionNames \cup {Placeholder}
      BY <1>1, <3>1 DEF MadeNode
    <3>3. QED
      BY <1>12, <3>1, <3>2, NamesAssumption
  <2>3. C \in DOMAIN m /\ m[C].kind = "ANT_CONFIG"
    BY <1>1, <1>3, <1>4
  <2>4. QED
    BY <1>3, <2>1, <2>2, <2>3, FreshlyNumbered
<1>13. QED
  BY <1>5, <1>10, <1>11, <1>12 DEF ParsedHeap

\* root : lines | package lines
LEMMA RootParses ==
    ASSUME NEW h, NEW lines, NEW package, NEW W,
           W = {lines} \cup ({package} \ {NoNode}), Built(h, W), Made(h), package # lines,
           package # NoNode => h[package].kind = "ANT_PACKAGE",
           h[lines].kind = "ANT_SENTINEL", KidsAre(h, lines, {"ANT_SECTION_TYPE"})
    PROVE  ParsedHeap(ReduceRoot(h, package, lines).heap)
<1> DEFINE root == AstNodeNew(h, "ANT_ROOT", AST_NODE_ROOT_NAME, NoString)
<1> DEFINE R == Newest(root)
<1> DEFINE packaged == IF package = NoNode THEN root ELSE AstNodeAdd(root, R, package)
<1> DEFINE config == AstNodeNew(packaged, "ANT_CONFIG", AST_NODE_CONFIG_NAME, NoString)
<1> DEFINE C == Newest(config)
<1> DEFINE added == AstNodeAdd(config, R, C)
<1> DEFINE moved == AstNodeMove(added, C, lines)
<1> DEFINE merged == AstNodeMerge(moved, C)
<1> DEFINE numbered == UnnamedSectionNameSet(merged, C)
<1>1. ReduceRoot(h, package, lines).heap
          = Whole(UnnamedSectionNameSet(Whole(merged), C))
  BY DEF ReduceRoot, Reduced
<1>2. Rooting(h, packaged, R, lines)
  <2> HIDE DEF root
  <2>1. packaged = IF package = NoNode THEN root ELSE AstNodeAdd(root, Newest(root), package)
    OBVIOUS
  <2> HIDE DEF packaged
  <2>2. QED
    BY <2>1, RootIsPlaced DEF root
<1>3. lines \in DOMAIN h
  BY DEF Built
<1>4. Planted(moved, R, C)
  <2> HIDE DEF packaged, R
  <2>1. QED
    BY <1>2, <1>3, ConfigIsPlanted
<1> HIDE DEF moved, C, R
<1>5. WellFormed(merged)
  BY <1>4, MergedIsWellFormed DEF Planted
<1>6. ParsedHeap(numbered)
  BY <1>4, PlantedIsParsed
<1> HIDE DEF merged, numbered
<1>7. Whole(merged) = merged
  BY <1>5, WholeIsSame DEF WellFormed
<1>8. Whole(numbered) = numbered
  BY <1>6, WholeIsSame DEF WellFormed, ParsedHeap
<1>9. QED
  BY <1>1, <1>6, <1>7, <1>8 DEF numbered

-----------------------------------------------------------------------------
(***************************************************************************)
(* The stack before and after a step of the parser.                        *)
(***************************************************************************)

\* The stack after a token is shifted.
LEMMA ShiftedStack ==
    ASSUME StringsInv, Shift
    PROVE  LET q == ShiftTo(Top, YYTRANSLATE[yychar])
           IN  /\ DOMAIN stack = 1 .. Len(stack) /\ DOMAIN stack' = 1 .. Len(stack) + 1
               /\ Len(stack) \in Nat /\ Len(stack') = Len(stack) + 1
               /\ \A k \in 1 .. Len(stack) : stack'[k] = stack[k]
               /\ stack'[Len(stack) + 1] = Item(q, yylval)
               /\ yychar \in TokenKinds /\ q \in States /\ At(yystos, q) = YYTRANSLATE[yychar]
               /\ IsValue(q) <=> yychar = "VALUE"
<1> DEFINE q == ShiftTo(Top, YYTRANSLATE[yychar])
<1>1. stack' = Append(stack, Item(q, yylval))
  BY DEF Shift
<1>2. PICK V : stack \in Seq(Items(V))
  BY StringsTyped
<1>3. yychar \in TokenKinds /\ q \in States /\ At(yystos, q) = YYTRANSLATE[yychar]
  BY ShiftFacts DEF StringsInv
<1>4. IsValue(q) <=> yychar = "VALUE"
  BY <1>3 DEF IsValue, YYTRANSLATE, YYSYMBOL_VALUE, TokenKinds, Keywords
<1> HIDE DEF q
<1> DEFINE W == Items(V \cup {yylval})
<1>5. stack \in Seq(W) /\ Item(q, yylval) \in W
  <2>1. Seq(Items(V)) \subseteq Seq(W)
    BY SeqMonotonic DEF Items
  <2>2. QED
    BY <1>2, <1>3, <2>1 DEF Items, Item
<1> HIDE DEF W
<1>6. /\ DOMAIN stack = 1 .. Len(stack) /\ DOMAIN stack' = 1 .. Len(stack) + 1
      /\ Len(stack) \in Nat /\ Len(stack') = Len(stack) + 1
      /\ \A k \in 1 .. Len(stack) : stack'[k] = stack[k]
      /\ stack'[Len(stack) + 1] = Item(q, yylval)
  BY <1>1, <1>5, AppendProperties, LenProperties
<1>7. QED
  BY <1>3, <1>4, <1>6 DEF q

\* The stack and the heap after a rule is reduced: rhs holds the values of its symbols.
LEMMA ReducedStack ==
    ASSUME StringsInv, Reduce
    PROVE  LET left == Len(stack) - Size(Top)
               q    == Goto(stack[left].state, LeftSide(Top))
           IN  /\ Len(stack) \in Nat /\ DOMAIN stack = 1 .. Len(stack)
               /\ Top \in States /\ Size(Top) \in 1 .. Len(stack) - 1
               /\ At(yydefact, Top) # 0 /\ Top # YYFINAL
               /\ left \in 1 .. Len(stack) /\ left < Len(stack)
               /\ Leads(stack[left].state, LeftSide(Top))
               /\ ~IsValue(q)
               /\ DOMAIN stack' = 1 .. left + 1 /\ Len(stack') = left + 1
               /\ \A k \in 1 .. left : stack'[k] = stack[k]
               /\ \E rhs :
                  /\ \A j \in 1 .. Size(Top) : rhs[j] = stack[left + j].value
                  /\ LET r == RuleAction(At(yydefact, Top), heap, tokens, rhs)
                     IN  heap' = r.heap /\ stack'[left + 1] = Item(q, r.node)
<1> DEFINE n == Len(stack)
<1> DEFINE left == n - Size(Top)
<1> DEFINE q == Goto(stack[left].state, LeftSide(Top))
<1>1. PICK V : stack \in Seq(Items(V)) /\ Path(stack)
  BY StringsTyped
<1>2. /\ Top \in States /\ Size(Top) \in 1 .. n - 1
      /\ Leads(stack[left].state, LeftSide(Top))
      /\ Top = Last(stack).state /\ At(yydefact, Top) # 0 /\ Top # YYFINAL
  BY <1>1, ReduceFacts DEF Top, Reduce, Default, Parsing
<1>3. n \in Nat /\ left \in 1 .. n /\ left < n /\ Size(Top) = n - left /\ DOMAIN stack = 1 .. n
  BY <1>1, <1>2, LenProperties
<1>4. ~IsValue(q)
  BY <1>2, RuleFacts DEF Leads, IsValue, YYSYMBOL_VALUE
<1> DEFINE top == SubSeq(stack, left + 1, n)
<1> DEFINE rhs == SeqMap(LAMBDA item : item.value, top)
<1>5. \A j \in 1 .. Size(Top) : rhs[j] = stack[left + j].value
  <2>1. /\ DOMAIN top = 1 .. Size(Top)
        /\ \A j \in 1 .. Size(Top) : top[j] = stack[left + j]
    <3> HIDE DEF left, n
    <3>1. /\ SubSeq(stack, left + 1, n) \in Seq(Items(V))
          /\ Len(SubSeq(stack, left + 1, n)) = n - left
          /\ \A j \in 1 .. n - left : SubSeq(stack, left + 1, n)[j] = stack[left + j]
      <4>1. \A k \in 1 .. n : stack[k] \in Items(V)
        BY <1>1, <1>3, ElementOfSeq DEF n
      <4>2. QED
        BY <1>1, <1>3, <4>1, SubSeqProperties
    <3>2. QED
      BY <1>3, <3>1, LenProperties
  <2> HIDE DEF left, n, top
  <2>2. QED
    BY <2>1 DEF SeqMap
<1> DEFINE r == RuleAction(At(yydefact, Top), heap, tokens, rhs)
<1>6. heap' = r.heap /\ stack' = Append(SubSeq(stack, 1, left), Item(q, r.node))
  BY DEF Reduce, Size, LeftSide, Default
<1> HIDE DEF r
<1>7. /\ DOMAIN stack' = 1 .. left + 1 /\ Len(stack') = left + 1
      /\ \A k \in 1 .. left : stack'[k] = stack[k]
      /\ stack'[left + 1] = Item(q, r.node)
  <2> DEFINE rest == SubSeq(stack, 1, left)
  <2> DEFINE W == Items(V \cup {r.node})
  <2> HIDE DEF left
  <2>1. rest \in Seq(Items(V)) /\ Len(rest) = left /\ \A k \in 1 .. left : rest[k] = stack[k]
    BY <1>1, <1>3, PathPop
  <2>2. rest \in Seq(W) /\ Item(q, r.node) \in W
    <3>1. Seq(Items(V)) \subseteq Seq(W)
      BY SeqMonotonic DEF Items
    <3>2. QED
      BY <1>2, <2>1, <3>1 DEF Items, Item, Leads
  <2> HIDE DEF W, rest, q
  <2>3. QED
    BY <1>3, <1>6, <2>1, <2>2, AppendProperties, LenProperties DEF rest
<1> HIDE DEF rhs
<1>8. QED
  BY <1>2, <1>3, <1>4, <1>5, <1>6, <1>7 DEF r

\* The stack after its top is popped.
LEMMA PoppedStack ==
    ASSUME StringsInv, Pop
    PROVE  /\ Len(stack) \in Nat /\ Len(stack) > 1 /\ DOMAIN stack = 1 .. Len(stack)
           /\ DOMAIN stack' = 1 .. Len(stack) - 1
           /\ \A k \in 1 .. Len(stack) - 1 : stack'[k] = stack[k]
<1> DEFINE n == Len(stack)
<1>1. stack' = SubSeq(stack, 1, n - 1) /\ n > 1
  BY DEF Pop, Front
<1>2. PICK V : stack \in Seq(Items(V)) /\ Path(stack) /\ DOMAIN stack = 1 .. n /\ n \in Nat
  BY StringsTyped
<1> HIDE DEF n
<1>3. n - 1 \in 1 .. Len(stack)
  BY <1>1, <1>2 DEF n
<1>4. /\ SubSeq(stack, 1, n - 1) \in Seq(Items(V))
      /\ Len(SubSeq(stack, 1, n - 1)) = n - 1
      /\ \A k \in 1 .. n - 1 : SubSeq(stack, 1, n - 1)[k] = stack[k]
  BY <1>2, <1>3, PathPop
<1>5. QED
  BY <1>1, <1>2, <1>4, LenProperties DEF n

-----------------------------------------------------------------------------
(***************************************************************************)
(* The tokens.  The lexer promises a word of a kind only at the place of a *)
(* section type or name, so that the texts the semantic actions take from  *)
(* the stack are of that kind.                                             *)
(***************************************************************************)

\* The keyword after the last of which nothing but words have been read.
LEMMA KeywordIsLast ==
    ASSUME NEW T, NEW ts \in Seq([kind : TokenKinds, text : T])
    PROVE  LET k == KeywordOf(ts, Len(ts) + 1)
           IN  /\ k # 0 => k \in 1 .. Len(ts) /\ ts[k].kind \in Keywords
               /\ \A j \in 1 .. Len(ts) :
                     ts[j].kind \in Keywords /\ (\A l \in j + 1 .. Len(ts) : ts[l].kind \notin Keywords)
                     => k = j
<1> DEFINE n == Len(ts)
<1> DEFINE before == {k \in 1 .. n : ts[k].kind \in Keywords}
<1>1. n \in Nat
  BY LenProperties
<1>2. KeywordOf(ts, n + 1) = IF before = {} THEN 0 ELSE Max(before)
  <2>1. 1 .. (n + 1) - 1 = 1 .. n
    BY <1>1
  <2> HIDE DEF n
  <2>2. QED
    BY <2>1 DEF KeywordOf
<1>3. before # {} => Max(before) \in before /\ \A m \in before : m <= Max(before)
  <2>1. before \subseteq 1 .. n
    OBVIOUS
  <2> HIDE DEF before, n
  <2>2. QED
    BY <1>1, <2>1, LeastIsIn
<1> HIDE DEF n
<1>4. ASSUME NEW j \in 1 .. n, ts[j].kind \in Keywords,
             \A l \in j + 1 .. n : ts[l].kind \notin Keywords
      PROVE  KeywordOf(ts, n + 1) = j
  <2>1. j \in before
    BY <1>4
  <2>2. Max(before) \in 1 .. n /\ ts[Max(before)].kind \in Keywords /\ j <= Max(before)
    BY <1>3, <2>1
  <2>3. ~ (Max(before) \in j + 1 .. n)
    BY <1>4, <2>2
  <2>4. Max(before) = j
    BY <1>1, <2>2, <2>3
  <2>5. QED
    BY <1>2, <2>1, <2>4
<1>5. KeywordOf(ts, n + 1) # 0 =>
         KeywordOf(ts, n + 1) \in 1 .. n /\ ts[KeywordOf(ts, n + 1)].kind \in Keywords
  BY <1>2, <1>3
<1>6. QED
  BY <1>4, <1>5 DEF n

\* The words of a file are strings.
LEMMA WordsAreStrings ==
    ASSUME NEW T, NEW ts \in Seq([kind : TokenKinds, text : T])
    PROVE  LET k == KeywordOf(ts, Len(ts) + 1)
           IN  /\ Reader!WordsAt(ts) \subseteq Strings
               /\ k # 0 /\ ts[k].kind = "CONFIG" =>
                     Reader!WordsAt(ts) = IF k = Len(ts) THEN TypeNames ELSE SectionNames
<1> DEFINE k == KeywordOf(ts, Len(ts) + 1)
<1>1. k # 0 => k \in 1 .. Len(ts) /\ ts[k].kind \in Keywords
  BY KeywordIsLast
<1>2. Len(ts) \in Nat
  BY LenProperties
<1>3. /\ TypeNames \subseteq Strings /\ SectionNames \subseteq Strings
      /\ OptionNames \subseteq Strings /\ Values \subseteq Strings
  BY DEF Strings
<1> DEFINE keyword == IF k = 0 THEN "PACKAGE" ELSE ts[k].kind
<1>4. Reader!WordsAt(ts) =
          CASE keyword = "PACKAGE"                  -> SectionNames
            [] keyword = "CONFIG" /\ k = Len(ts)   -> TypeNames
            [] keyword = "CONFIG" /\ k < Len(ts)   -> SectionNames
            [] keyword \in {"OPTION", "LIST"}      -> IF k = Len(ts) THEN OptionNames ELSE Values
  <2>1. Reader!KeywordOf(ts, Len(ts) + 1) = k
    BY DEF Reader!KeywordOf, KeywordOf, Reader!Keywords, Keywords, Reader!Max, Max
  <2> HIDE DEF k
  <2>2. QED
    BY <2>1 DEF Reader!WordsAt
<1>5. keyword \in Keywords
  BY <1>1 DEF Keywords
<1>6. keyword # "PACKAGE" => k \in 1 .. Len(ts)
  BY <1>1
<1>7. k # 0 => keyword = ts[k].kind
  OBVIOUS
<1> HIDE DEF k, keyword
<1>8. CASE keyword = "PACKAGE"
  <2>1. Reader!WordsAt(ts) = SectionNames
    BY <1>4, <1>8
  <2>2. QED
    BY <1>3, <1>7, <1>8, <2>1 DEF k
<1>9. CASE keyword = "CONFIG"
  <2>1. Reader!WordsAt(ts) = IF k = Len(ts) THEN TypeNames ELSE SectionNames
    <3>1. k = Len(ts) \/ k < Len(ts)
      BY <1>2, <1>6, <1>9
    <3>2. CASE k = Len(ts)
      BY <1>4, <1>9, <3>2
    <3>3. CASE k # Len(ts)
      BY <1>4, <1>9, <3>1, <3>3
    <3>4. QED
      BY <3>2, <3>3
  <2>2. QED
    BY <1>3, <2>1 DEF k
<1>10. CASE keyword \in {"OPTION", "LIST"}
  <2>1. Reader!WordsAt(ts) = IF k = Len(ts) THEN OptionNames ELSE Values
    BY <1>4, <1>10
  <2>2. QED
    BY <1>3, <1>7, <1>10, <2>1 DEF k
<1>11. QED
  BY <1>5, <1>8, <1>9, <1>10 DEF Keywords

\* The next token, and its text.
LEMMA NextText ==
    ASSUME NEW ts, NEW t \in Reader!NextTokens(ts)
    PROVE  /\ t.kind \in TokenKinds /\ t.kind # "YYEMPTY"
           /\ t = [kind |-> t.kind, text |-> t.text]
           /\ t.text = NoString \/ t.text \in Reader!WordsAt(ts)
           /\ t.kind = "VALUE" => t.text \in Reader!WordsAt(ts)
BY DEF Reader!NextTokens, Reader!Bare, Reader!Token, TokenKinds, Keywords

Text(i) == tokens[i].text

\* The last token, and the one before it.
LastKind(kind)   == Len(tokens) >= 1 /\ tokens[Len(tokens)].kind = kind
BeforeKind(kind) == Len(tokens) >= 2 /\ tokens[Len(tokens) - 1].kind = kind

\* State 1 waits for the type of a section, state 8 for its name.
TextsInv ==
    /\ tokens \in Seq([kind : TokenKinds, text : Strings \cup {NoString}])
    /\ \A i \in Words : Text(i) \in Strings
    /\ yylval \in 0 .. Len(tokens)
    /\ \A k \in DOMAIN stack : /\ stack[k].state = 8 => Text(stack[k].value) \in TypeNames
                               /\ stack[k].state = 13 => Text(stack[k].value) \in SectionNames
    /\ phase = "parsing" =>
       /\ yychar # "YYEMPTY" => LastKind(yychar)
       /\ yychar = "YYEMPTY" /\ Top = 1 => LastKind("CONFIG")
       /\ yychar = "YYEMPTY" /\ Top = 8 => LastKind("VALUE") /\ BeforeKind("CONFIG")
       /\ yychar # "YYEMPTY" /\ Top = 1 => BeforeKind("CONFIG")
       /\ yychar = "VALUE" /\ Top = 1 => Text(yylval) \in TypeNames
       /\ yychar = "VALUE" /\ Top = 8 => Text(yylval) \in SectionNames

LEMMA TextsInit == Init => TextsInv
<1> SUFFICES ASSUME Init PROVE TextsInv
  OBVIOUS
<1>1. /\ tokens = <<>> /\ yychar = "YYEMPTY" /\ yylval = 0 /\ stack = << Item(0, 0) >>
  BY DEF Init
<1>2. Words = {} /\ Len(tokens) = 0 /\ Top = 0 /\ \A k \in DOMAIN stack : stack[k].state = 0
  BY <1>1 DEF Words, Top, Last, Item
<1>3. QED
  BY <1>1, <1>2 DEF TextsInv

LEMMA TextsYylex ==
    ASSUME StringsInv, TextsInv, Yylex
    PROVE  TextsInv'
<1> DEFINE Toks == [kind : TokenKinds, text : Strings \cup {NoString}]
<1> DEFINE n == Len(tokens)
<1>1. PICK t \in Reader!NextTokens(tokens) :
         /\ tokens' = Append(tokens, t)
         /\ yychar' = t.kind
         /\ yylval' = IF t.kind = "VALUE" THEN n + 1 ELSE yylval
  BY DEF Yylex
<1>2. UNCHANGED <<stack, phase>> /\ yychar = "YYEMPTY" /\ phase = "parsing"
  BY DEF Yylex, Decided, Parsing
<1>3. tokens \in Seq(Toks) /\ n \in Nat
  BY LenProperties DEF TextsInv
<1>4. /\ t \in Toks /\ t.kind # "YYEMPTY"
      /\ t.kind = "VALUE" => t.text \in Reader!WordsAt(tokens) /\ t.text \in Strings
  <2>1. /\ t.kind \in TokenKinds /\ t.kind # "YYEMPTY"
        /\ t = [kind |-> t.kind, text |-> t.text]
        /\ t.text = NoString \/ t.text \in Reader!WordsAt(tokens)
        /\ t.kind = "VALUE" => t.text \in Reader!WordsAt(tokens)
    BY NextText
  <2>2. Reader!WordsAt(tokens) \subseteq Strings
    BY <1>3, WordsAreStrings
  <2>3. QED
    BY <2>1, <2>2
<1>20. tokens \in Seq([kind : TokenKinds, text : Strings \cup {NoString}])
  BY DEF TextsInv
<1> HIDE DEF Toks, n
<1>5. /\ tokens' \in Seq(Toks) /\ Len(tokens') = n + 1
      /\ \A k \in 1 .. n : tokens'[k] = tokens[k]
      /\ tokens'[n + 1] = t
      /\ DOMAIN tokens = 1 .. n /\ DOMAIN tokens' = 1 .. n + 1
  BY <1>1, <1>3, <1>4, AppendProperties, LenProperties DEF n
<1>6. \A i \in Words' : Text(i)' \in Strings
  <2>1. \A i \in Words : Text(i) \in Strings
    BY DEF TextsInv
  <2>2. \A i \in 1 .. n : i \in Words' => i \in Words /\ Text(i)' = Text(i)
    BY <1>5 DEF Words, Text
  <2>3. tokens'[n + 1].kind = "VALUE" => tokens'[n + 1].text \in Strings
    BY <1>4, <1>5
  <2>4. \A i \in Words' : (i \in 1 .. n \/ i = n + 1) /\ tokens'[i].kind = "VALUE"
    BY <1>3, <1>5 DEF Words
  <2>5. ASSUME NEW i \in Words' PROVE tokens'[i].text \in Strings
    <3>1. CASE i \in 1 .. n
      BY <2>1, <2>2, <3>1 DEF Text
    <3>2. CASE i = n + 1
      BY <2>3, <2>4, <3>2
    <3>3. QED
      BY <2>4, <3>1, <3>2
  <2>6. QED
    BY <2>5 DEF Text
<1>7. yylval' \in 0 .. n + 1
  BY <1>1, <1>3 DEF TextsInv, n
<1>8. \A k \in DOMAIN stack : IsValue(stack[k].state) => Text(stack[k].value)' = Text(stack[k].value)
  <2>1. \A k \in DOMAIN stack : IsValue(stack[k].state) => stack[k].value \in 1 .. n
    BY StringsTyped DEF StringsInv, n
  <2>2. QED
    BY <1>2, <1>5, <2>1 DEF Text
<1>9. IsValue(8) /\ IsValue(13)
  BY ValueStates DEF States, YYNSTATES
<1>10. ASSUME NEW k \in DOMAIN stack'
       PROVE  /\ stack'[k].state = 8 => Text(stack[k].value)' \in TypeNames
              /\ stack'[k].state = 13 => Text(stack[k].value)' \in SectionNames
  BY <1>2, <1>8, <1>9 DEF TextsInv
<1>11. /\ LastKind(yychar)'
       /\ \A kind : LastKind(kind) => BeforeKind(kind)'
  BY <1>1, <1>3, <1>5 DEF LastKind, BeforeKind, n
<1>12. Top' = Top
  BY <1>2 DEF Top
<1>13. yychar' = "VALUE" => Text(yylval)' = t.text
  BY <1>1, <1>5 DEF Text
<1>14. Top = 1 => LastKind("CONFIG")
  BY <1>2 DEF TextsInv
<1>15. Top = 8 => LastKind("VALUE") /\ BeforeKind("CONFIG")
  BY <1>2 DEF TextsInv
<1>16. "CONFIG" \in Keywords /\ "VALUE" \notin Keywords
  BY DEF Keywords
<1>17. yychar' = "VALUE" /\ Top = 1 => Text(yylval)' \in TypeNames
  <2>1. HAVE yychar' = "VALUE" /\ Top = 1
  <2>2. n >= 1 /\ tokens[n].kind = "CONFIG"
    BY <1>14, <2>1 DEF LastKind, n
  <2>21. n \in 1 .. n /\ n # 0
    BY <1>3, <2>2
  <2>3. KeywordOf(tokens, n + 1) = n
    <3>1. \A l \in n + 1 .. n : tokens[l].kind \notin Keywords
      BY <1>3
    <3>2. QED
      BY <1>3, <1>16, <1>20, <2>2, <2>21, <3>1, KeywordIsLast DEF n
  <2>4. Reader!WordsAt(tokens) = TypeNames
    BY <1>20, <2>2, <2>21, <2>3, WordsAreStrings DEF n
  <2>5. QED
    BY <1>1, <1>4, <1>13, <2>1, <2>4
<1>18. yychar' = "VALUE" /\ Top = 8 => Text(yylval)' \in SectionNames
  <2>1. HAVE yychar' = "VALUE" /\ Top = 8
  <2>2. n >= 2 /\ tokens[n].kind = "VALUE" /\ tokens[n - 1].kind = "CONFIG"
    BY <1>15, <2>1 DEF LastKind, BeforeKind, n
  <2>3. KeywordOf(tokens, n + 1) = n - 1
    <3>1. n - 1 \in 1 .. n
      BY <1>3, <2>2
    <3>2. \A l \in (n - 1) + 1 .. n : l = n
      BY <1>3
    <3>3. \A l \in (n - 1) + 1 .. n : tokens[l].kind \notin Keywords
      BY <1>16, <2>2, <3>2
    <3>4. QED
      BY <1>3, <1>16, <1>20, <2>2, <3>1, <3>3, KeywordIsLast DEF n
  <2>4. n - 1 # n /\ n - 1 # 0
    BY <1>3, <2>2
  <2>5. Reader!WordsAt(tokens) = SectionNames
    BY <1>3, <1>20, <2>2, <2>3, <2>4, WordsAreStrings DEF n
  <2>6. QED
    BY <1>1, <1>4, <1>13, <2>1, <2>5
<1>19. QED
  BY <1>1, <1>2, <1>4, <1>5, <1>6, <1>7, <1>10, <1>11, <1>12, <1>14, <1>17, <1>18 DEF TextsInv, Toks, Text

LEMMA TextsShift ==
    ASSUME StringsInv, TextsInv, Shift
    PROVE  TextsInv'
<1> DEFINE q == ShiftTo(Top, YYTRANSLATE[yychar])
<1> DEFINE n == Len(stack)
<1>1. /\ UNCHANGED <<tokens, yylval, phase>> /\ yychar' = "YYEMPTY" /\ yychar # "YYEMPTY"
      /\ phase = "parsing"
  BY DEF Shift, Shifts, Parsing
<1>2. /\ DOMAIN stack = 1 .. n /\ DOMAIN stack' = 1 .. n + 1
      /\ n \in Nat /\ Len(stack') = n + 1
      /\ \A k \in 1 .. n : stack'[k] = stack[k]
      /\ stack'[n + 1] = Item(q, yylval)
      /\ yychar \in TokenKinds /\ q \in States /\ At(yystos, q) = YYTRANSLATE[yychar]
      /\ IsValue(q) <=> yychar = "VALUE"
  BY ShiftedStack
<1>3. Top \in At(Beneath, q)
  BY ShiftFacts DEF StringsInv
<1> HIDE DEF q, n
<1>4. Top' = q /\ stack'[n + 1].state = q /\ stack'[n + 1].value = yylval
  BY <1>2 DEF Top, Last, Item
<1>5. Words' = Words /\ \A i : Text(i)' = Text(i)
  BY <1>1 DEF Words, Text
<1>6. LastKind(yychar) /\ \A kind : (LastKind(kind)' <=> LastKind(kind)) /\ (BeforeKind(kind)' <=> BeforeKind(kind))
  BY <1>1 DEF TextsInv, LastKind, BeforeKind
<1>7. q = 1 => yychar = "CONFIG"
  BY <1>2 DEF At, yystos, YYTRANSLATE, TokenKinds, Keywords
<1>8. q \in {8, 13} => yychar = "VALUE"
  BY <1>2, ValueStates
<1>9. (q = 8 => Top = 1) /\ (q = 13 => Top = 8)
  BY <1>3 DEF At, Beneath
<1>10. q = 8 => BeforeKind("CONFIG") /\ Text(yylval) \in TypeNames
  BY <1>1, <1>8, <1>9 DEF TextsInv
<1>11. q = 13 => Text(yylval) \in SectionNames
  BY <1>1, <1>8, <1>9 DEF TextsInv
<1>12. ASSUME NEW k \in DOMAIN stack'
       PROVE  /\ stack'[k].state = 8 => Text(stack'[k].value) \in TypeNames
              /\ stack'[k].state = 13 => Text(stack'[k].value) \in SectionNames
  <2>1. CASE k \in 1 .. n
    BY <1>2, <2>1 DEF TextsInv
  <2>2. CASE k = n + 1
    BY <1>4, <1>10, <1>11, <2>2
  <2>3. QED
    BY <1>2, <2>1, <2>2
<1>13. QED
  BY <1>1, <1>4, <1>5, <1>6, <1>7, <1>8, <1>10, <1>12 DEF TextsInv, Text

\* The states of section types and names are not those of a left-hand side.
LEMMA TextsReduce ==
    ASSUME StringsInv, TextsInv, Reduce
    PROVE  TextsInv'
<1> DEFINE left == Len(stack) - Size(Top)
<1> DEFINE q == Goto(stack[left].state, LeftSide(Top))
<1>1. UNCHANGED <<tokens, yychar, yylval, phase>> /\ phase = "parsing"
  BY DEF Reduce, Parsing
<1>2. /\ left \in 1 .. Len(stack) /\ DOMAIN stack = 1 .. Len(stack)
      /\ Leads(stack[left].state, LeftSide(Top)) /\ ~IsValue(q) /\ Top \in States
      /\ At(yydefact, Top) # 0 /\ Top # YYFINAL
      /\ DOMAIN stack' = 1 .. left + 1 /\ Len(stack') = left + 1
      /\ \A k \in 1 .. left : stack'[k] = stack[k]
  BY ReducedStack
<1>3. stack'[left + 1].state = q
  <2>1. \E v : stack'[left + 1] = Item(q, v)
    BY ReducedStack
  <2>2. QED
    BY <2>1 DEF Item
<1>4. q # 1 /\ q # 8 /\ q # 13
  <2>1. LeftSide(Top) \in 9 .. 15
    BY <1>2, RuleFacts
  <2>2. At(yystos, 1) = 4
    BY DEF At, yystos
  <2>3. IsValue(8) /\ IsValue(13)
    BY ValueStates DEF States, YYNSTATES
  <2>4. QED
    BY <1>2, <2>1, <2>2, <2>3 DEF Leads
<1> HIDE DEF left, q
<1>5. Top' = q
  BY <1>2, <1>3 DEF Top, Last
<1>6. Words' = Words /\ \A i : Text(i)' = Text(i)
  BY <1>1 DEF Words, Text
<1>7. \A kind : (LastKind(kind)' <=> LastKind(kind)) /\ (BeforeKind(kind)' <=> BeforeKind(kind))
  BY <1>1 DEF LastKind, BeforeKind
<1>8. ASSUME NEW k \in DOMAIN stack'
      PROVE  /\ stack'[k].state = 8 => Text(stack'[k].value) \in TypeNames
             /\ stack'[k].state = 13 => Text(stack'[k].value) \in SectionNames
  <2>1. k \in 1 .. left \/ k = left + 1
    BY <1>2
  <2>2. CASE k \in 1 .. left
    BY <1>2, <2>2 DEF TextsInv
  <2>3. CASE k = left + 1
    BY <1>3, <1>4, <2>3
  <2>4. QED
    BY <2>1, <2>2, <2>3
<1>9. QED
  BY <1>1, <1>4, <1>5, <1>6, <1>7, <1>8 DEF TextsInv, Text

\* A step that leaves of the stack what it leaves as it was, and ends the parsing.
LEMMA TextsEnd ==
    ASSUME TextsInv, UNCHANGED <<tokens, yylval>>, phase' # "parsing",
           DOMAIN stack' \subseteq DOMAIN stack, \A k \in DOMAIN stack' : stack'[k] = stack[k]
    PROVE  TextsInv'
<1>1. Words' = Words /\ \A i : Text(i)' = Text(i)
  BY DEF Words, Text
<1>2. QED
  BY <1>1 DEF TextsInv, Text

\* A step that leaves the registers of the parser alone.
LEMMA TextsRest ==
    ASSUME TextsInv, UNCHANGED <<tokens, stack, yychar, yylval, phase>>
    PROVE  TextsInv'
BY DEF TextsInv, Words, Text, LastKind, BeforeKind, Top

LEMMA TextsNext ==
    ASSUME StringsInv, TextsInv, [Next]_parserVars
    PROVE  TextsInv'
<1>1. CASE Yylex
  BY <1>1, TextsYylex
<1>2. CASE Shift
  BY <1>2, TextsShift
<1>3. CASE Reduce
  BY <1>3, TextsReduce
<1>4. CASE SyntaxError
  BY <1>4, TextsEnd DEF SyntaxError
<1>5. CASE Pop
  <2>1. /\ DOMAIN stack' \subseteq DOMAIN stack /\ \A k \in DOMAIN stack' : stack'[k] = stack[k]
    BY <1>5, PoppedStack
  <2>2. QED
    BY <1>5, <2>1, TextsEnd DEF Pop
<1>6. CASE Abort
  BY <1>6, TextsEnd DEF Abort
<1>7. CASE Accept
  <2>1. stack' = << stack[1] >> /\ 1 \in DOMAIN stack
    BY <1>7, AcceptFacts, StringsTyped
  <2>2. DOMAIN stack' = {1} /\ stack'[1] = stack[1]
    BY <2>1
  <2>3. QED
    BY <1>7, <2>1, <2>2, TextsEnd DEF Accept
<1>8. CASE Returned \/ UNCHANGED parserVars
  BY <1>8, TextsRest DEF Returned, parserVars
<1>9. QED
  BY <1>1, <1>2, <1>3, <1>4, <1>5, <1>6, <1>7, <1>8 DEF Next, ParserNext

-----------------------------------------------------------------------------
(***************************************************************************)
(* The AST.  The nodes on the stack are those that wait, and the state they*)
(* are pushed with says what they are.                                     *)
(***************************************************************************)

NodeStates == {4, 5, 6, 7, 11, 12, 16, 17, 18, 21}

Options == {"ANT_OPTION", "ANT_LIST"}

\* The node that belongs to state q.
StandsFor(h, q, node) ==
    /\ q = 4 => h[node].kind = "ANT_PACKAGE"
    /\ q \in {5, 11} => h[node].kind = "ANT_SENTINEL" /\ KidsAre(h, node, {"ANT_SECTION_TYPE"})
    /\ q \in {6, 7, 12} => h[node].kind = "ANT_SECTION_TYPE"
    /\ q \in {16, 18} => h[node].kind = "ANT_SENTINEL" /\ KidsAre(h, node, Options)
    /\ q \in {17, 21} => h[node].kind \in Options

HoldsNode(s, k) == k \in DOMAIN s /\ s[k].state \in NodeStates

Waiters(s) == {s[k].value : k \in {k \in DOMAIN s : s[k].state \in NodeStates}}

Waits(h, s) ==
    /\ Built(h, Waiters(s)) /\ Made(h)
    /\ \A k, l : HoldsNode(s, k) /\ HoldsNode(s, l) /\ s[k].value = s[l].value => k = l
    /\ \A k : HoldsNode(s, k) => StandsFor(h, s[k].state, s[k].value)

\* A node that an action leaves alone still is what its state says.
LEMMA StillStandsFor ==
    ASSUME NEW h, NEW W, Built(h, W), NEW P, NEW r, NEW kind, Yields(h, W, P, r, kind),
           NEW node \in W \ P, NEW q, StandsFor(h, q, node)
    PROVE  StandsFor(r.heap, q, node)
<1>1. r.heap[node] = h[node] /\ \A n \in DOMAIN h : r.heap[n].kind = h[n].kind
  BY DEF Yields
<1>2. node \in DOMAIN h /\ KidSet(h, node) \subseteq DOMAIN h
  <2>1. node \in DOMAIN h /\ TypedNode(h, node)
    BY TypedUnfolds DEF Built
  <2>2. QED
    BY <2>1, KidsFacts
<1>3. KidSet(r.heap, node) = KidSet(h, node)
  BY <1>1 DEF KidSet
<1>4. \A K : KidsAre(h, node, K) => KidsAre(r.heap, node, K)
  BY <1>1, <1>2, <1>3 DEF KidsAre
<1>5. QED
  BY <1>1, <1>4 DEF StandsFor

\* From stack s, whose entries above left are popped, to stack t.
Replaces(s, t, left, q, node) ==
    /\ DOMAIN t = 1 .. left + 1 /\ left \in Nat /\ 1 .. left \subseteq DOMAIN s
    /\ \A k \in 1 .. left : t[k] = s[k]
    /\ t[left + 1].state = q /\ t[left + 1].value = node

\* The nodes in P are those above left.
Pops(s, P, left) == \A k : HoldsNode(s, k) => (s[k].value \in P <=> k \notin 1 .. left)

\* A rule takes the nodes above left, and its node is pushed.
LEMMA WaitsReduce ==
    ASSUME NEW h, NEW s, Waits(h, s), NEW left, NEW t, NEW q \in NodeStates, NEW r,
           Replaces(s, t, left, q, r.node),
           NEW P, NEW kind, Yields(h, Waiters(s), P, r, kind),
           Pops(s, P, left),
           StandsFor(r.heap, q, r.node)
    PROVE  Waits(r.heap, t)
<1> DEFINE W == Waiters(s)
<1>1. /\ DOMAIN t = 1 .. left + 1 /\ left \in Nat /\ 1 .. left \subseteq DOMAIN s
      /\ \A k \in 1 .. left : t[k] = s[k]
      /\ t[left + 1].state = q /\ t[left + 1].value = r.node
  BY DEF Replaces
<1>2. \A k : HoldsNode(t, k) <=> \/ HoldsNode(s, k) /\ k \in 1 .. left
                                 \/ k = left + 1
  <2>1. left + 1 \in 1 .. left + 1 /\ ~ (left + 1 \in 1 .. left)
        /\ \A k \in 1 .. left + 1 : k \in 1 .. left \/ k = left + 1
    BY <1>1
  <2>2. QED
    BY <1>1, <2>1 DEF HoldsNode
<1>3. \A n : n \in W <=> \E k : HoldsNode(s, k) /\ s[k].value = n
  BY DEF Waiters, HoldsNode
<1>4. \A n : n \in W \ P <=> \E k : HoldsNode(s, k) /\ k \in 1 .. left /\ s[k].value = n
  BY <1>3 DEF Pops
<1>5. \A n : n \in Waiters(t) <=> \E k : HoldsNode(t, k) /\ t[k].value = n
  BY DEF Waiters, HoldsNode
<1>6. Waiters(t) = (W \ P) \cup {r.node}
  <2>1. ASSUME NEW n \in Waiters(t) PROVE n \in (W \ P) \cup {r.node}
    BY <1>1, <1>2, <1>4, <1>5, <2>1
  <2>2. ASSUME NEW n \in W \ P PROVE n \in Waiters(t)
    BY <1>1, <1>2, <1>4, <1>5, <2>2
  <2>3. r.node \in Waiters(t)
    BY <1>1, <1>2, <1>5
  <2>4. QED
    BY <2>1, <2>2, <2>3
<1>7. r.node \notin W \ P
  BY DEF Yields
<1>8. ASSUME NEW k, NEW l, HoldsNode(t, k), HoldsNode(t, l), t[k].value = t[l].value
      PROVE  k = l
  <2>1. \A m : HoldsNode(t, m) /\ m # left + 1 =>
            HoldsNode(s, m) /\ t[m].value = s[m].value /\ s[m].value \in W \ P
    BY <1>1, <1>2, <1>4
  <2>2. CASE k = left + 1 \/ l = left + 1
    BY <1>1, <1>7, <1>8, <2>1, <2>2
  <2>3. CASE k # left + 1 /\ l # left + 1
    BY <1>8, <2>1, <2>3 DEF Waits
  <2>4. QED
    BY <2>2, <2>3
<1>9. ASSUME NEW k, HoldsNode(t, k) PROVE StandsFor(r.heap, t[k].state, t[k].value)
  <2>1. CASE k = left + 1
    BY <1>1, <2>1
  <2>2. CASE k # left + 1
    <3>1. HoldsNode(s, k) /\ k \in 1 .. left /\ t[k] = s[k]
      BY <1>1, <1>2, <1>9, <2>2
    <3>2. s[k].value \in W \ P
      BY <1>4, <3>1
    <3>3. StandsFor(h, s[k].state, s[k].value) /\ Built(h, W)
      BY <3>1 DEF Waits
    <3> HIDE DEF W
    <3>4. StandsFor(r.heap, s[k].state, s[k].value)
      BY <3>2, <3>3, StillStandsFor DEF W
    <3>5. QED
      BY <3>1, <3>4
  <2>3. QED
    BY <2>1, <2>2
<1>10. Built(r.heap, Waiters(t)) /\ Made(r.heap)
  BY <1>6 DEF Yields
<1>11. QED
  BY <1>8, <1>9, <1>10 DEF Waits

\* Pushing a symbol that is no node.
LEMMA WaitsShift ==
    ASSUME NEW h, NEW s, Waits(h, s), NEW t, NEW n \in Nat, DOMAIN s = 1 .. n,
           DOMAIN t = 1 .. n + 1, \A k \in 1 .. n : t[k] = s[k], t[n + 1].state \notin NodeStates
    PROVE  Waits(h, t)
<1>1. \A k : HoldsNode(t, k) <=> HoldsNode(s, k)
  <2>1. \A k : k \in DOMAIN t <=> k \in DOMAIN s \/ k = n + 1
    OBVIOUS
  <2>2. QED
    BY <2>1 DEF HoldsNode
<1>2. \A k : HoldsNode(s, k) => t[k] = s[k]
  BY DEF HoldsNode
<1>3. Waiters(t) = Waiters(s)
  <2>1. \A m : m \in Waiters(t) <=> \E k : HoldsNode(t, k) /\ t[k].value = m
    BY DEF Waiters, HoldsNode
  <2>2. \A m : m \in Waiters(s) <=> \E k : HoldsNode(s, k) /\ s[k].value = m
    BY DEF Waiters, HoldsNode
  <2>3. \A m : m \in Waiters(t) <=> m \in Waiters(s)
    BY <1>1, <1>2, <2>1, <2>2
  <2>4. QED
    BY <2>3
<1>4. QED
  BY <1>1, <1>2, <1>3 DEF Waits

\* The rules by which the states reduce.
LEMMA RuleOf ==
    ASSUME NEW t \in States
    PROVE  /\ t = 5 => At(yydefact, t) = 2
           /\ t = 11 => At(yydefact, t) = 3
           /\ t = 9 => At(yydefact, t) = 4
           /\ t = 6 => At(yydefact, t) = 5
           /\ t = 12 => At(yydefact, t) = 6
           /\ t = 7 => At(yydefact, t) = 7
           /\ t = 8 => At(yydefact, t) = 8
           /\ t = 13 => At(yydefact, t) = 9
           /\ t = 16 => At(yydefact, t) = 10
           /\ t = 18 => At(yydefact, t) = 11
           /\ t = 17 => At(yydefact, t) = 12
           /\ t = 21 => At(yydefact, t) = 13
           /\ t = 22 => At(yydefact, t) = 14
           /\ t = 20 => At(yydefact, t) = 15
           /\ t = 23 => At(yydefact, t) = 16
BY DEF At, yydefact

\* What the rules do.
LEMMA RuleActions ==
    ASSUME NEW h, NEW ts, NEW rhs
    PROVE  LET text(k) == ts[rhs[k]].text
           IN  /\ RuleAction(2, h, ts, rhs) = ReduceRoot(h, NoNode, rhs[1])
               /\ RuleAction(3, h, ts, rhs) = ReduceRoot(h, rhs[1], rhs[2])
               /\ RuleAction(4, h, ts, rhs) = ReducePackage(h, text(2))
               /\ RuleAction(5, h, ts, rhs) = ReduceFirst(h, rhs[1])
               /\ RuleAction(6, h, ts, rhs) = ReduceNext(h, rhs[1], rhs[2])
               /\ RuleAction(7, h, ts, rhs) = Reduced(h, rhs[1])
               /\ RuleAction(8, h, ts, rhs) = ReduceConfig(h, text(2), NoString, NoNode)
               /\ RuleAction(9, h, ts, rhs) = ReduceConfig(h, text(2), text(3), NoNode)
               /\ RuleAction(10, h, ts, rhs) = ReduceConfig(h, text(2), NoString, rhs[3])
               /\ RuleAction(11, h, ts, rhs) = ReduceConfig(h, text(2), text(3), rhs[4])
               /\ RuleAction(12, h, ts, rhs) = ReduceFirst(h, rhs[1])
               /\ RuleAction(13, h, ts, rhs) = ReduceNext(h, rhs[1], rhs[2])
               /\ RuleAction(14, h, ts, rhs) = ReduceOption(h, text(2), text(3))
               /\ RuleAction(15, h, ts, rhs) = ReduceList(h, text(2), NoString)
               /\ RuleAction(16, h, ts, rhs) = ReduceList(h, text(2), text(3))
BY DEF RuleAction

\* A stack, with the heap its nodes are in and the tokens its strings are in.
Reducible(h, s, ts) ==
    /\ Waits(h, s) /\ (\E V : s \in Seq(Items(V))) /\ Path(s)
    /\ \A k \in DOMAIN s :
       /\ IsValue(s[k].state) => ts[s[k].value].text \in Strings
       /\ s[k].state = 8 => ts[s[k].value].text \in TypeNames
       /\ s[k].state = 13 => ts[s[k].value].text \in SectionNames

\* An action that leaves the stack so again when r is the result, left the entries that
\* stay and q the state to go to.
Replaceable(h, s, left, q, r) ==
    /\ q \in NodeStates
    /\ StandsFor(r.heap, q, r.node)
    /\ \E P, kind : Yields(h, Waiters(s), P, r, kind) /\ Pops(s, P, left)

\* The states on top of the stack.
LEMMA TopStates ==
    ASSUME NEW V, NEW s \in Seq(Items(V)), Path(s), NEW n, n = Len(s),
           NEW t, t = s[n].state, At(yydefact, t) # 0, t # YYFINAL
    PROVE  /\ n \in Nat /\ DOMAIN s = 1 .. n /\ t \in States
           /\ Size(t) \in 1 .. n - 1 /\ n - Size(t) \in 1 .. n
           /\ s[n - 1].state \in At(Beneath, t)
           /\ Size(t) > 1 => s[n - 2].state \in At(Beneath, s[n - 1].state)
           /\ Size(t) > 2 => s[n - 3].state \in At(Beneath, s[n - 2].state)
           /\ Size(t) > 3 => s[n - 4].state \in At(Beneath, s[n - 3].state)
<1>1. n \in Nat /\ DOMAIN s = 1 .. n /\ t \in States /\ Size(t) \in 1 .. n - 1
  <2>1. t = Last(s).state
    BY DEF Last
  <2>2. QED
    BY <2>1, LenProperties, ReducePath
<1>2. \A k \in 2 .. n : s[k - 1].state \in At(Beneath, s[k].state)
  BY DEF Path
<1>3. s[n - 1].state \in At(Beneath, t)
  BY <1>1, <1>2
<1>4. Size(t) > 1 => s[n - 2].state \in At(Beneath, s[n - 1].state)
  <2>1. Size(t) > 1 => n - 1 \in 2 .. n /\ (n - 1) - 1 = n - 2
    BY <1>1
  <2>2. QED
    BY <1>2, <2>1
<1>5. Size(t) > 2 => s[n - 3].state \in At(Beneath, s[n - 2].state)
  <2>1. Size(t) > 2 => n - 2 \in 2 .. n /\ (n - 2) - 1 = n - 3
    BY <1>1
  <2>2. QED
    BY <1>2, <2>1
<1>6. Size(t) > 3 => s[n - 4].state \in At(Beneath, s[n - 3].state)
  <2>1. Size(t) > 3 => n - 3 \in 2 .. n /\ (n - 3) - 1 = n - 4
    BY <1>1
  <2>2. QED
    BY <1>2, <2>1
<1>7. QED
  BY <1>1, <1>3, <1>4, <1>5, <1>6

\* The nodes on the stack are those that wait.
LEMMA HeldWaits ==
    ASSUME NEW h, NEW s, Waits(h, s)
    PROVE  /\ Built(h, Waiters(s)) /\ Made(h) /\ NoNode \notin Waiters(s)
           /\ \A k : HoldsNode(s, k) => /\ s[k].value \in Waiters(s)
                                        /\ StandsFor(h, s[k].state, s[k].value)
           /\ \A k, l : HoldsNode(s, k) /\ HoldsNode(s, l) /\ s[k].value = s[l].value => k = l
<1>1. NoNode \notin Waiters(s)
  <2>1. Waiters(s) \subseteq DOMAIN h /\ TypedAst(h)
    BY DEF Waits, Built
  <2>2. DOMAIN h \subseteq Nat \ {0}
    <3>1. DOMAIN h = 1 .. Len(h)
      BY <2>1, LenProperties DEF TypedAst
    <3>2. QED
      BY <3>1
  <2>3. QED
    BY <2>1, <2>2 DEF NoNode
<1>2. \A k : HoldsNode(s, k) => s[k].value \in Waiters(s)
  BY DEF HoldsNode, Waiters
<1>3. QED
  BY <1>1, <1>2 DEF Waits

\* What a rule pops when its symbols hold no node, one on top, or two.
LEMMA NonePopped ==
    ASSUME NEW h, NEW s, Waits(h, s), NEW n \in Nat, DOMAIN s = 1 .. n, NEW left \in 1 .. n,
           \A k \in DOMAIN s : k > left => s[k].state \notin NodeStates
    PROVE  Pops(s, {}, left) /\ Pops(s, {NoNode}, left)
<1>1. ASSUME NEW k, HoldsNode(s, k) PROVE k \in 1 .. left /\ s[k].value # NoNode
  <2>1. k \in 1 .. n /\ s[k].state \in NodeStates
    BY <1>1 DEF HoldsNode
  <2>2. k <= left
    BY <2>1
  <2>3. s[k].value # NoNode
    BY <1>1, HeldWaits
  <2>4. QED
    BY <2>1, <2>2, <2>3
<1>2. QED
  BY <1>1 DEF Pops

LEMMA OnePopped ==
    ASSUME NEW h, NEW s, Waits(h, s), NEW n \in Nat, DOMAIN s = 1 .. n, NEW left \in 1 .. n,
           left < n, s[n].state \in NodeStates,
           \A k \in DOMAIN s : k > left /\ k < n => s[k].state \notin NodeStates
    PROVE  Pops(s, {s[n].value}, left)
<1>1. HoldsNode(s, n)
  BY DEF HoldsNode
<1>2. ASSUME NEW k, HoldsNode(s, k) PROVE s[k].value = s[n].value <=> k \notin 1 .. left
  <2>1. k \in 1 .. n /\ s[k].state \in NodeStates
    BY <1>2 DEF HoldsNode
  <2>2. k \notin 1 .. left <=> k = n
    <3>1. ~ (k > left /\ k < n)
      BY <2>1
    <3>2. QED
      BY <2>1, <3>1
  <2>3. s[k].value = s[n].value => k = n
    BY <1>1, <1>2, HeldWaits
  <2>4. QED
    BY <2>2, <2>3
<1>3. QED
  BY <1>2 DEF Pops

LEMMA LastPopped ==
    ASSUME NEW h, NEW s, Waits(h, s), NEW n \in Nat, DOMAIN s = 1 .. n, n - 1 \in 1 .. n,
           s[n].state \in NodeStates
    PROVE  Pops(s, {s[n].value}, n - 1)
<1> DEFINE left == n - 1
<1>1. left \in 1 .. n /\ left < n /\ \A k \in DOMAIN s : ~ (k > left /\ k < n)
  OBVIOUS
<1> HIDE DEF left
<1>2. Pops(s, {s[n].value}, left)
  BY <1>1, OnePopped
<1>3. QED
  BY <1>2 DEF left

LEMMA TwoPopped ==
    ASSUME NEW h, NEW s, Waits(h, s), NEW n \in Nat, DOMAIN s = 1 .. n, n - 2 \in 1 .. n,
           s[n].state \in NodeStates, s[n - 1].state \in NodeStates
    PROVE  Pops(s, {s[n - 1].value, s[n].value}, n - 2) /\ s[n - 1].value # s[n].value
<1>1. HoldsNode(s, n) /\ HoldsNode(s, n - 1)
  BY DEF HoldsNode
<1>2. ASSUME NEW k, HoldsNode(s, k)
      PROVE  s[k].value \in {s[n - 1].value, s[n].value} <=> k \notin 1 .. n - 2
  <2>1. k \in 1 .. n
    BY <1>2 DEF HoldsNode
  <2>2. k \notin 1 .. n - 2 <=> k \in {n - 1, n}
    BY <2>1
  <2>3. (s[k].value = s[n].value => k = n) /\ (s[k].value = s[n - 1].value => k = n - 1)
    BY <1>1, <1>2, HeldWaits
  <2>4. QED
    BY <2>2, <2>3
<1>3. s[n - 1].value # s[n].value
  BY <1>1, HeldWaits
<1>4. QED
  BY <1>2, <1>3 DEF Pops

-----------------------------------------------------------------------------
(***************************************************************************)
(* The rules, each with the stack it meets and the one it leaves.          *)
(***************************************************************************)

\* The rule of state t, on top of the stack, with the values of its symbols.
Applies(h, s, ts, n, t, rhs) ==
    /\ Reducible(h, s, ts)
    /\ n = Len(s) /\ t = s[n].state /\ At(yydefact, t) # 0 /\ t # YYFINAL
    /\ \A j \in 1 .. Size(t) : rhs[j] = s[n - Size(t) + j].value

\* The rule keeps the stack reducible.
Succeeds(h, s, ts, n, t, rhs) ==
    LET left == n - Size(t)
    IN  Replaceable(h, s, left, Goto(s[left].state, LeftSide(t)),
                    RuleAction(At(yydefact, t), h, ts, rhs))

LEMMA RuleApplies ==
    ASSUME NEW h, NEW s, NEW ts, NEW n, NEW t, NEW rhs, Applies(h, s, ts, n, t, rhs)
    PROVE  /\ Waits(h, s) /\ Built(h, Waiters(s)) /\ Made(h)
           /\ n \in Nat /\ DOMAIN s = 1 .. n /\ t \in States /\ s[n].state = t
           /\ Size(t) \in 1 .. n - 1 /\ n - Size(t) \in 1 .. n
           /\ s[n - 1].state \in At(Beneath, t)
           /\ Size(t) > 1 => s[n - 2].state \in At(Beneath, s[n - 1].state)
           /\ Size(t) > 2 => s[n - 3].state \in At(Beneath, s[n - 2].state)
           /\ Size(t) > 3 => s[n - 4].state \in At(Beneath, s[n - 3].state)
           /\ At(yydefact, t) # 0 /\ t # YYFINAL
<1>1. PICK V : s \in Seq(Items(V))
  BY DEF Applies, Reducible
<1>2. /\ Path(s) /\ Waits(h, s)
      /\ n = Len(s) /\ t = s[n].state /\ At(yydefact, t) # 0 /\ t # YYFINAL
  BY DEF Applies, Reducible
<1>3. /\ n \in Nat /\ DOMAIN s = 1 .. n /\ t \in States
      /\ Size(t) \in 1 .. n - 1 /\ n - Size(t) \in 1 .. n
      /\ s[n - 1].state \in At(Beneath, t)
      /\ Size(t) > 1 => s[n - 2].state \in At(Beneath, s[n - 1].state)
      /\ Size(t) > 2 => s[n - 3].state \in At(Beneath, s[n - 2].state)
      /\ Size(t) > 3 => s[n - 4].state \in At(Beneath, s[n - 3].state)
  BY <1>1, <1>2, TopStates
<1>4. QED
  BY <1>2, <1>3, HeldWaits

\* The values of the last symbols of the rule.
LEMMA RuleValues ==
    ASSUME NEW h, NEW s, NEW ts, NEW n, NEW t, NEW rhs, Applies(h, s, ts, n, t, rhs)
    PROVE  /\ rhs[Size(t)] = s[n].value
           /\ Size(t) > 1 => rhs[Size(t) - 1] = s[n - 1].value
           /\ Size(t) > 2 => rhs[Size(t) - 2] = s[n - 2].value
<1>1. n \in Nat /\ Size(t) \in 1 .. n - 1
  BY RuleApplies
<1>2. \A j \in 1 .. Size(t) : rhs[j] = s[n - Size(t) + j].value
  BY DEF Applies
<1>3. rhs[Size(t)] = s[n].value
  <2>1. Size(t) \in 1 .. Size(t) /\ n - Size(t) + Size(t) = n
    BY <1>1
  <2>2. QED
    BY <1>2, <2>1
<1>4. Size(t) > 1 => rhs[Size(t) - 1] = s[n - 1].value
  <2>1. Size(t) > 1 => Size(t) - 1 \in 1 .. Size(t) /\ n - Size(t) + (Size(t) - 1) = n - 1
    BY <1>1
  <2>2. QED
    BY <1>2, <2>1
<1>5. Size(t) > 2 => rhs[Size(t) - 2] = s[n - 2].value
  <2>1. Size(t) > 2 => Size(t) - 2 \in 1 .. Size(t) /\ n - Size(t) + (Size(t) - 2) = n - 2
    BY <1>1
  <2>2. QED
    BY <1>2, <2>1
<1>6. QED
  BY <1>3, <1>4, <1>5

\* The texts of the words on the stack.
LEMMA RuleTexts ==
    ASSUME NEW h, NEW s, NEW ts, NEW n, NEW t, NEW rhs, Applies(h, s, ts, n, t, rhs),
           NEW k \in DOMAIN s
    PROVE  /\ s[k].state \in {9, 19, 20, 22, 23} => ts[s[k].value].text \in Strings
           /\ s[k].state = 8 => ts[s[k].value].text \in TypeNames
           /\ s[k].state = 13 => ts[s[k].value].text \in SectionNames
<1>1. \A q \in {9, 19, 20, 22, 23} : IsValue(q)
  BY ValueStates DEF States, YYNSTATES
<1>2. QED
  BY <1>1 DEF Applies, Reducible

\* The rule of each state, and the states below it.
Shape(s, n, t) ==
    /\ t = 6 =>
       /\ Size(t) = 1 /\ LeftSide(t) = 11
       /\ s[n - 1].state \in {0, 4}
    /\ t = 7 =>
       /\ Size(t) = 1 /\ LeftSide(t) = 12
       /\ s[n - 1].state \in {0, 4, 5, 11}
    /\ t = 17 =>
       /\ Size(t) = 1 /\ LeftSide(t) = 14
       /\ s[n - 1].state \in {8, 13}
    /\ t = 8 =>
       /\ Size(t) = 2 /\ LeftSide(t) = 13
       /\ s[n - 1].state = 1 /\ s[n - 2].state \in {0, 4, 5, 11}
    /\ t = 9 =>
       /\ Size(t) = 2 /\ LeftSide(t) = 10
       /\ s[n - 1].state = 2 /\ s[n - 2].state = 0
    /\ t = 12 =>
       /\ Size(t) = 2 /\ LeftSide(t) = 11
       /\ \/ s[n - 1].state = 5 /\ s[n - 2].state = 0
          \/ s[n - 1].state = 11 /\ s[n - 2].state = 4
    /\ t = 21 =>
       /\ Size(t) = 2 /\ LeftSide(t) = 14
       /\ \/ s[n - 1].state = 16 /\ s[n - 2].state = 8
          \/ s[n - 1].state = 18 /\ s[n - 2].state = 13
    /\ t = 20 =>
       /\ Size(t) = 2 /\ LeftSide(t) = 15
       /\ s[n - 1].state = 15 /\ s[n - 2].state \in {8, 13, 16, 18}
    /\ t = 13 =>
       /\ Size(t) = 3 /\ LeftSide(t) = 13
       /\ s[n - 1].state = 8 /\ s[n - 2].state = 1 /\ s[n - 3].state \in {0, 4, 5, 11}
    /\ t = 16 =>
       /\ Size(t) = 3 /\ LeftSide(t) = 13
       /\ s[n - 1].state = 8 /\ s[n - 2].state = 1 /\ s[n - 3].state \in {0, 4, 5, 11}
    /\ t = 22 =>
       /\ Size(t) = 3 /\ LeftSide(t) = 15
       /\ s[n - 1].state = 19 /\ s[n - 2].state = 14 /\ s[n - 3].state \in {8, 13, 16, 18}
    /\ t = 23 =>
       /\ Size(t) = 3 /\ LeftSide(t) = 15
       /\ s[n - 1].state = 20 /\ s[n - 2].state = 15 /\ s[n - 3].state \in {8, 13, 16, 18}
    /\ t = 18 =>
       /\ Size(t) = 4 /\ LeftSide(t) = 13
       /\ s[n - 1].state = 13 /\ s[n - 2].state = 8 /\ s[n - 3].state = 1 /\ s[n - 4].state \in {0, 4, 5, 11}

LEMMA RuleShape ==
    ASSUME NEW h, NEW s, NEW ts, NEW n, NEW t, NEW rhs, Applies(h, s, ts, n, t, rhs)
    PROVE  Shape(s, n, t)
<1>1. t \in States /\ At(yydefact, t) # 0 /\ t # YYFINAL
  BY RuleApplies
<1>2. /\ s[n - 1].state \in At(Beneath, t)
      /\ Size(t) > 1 => s[n - 2].state \in At(Beneath, s[n - 1].state)
      /\ Size(t) > 2 => s[n - 3].state \in At(Beneath, s[n - 2].state)
      /\ Size(t) > 3 => s[n - 4].state \in At(Beneath, s[n - 3].state)
  BY RuleApplies
<1>3. ASSUME t = 6
      PROVE  /\ Size(t) = 1 /\ LeftSide(t) = 11
             /\ s[n - 1].state \in {0, 4}
  <2>1. Size(t) = 1 /\ LeftSide(t) = 11
    BY <1>1, <1>3, RuleFacts
  <2>2. QED
    BY <1>2, <1>3, <2>1 DEF At, Beneath
<1>4. ASSUME t = 7
      PROVE  /\ Size(t) = 1 /\ LeftSide(t) = 12
             /\ s[n - 1].state \in {0, 4, 5, 11}
  <2>1. Size(t) = 1 /\ LeftSide(t) = 12
    BY <1>1, <1>4, RuleFacts
  <2>2. QED
    BY <1>2, <1>4, <2>1 DEF At, Beneath
<1>5. ASSUME t = 17
      PROVE  /\ Size(t) = 1 /\ LeftSide(t) = 14
             /\ s[n - 1].state \in {8, 13}
  <2>1. Size(t) = 1 /\ LeftSide(t) = 14
    BY <1>1, <1>5, RuleFacts
  <2>2. QED
    BY <1>2, <1>5, <2>1 DEF At, Beneath
<1>6. ASSUME t = 8
      PROVE  /\ Size(t) = 2 /\ LeftSide(t) = 13
             /\ s[n - 1].state = 1 /\ s[n - 2].state \in {0, 4, 5, 11}
  <2>1. Size(t) = 2 /\ LeftSide(t) = 13
    BY <1>1, <1>6, RuleFacts
  <2>2. QED
    BY <1>2, <1>6, <2>1 DEF At, Beneath
<1>7. ASSUME t = 9
      PROVE  /\ Size(t) = 2 /\ LeftSide(t) = 10
             /\ s[n - 1].state = 2 /\ s[n - 2].state = 0
  <2>1. Size(t) = 2 /\ LeftSide(t) = 10
    BY <1>1, <1>7, RuleFacts
  <2>2. QED
    BY <1>2, <1>7, <2>1 DEF At, Beneath
<1>8. ASSUME t = 12
      PROVE  /\ Size(t) = 2 /\ LeftSide(t) = 11
             /\ \/ s[n - 1].state = 5 /\ s[n - 2].state = 0
                \/ s[n - 1].state = 11 /\ s[n - 2].state = 4
  <2>1. Size(t) = 2 /\ LeftSide(t) = 11
    BY <1>1, <1>8, RuleFacts
  <2>2. QED
    BY <1>2, <1>8, <2>1 DEF At, Beneath
<1>9. ASSUME t = 21
      PROVE  /\ Size(t) = 2 /\ LeftSide(t) = 14
             /\ \/ s[n - 1].state = 16 /\ s[n - 2].state = 8
                \/ s[n - 1].state = 18 /\ s[n - 2].state = 13
  <2>1. Size(t) = 2 /\ LeftSide(t) = 14
    BY <1>1, <1>9, RuleFacts
  <2>2. QED
    BY <1>2, <1>9, <2>1 DEF At, Beneath
<1>10. ASSUME t = 20
       PROVE  /\ Size(t) = 2 /\ LeftSide(t) = 15
              /\ s[n - 1].state = 15 /\ s[n - 2].state \in {8, 13, 16, 18}
  <2>1. Size(t) = 2 /\ LeftSide(t) = 15
    BY <1>1, <1>10, RuleFacts
  <2>2. QED
    BY <1>2, <1>10, <2>1 DEF At, Beneath
<1>11. ASSUME t = 13
       PROVE  /\ Size(t) = 3 /\ LeftSide(t) = 13
              /\ s[n - 1].state = 8 /\ s[n - 2].state = 1 /\ s[n - 3].state \in {0, 4, 5, 11}
  <2>1. Size(t) = 3 /\ LeftSide(t) = 13
    BY <1>1, <1>11, RuleFacts
  <2>2. QED
    BY <1>2, <1>11, <2>1 DEF At, Beneath
<1>12. ASSUME t = 16
       PROVE  /\ Size(t) = 3 /\ LeftSide(t) = 13
              /\ s[n - 1].state = 8 /\ s[n - 2].state = 1 /\ s[n - 3].state \in {0, 4, 5, 11}
  <2>1. Size(t) = 3 /\ LeftSide(t) = 13
    BY <1>1, <1>12, RuleFacts
  <2>2. QED
    BY <1>2, <1>12, <2>1 DEF At, Beneath
<1>13. ASSUME t = 22
       PROVE  /\ Size(t) = 3 /\ LeftSide(t) = 15
              /\ s[n - 1].state = 19 /\ s[n - 2].state = 14 /\ s[n - 3].state \in {8, 13, 16, 18}
  <2>1. Size(t) = 3 /\ LeftSide(t) = 15
    BY <1>1, <1>13, RuleFacts
  <2>2. QED
    BY <1>2, <1>13, <2>1 DEF At, Beneath
<1>14. ASSUME t = 23
       PROVE  /\ Size(t) = 3 /\ LeftSide(t) = 15
              /\ s[n - 1].state = 20 /\ s[n - 2].state = 15 /\ s[n - 3].state \in {8, 13, 16, 18}
  <2>1. Size(t) = 3 /\ LeftSide(t) = 15
    BY <1>1, <1>14, RuleFacts
  <2>2. QED
    BY <1>2, <1>14, <2>1 DEF At, Beneath
<1>15. ASSUME t = 18
       PROVE  /\ Size(t) = 4 /\ LeftSide(t) = 13
              /\ s[n - 1].state = 13 /\ s[n - 2].state = 8 /\ s[n - 3].state = 1 /\ s[n - 4].state \in {0, 4, 5, 11}
  <2>1. Size(t) = 4 /\ LeftSide(t) = 13
    BY <1>1, <1>15, RuleFacts
  <2>2. QED
    BY <1>2, <1>15, <2>1 DEF At, Beneath
<1>16. QED
  BY <1>3, <1>4, <1>5, <1>6, <1>7, <1>8, <1>9, <1>10, <1>11, <1>12, <1>13, <1>14, <1>15 DEF Shape

\* option : OPTION VALUE VALUE
LEMMA OptionRule ==
    ASSUME NEW h, NEW s, NEW ts, NEW n, NEW t, t = 22, NEW rhs, Applies(h, s, ts, n, t, rhs)
    PROVE  Succeeds(h, s, ts, n, t, rhs)
<1>1. /\ Size(t) = 3 /\ LeftSide(t) = 15
      /\ Waits(h, s) /\ Built(h, Waiters(s)) /\ Made(h)
      /\ n \in Nat /\ n - 3 \in 1 .. n /\ DOMAIN s = 1 .. n
      /\ s[n].state = 22 /\ s[n - 1].state = 19 /\ s[n - 2].state = 14
      /\ s[n - 3].state \in {8, 13, 16, 18}
  <2>1. /\ Size(t) = 3 /\ LeftSide(t) = 15
        /\ s[n - 1].state = 19 /\ s[n - 2].state = 14
        /\ s[n - 3].state \in {8, 13, 16, 18}
    BY RuleShape DEF Shape
  <2>2. /\ Waits(h, s) /\ Built(h, Waiters(s)) /\ Made(h)
        /\ n \in Nat /\ DOMAIN s = 1 .. n /\ s[n].state = t
        /\ Size(t) \in 1 .. n - 1 /\ n - Size(t) \in 1 .. n
    BY RuleApplies
  <2>3. QED
    BY <2>1, <2>2
<1>2. rhs[2] = s[n - 1].value /\ rhs[3] = s[n].value
  <2>1. rhs[Size(t)] = s[n].value /\ rhs[Size(t) - 1] = s[n - 1].value
    BY <1>1, RuleValues
  <2>2. QED
    BY <1>1, <2>1
<1>3. ts[rhs[2]].text \in Strings /\ ts[rhs[3]].text \in Strings
  <2>1. n \in DOMAIN s /\ n - 1 \in DOMAIN s
    BY <1>1
  <2>2. QED
    BY <1>1, <1>2, <2>1, RuleTexts
<1> DEFINE r == RuleAction(At(yydefact, t), h, ts, rhs)
<1>4. r = ReduceOption(h, ts[rhs[2]].text, ts[rhs[3]].text)
  <2>1. At(yydefact, t) = 14
    BY RuleApplies, RuleOf
  <2>2. QED
    BY <2>1, RuleActions
<1> HIDE DEF r
<1>5. Yields(h, Waiters(s), {}, r, "ANT_OPTION")
  BY <1>1, <1>3, <1>4, OptionYields
<1>6. Pops(s, {}, n - 3)
  <2> DEFINE left == n - 3
  <2>1. /\ left \in 1 .. n
        /\ \A k \in DOMAIN s : k > left => k \in {n, n - 1, n - 2}
    BY <1>1
  <2>2. \A q \in {14, 19, 22} : q \notin NodeStates
    BY DEF NodeStates
  <2>3. \A k \in DOMAIN s : k > left => s[k].state \notin NodeStates
    BY <1>1, <2>1, <2>2
  <2> HIDE DEF left
  <2>4. Pops(s, {}, left)
    BY <1>1, <2>1, <2>3, NonePopped
  <2>5. QED
    BY <2>4 DEF left
<1>7. Goto(s[n - 3].state, 15) \in {17, 21}
  BY <1>1, GotoFacts
<1>8. StandsFor(r.heap, Goto(s[n - 3].state, 15), r.node)
  BY <1>5, <1>7 DEF StandsFor, Options, Yields
<1>9. Replaceable(h, s, n - 3, Goto(s[n - 3].state, 15), r)
  BY <1>1, <1>5, <1>6, <1>7, <1>8 DEF Replaceable, NodeStates
<1>10. QED
  BY <1>1, <1>9 DEF Succeeds, r

\* option : LIST VALUE
LEMMA ListRule ==
    ASSUME NEW h, NEW s, NEW ts, NEW n, NEW t, t = 20, NEW rhs, Applies(h, s, ts, n, t, rhs)
    PROVE  Succeeds(h, s, ts, n, t, rhs)
<1>1. /\ Size(t) = 2 /\ LeftSide(t) = 15
      /\ Waits(h, s) /\ Built(h, Waiters(s)) /\ Made(h)
      /\ n \in Nat /\ n - 2 \in 1 .. n /\ DOMAIN s = 1 .. n
      /\ s[n].state = 20 /\ s[n - 1].state = 15 /\ s[n - 2].state \in {8, 13, 16, 18}
  <2>1. /\ Size(t) = 2 /\ LeftSide(t) = 15
        /\ s[n - 1].state = 15 /\ s[n - 2].state \in {8, 13, 16, 18}
    BY RuleShape DEF Shape
  <2>2. /\ Waits(h, s) /\ Built(h, Waiters(s)) /\ Made(h)
        /\ n \in Nat /\ DOMAIN s = 1 .. n /\ s[n].state = t
        /\ Size(t) \in 1 .. n - 1 /\ n - Size(t) \in 1 .. n
    BY RuleApplies
  <2>3. QED
    BY <2>1, <2>2
<1>2. ts[rhs[2]].text \in Strings
  <2>1. rhs[2] = s[n].value
    BY <1>1, RuleValues
  <2>2. n \in DOMAIN s
    BY <1>1
  <2>3. QED
    BY <1>1, <2>1, <2>2, RuleTexts
<1> DEFINE r == RuleAction(At(yydefact, t), h, ts, rhs)
<1>3. r = ReduceList(h, ts[rhs[2]].text, NoString)
  <2>1. At(yydefact, t) = 15
    BY RuleApplies, RuleOf
  <2>2. QED
    BY <2>1, RuleActions
<1> HIDE DEF r
<1>4. Yields(h, Waiters(s), {}, r, "ANT_LIST")
  BY <1>1, <1>2, <1>3, ListYields
<1>5. Pops(s, {}, n - 2)
  <2> DEFINE left == n - 2
  <2>1. /\ left \in 1 .. n
        /\ \A k \in DOMAIN s : k > left => k \in {n, n - 1}
    BY <1>1
  <2>2. \A q \in {15, 20} : q \notin NodeStates
    BY DEF NodeStates
  <2>3. \A k \in DOMAIN s : k > left => s[k].state \notin NodeStates
    BY <1>1, <2>1, <2>2
  <2> HIDE DEF left
  <2>4. Pops(s, {}, left)
    BY <1>1, <2>1, <2>3, NonePopped
  <2>5. QED
    BY <2>4 DEF left
<1>6. Goto(s[n - 2].state, 15) \in {17, 21}
  BY <1>1, GotoFacts
<1>7. StandsFor(r.heap, Goto(s[n - 2].state, 15), r.node)
  BY <1>4, <1>6 DEF StandsFor, Options, Yields
<1>8. Replaceable(h, s, n - 2, Goto(s[n - 2].state, 15), r)
  BY <1>1, <1>4, <1>5, <1>6, <1>7 DEF Replaceable, NodeStates
<1>9. QED
  BY <1>1, <1>8 DEF Succeeds, r

\* option : LIST VALUE VALUE
LEMMA ItemRule ==
    ASSUME NEW h, NEW s, NEW ts, NEW n, NEW t, t = 23, NEW rhs, Applies(h, s, ts, n, t, rhs)
    PROVE  Succeeds(h, s, ts, n, t, rhs)
<1>1. /\ Size(t) = 3 /\ LeftSide(t) = 15
      /\ Waits(h, s) /\ Built(h, Waiters(s)) /\ Made(h)
      /\ n \in Nat /\ n - 3 \in 1 .. n /\ DOMAIN s = 1 .. n
      /\ s[n].state = 23 /\ s[n - 1].state = 20 /\ s[n - 2].state = 15
      /\ s[n - 3].state \in {8, 13, 16, 18}
  <2>1. /\ Size(t) = 3 /\ LeftSide(t) = 15
        /\ s[n - 1].state = 20 /\ s[n - 2].state = 15
        /\ s[n - 3].state \in {8, 13, 16, 18}
    BY RuleShape DEF Shape
  <2>2. /\ Waits(h, s) /\ Built(h, Waiters(s)) /\ Made(h)
        /\ n \in Nat /\ DOMAIN s = 1 .. n /\ s[n].state = t
        /\ Size(t) \in 1 .. n - 1 /\ n - Size(t) \in 1 .. n
    BY RuleApplies
  <2>3. QED
    BY <2>1, <2>2
<1>2. rhs[2] = s[n - 1].value /\ rhs[3] = s[n].value
  <2>1. rhs[Size(t)] = s[n].value /\ rhs[Size(t) - 1] = s[n - 1].value
    BY <1>1, RuleValues
  <2>2. QED
    BY <1>1, <2>1
<1>3. ts[rhs[2]].text \in Strings /\ ts[rhs[3]].text \in Strings
  <2>1. n \in DOMAIN s /\ n - 1 \in DOMAIN s
    BY <1>1
  <2>2. QED
    BY <1>1, <1>2, <2>1, RuleTexts
<1> DEFINE r == RuleAction(At(yydefact, t), h, ts, rhs)
<1>4. r = ReduceList(h, ts[rhs[2]].text, ts[rhs[3]].text)
  <2>1. At(yydefact, t) = 16
    BY RuleApplies, RuleOf
  <2>2. QED
    BY <2>1, RuleActions
<1> HIDE DEF r
<1>5. Yields(h, Waiters(s), {}, r, "ANT_LIST")
  BY <1>1, <1>3, <1>4, ListYields
<1>6. Pops(s, {}, n - 3)
  <2> DEFINE left == n - 3
  <2>1. /\ left \in 1 .. n
        /\ \A k \in DOMAIN s : k > left => k \in {n, n - 1, n - 2}
    BY <1>1
  <2>2. \A q \in {15, 20, 23} : q \notin NodeStates
    BY DEF NodeStates
  <2>3. \A k \in DOMAIN s : k > left => s[k].state \notin NodeStates
    BY <1>1, <2>1, <2>2
  <2> HIDE DEF left
  <2>4. Pops(s, {}, left)
    BY <1>1, <2>1, <2>3, NonePopped
  <2>5. QED
    BY <2>4 DEF left
<1>7. Goto(s[n - 3].state, 15) \in {17, 21}
  BY <1>1, GotoFacts
<1>8. StandsFor(r.heap, Goto(s[n - 3].state, 15), r.node)
  BY <1>5, <1>7 DEF StandsFor, Options, Yields
<1>9. Replaceable(h, s, n - 3, Goto(s[n - 3].state, 15), r)
  BY <1>1, <1>5, <1>6, <1>7, <1>8 DEF Replaceable, NodeStates
<1>10. QED
  BY <1>1, <1>9 DEF Succeeds, r

\* package : PACKAGE VALUE
LEMMA PackageRule ==
    ASSUME NEW h, NEW s, NEW ts, NEW n, NEW t, t = 9, NEW rhs, Applies(h, s, ts, n, t, rhs)
    PROVE  Succeeds(h, s, ts, n, t, rhs)
<1>1. /\ Size(t) = 2 /\ LeftSide(t) = 10
      /\ Waits(h, s) /\ Built(h, Waiters(s)) /\ Made(h)
      /\ n \in Nat /\ n - 2 \in 1 .. n /\ DOMAIN s = 1 .. n
      /\ s[n].state = 9 /\ s[n - 1].state = 2 /\ s[n - 2].state = 0
  <2>1. /\ Size(t) = 2 /\ LeftSide(t) = 10
        /\ s[n - 1].state = 2 /\ s[n - 2].state = 0
    BY RuleShape DEF Shape
  <2>2. /\ Waits(h, s) /\ Built(h, Waiters(s)) /\ Made(h)
        /\ n \in Nat /\ DOMAIN s = 1 .. n /\ s[n].state = t
        /\ Size(t) \in 1 .. n - 1 /\ n - Size(t) \in 1 .. n
    BY RuleApplies
  <2>3. QED
    BY <2>1, <2>2
<1>2. ts[rhs[2]].text \in Strings
  <2>1. rhs[2] = s[n].value
    BY <1>1, RuleValues
  <2>2. n \in DOMAIN s
    BY <1>1
  <2>3. QED
    BY <1>1, <2>1, <2>2, RuleTexts
<1> DEFINE r == RuleAction(At(yydefact, t), h, ts, rhs)
<1>3. r = ReducePackage(h, ts[rhs[2]].text)
  <2>1. At(yydefact, t) = 4
    BY RuleApplies, RuleOf
  <2>2. QED
    BY <2>1, RuleActions
<1> HIDE DEF r
<1>4. Yields(h, Waiters(s), {}, r, "ANT_PACKAGE")
  BY <1>1, <1>2, <1>3, PackageYields
<1>5. Pops(s, {}, n - 2)
  <2> DEFINE left == n - 2
  <2>1. /\ left \in 1 .. n
        /\ \A k \in DOMAIN s : k > left => k \in {n, n - 1}
    BY <1>1
  <2>2. \A q \in {2, 9} : q \notin NodeStates
    BY DEF NodeStates
  <2>3. \A k \in DOMAIN s : k > left => s[k].state \notin NodeStates
    BY <1>1, <2>1, <2>2
  <2> HIDE DEF left
  <2>4. Pops(s, {}, left)
    BY <1>1, <2>1, <2>3, NonePopped
  <2>5. QED
    BY <2>4 DEF left
<1>6. Goto(s[n - 2].state, 10) = 4
  BY <1>1, GotoFacts
<1>7. StandsFor(r.heap, 4, r.node)
  BY <1>4 DEF StandsFor, Yields
<1>8. Replaceable(h, s, n - 2, Goto(s[n - 2].state, 10), r)
  BY <1>1, <1>4, <1>5, <1>6, <1>7 DEF Replaceable, NodeStates
<1>9. QED
  BY <1>1, <1>8 DEF Succeeds, r

\* line : config
LEMMA LineRule ==
    ASSUME NEW h, NEW s, NEW ts, NEW n, NEW t, t = 7, NEW rhs, Applies(h, s, ts, n, t, rhs)
    PROVE  Succeeds(h, s, ts, n, t, rhs)
<1>1. /\ Size(t) = 1 /\ LeftSide(t) = 12
      /\ Waits(h, s) /\ Built(h, Waiters(s)) /\ Made(h)
      /\ n \in Nat /\ n - 1 \in 1 .. n /\ n - 1 < n /\ DOMAIN s = 1 .. n
      /\ s[n].state = 7 /\ s[n - 1].state \in {0, 4, 5, 11}
  <2>1. /\ Size(t) = 1 /\ LeftSide(t) = 12
        /\ s[n - 1].state \in {0, 4, 5, 11}
    BY RuleShape DEF Shape
  <2>2. /\ Waits(h, s) /\ Built(h, Waiters(s)) /\ Made(h)
        /\ n \in Nat /\ DOMAIN s = 1 .. n /\ s[n].state = t
        /\ Size(t) \in 1 .. n - 1 /\ n - Size(t) \in 1 .. n
    BY RuleApplies
  <2>3. QED
    BY <2>1, <2>2
<1> DEFINE node == s[n].value
<1>2. node \in Waiters(s) /\ h[node].kind = "ANT_SECTION_TYPE"
  <2>1. HoldsNode(s, n)
    BY <1>1 DEF HoldsNode, NodeStates
  <2>2. QED
    BY <1>1, <2>1, HeldWaits DEF StandsFor
<1> DEFINE r == RuleAction(At(yydefact, t), h, ts, rhs)
<1>3. r = Reduced(h, node)
  <2>1. At(yydefact, t) = 7
    BY RuleApplies, RuleOf
  <2>2. rhs[1] = node
    BY <1>1, RuleValues
  <2>3. QED
    BY <2>1, <2>2, RuleActions
<1> HIDE DEF r
<1>4. Yields(h, Waiters(s), {node}, r, "ANT_SECTION_TYPE")
  <2> DEFINE W == Waiters(s)
  <2>1. r.heap = h /\ r.node = node
    BY <1>3 DEF Reduced
  <2>2. node \in DOMAIN h /\ node \in W
    BY <1>1, <1>2 DEF Built
  <2> HIDE DEF W, node
  <2>3. (W \ {node}) \cup {node} = W
    BY <2>2
  <2>4. QED
    BY <1>1, <1>2, <2>1, <2>2, <2>3 DEF Yields, W
<1>5. Pops(s, {node}, n - 1)
  <2>1. s[n].state \in NodeStates
    BY <1>1 DEF NodeStates
  <2>2. QED
    BY <1>1, <2>1, LastPopped
<1>6. Goto(s[n - 1].state, 12) \in {6, 12}
  BY <1>1, GotoFacts
<1>7. StandsFor(r.heap, Goto(s[n - 1].state, 12), r.node)
  BY <1>4, <1>6 DEF StandsFor, Yields
<1> HIDE DEF node
<1>8. Replaceable(h, s, n - 1, Goto(s[n - 1].state, 12), r)
  BY <1>1, <1>4, <1>5, <1>6, <1>7 DEF Replaceable, NodeStates
<1>9. QED
  BY <1>1, <1>8 DEF Succeeds, r

\* A rule that starts a list of nodes of the kinds K with the node on top.
LEMMA FirstReplaces ==
    ASSUME NEW h, NEW s, Waits(h, s), NEW n \in Nat, DOMAIN s = 1 .. n, n - 1 \in 1 .. n,
           s[n].state \in NodeStates,
           NEW K, K \subseteq BuiltKinds("ANT_SENTINEL"), h[s[n].value].kind \in K,
           NEW r, r = ReduceFirst(h, s[n].value), NEW q \in NodeStates,
           r.heap[r.node].kind = "ANT_SENTINEL" /\ KidsAre(r.heap, r.node, K)
               => StandsFor(r.heap, q, r.node)
    PROVE  Replaceable(h, s, n - 1, q, r)
<1> DEFINE node == s[n].value
<1>1. node \in Waiters(s) /\ Built(h, Waiters(s)) /\ Made(h)
  <2>1. HoldsNode(s, n)
    BY DEF HoldsNode
  <2>2. QED
    BY <2>1, HeldWaits
<1>2. Yields(h, Waiters(s), {node}, r, "ANT_SENTINEL") /\ KidsAre(r.heap, r.node, K)
  <2> DEFINE W == Waiters(s)
  <2>1. node \in W /\ Built(h, W) /\ h[node].kind \in K /\ r = ReduceFirst(h, node)
    BY <1>1
  <2> HIDE DEF W, node
  <2>2. QED
    BY <1>1, <2>1, FirstYields DEF W
<1>3. Pops(s, {node}, n - 1)
  BY LastPopped
<1> HIDE DEF node
<1>4. StandsFor(r.heap, q, r.node)
  BY <1>2 DEF Yields
<1>5. QED
  BY <1>2, <1>3, <1>4 DEF Replaceable

\* The two entries on top of a third.
LEMMA TwoBelow ==
    ASSUME NEW n \in Nat, n - 2 \in 1 .. n
    PROVE  n \in 1 .. n /\ n - 1 \in 1 .. n
OBVIOUS

\* A rule that appends the node on top to such a list, which lies beneath it.
LEMMA NextReplaces ==
    ASSUME NEW h, NEW s, Waits(h, s), NEW n \in Nat, DOMAIN s = 1 .. n, n - 2 \in 1 .. n,
           s[n].state \in NodeStates, s[n - 1].state \in NodeStates,
           NEW K, K \subseteq BuiltKinds("ANT_SENTINEL"), h[s[n].value].kind \in K,
           h[s[n - 1].value].kind = "ANT_SENTINEL", KidsAre(h, s[n - 1].value, K),
           NEW r, r = ReduceNext(h, s[n - 1].value, s[n].value), NEW q \in NodeStates,
           r.heap[r.node].kind = "ANT_SENTINEL" /\ KidsAre(r.heap, r.node, K)
               => StandsFor(r.heap, q, r.node)
    PROVE  Replaceable(h, s, n - 2, q, r)
<1> DEFINE node == s[n].value
<1> DEFINE list == s[n - 1].value
<1>1. /\ node \in Waiters(s) /\ list \in Waiters(s) /\ Built(h, Waiters(s)) /\ Made(h)
  <2>1. n \in DOMAIN s /\ n - 1 \in DOMAIN s
    BY TwoBelow
  <2>2. \A k \in DOMAIN s : s[k].state \in NodeStates => HoldsNode(s, k)
    BY DEF HoldsNode
  <2>3. HoldsNode(s, n) /\ HoldsNode(s, n - 1)
    BY <2>1, <2>2
  <2>4. QED
    BY <2>3, HeldWaits
<1>2. Pops(s, {list, node}, n - 2) /\ list # node
  BY TwoPopped
<1>3. Yields(h, Waiters(s), {list, node}, r, "ANT_SENTINEL") /\ KidsAre(r.heap, r.node, K)
  <2> DEFINE W == Waiters(s)
  <2>1. /\ list \in W /\ node \in W /\ Built(h, W) /\ h[node].kind \in K
        /\ h[list].kind = "ANT_SENTINEL" /\ KidsAre(h, list, K) /\ r = ReduceNext(h, list, node)
    BY <1>1
  <2> HIDE DEF W, list, node
  <2>2. QED
    BY <1>1, <1>2, <2>1, NextYields DEF W
<1> HIDE DEF list, node
<1>4. r.heap[r.node].kind = "ANT_SENTINEL"
  BY <1>3 DEF Yields
<1>5. QED
  BY <1>2, <1>3, <1>4 DEF Replaceable

\* What lies in a list that a sentinel holds until it is moved.
LEMMA ListKinds ==
    /\ {"ANT_SECTION_TYPE"} \subseteq BuiltKinds("ANT_SENTINEL")
    /\ Options \subseteq BuiltKinds("ANT_SENTINEL")
BY DEF BuiltKinds, Options

\* lines : line
LEMMA FirstLineRule ==
    ASSUME NEW h, NEW s, NEW ts, NEW n, NEW t, t = 6, NEW rhs, Applies(h, s, ts, n, t, rhs)
    PROVE  Succeeds(h, s, ts, n, t, rhs)
<1>1. /\ Size(t) = 1 /\ LeftSide(t) = 11
      /\ Waits(h, s) /\ n \in Nat /\ n - 1 \in 1 .. n /\ DOMAIN s = 1 .. n
      /\ s[n].state = 6 /\ s[n - 1].state \in {0, 4}
  <2>1. /\ Size(t) = 1 /\ LeftSide(t) = 11
        /\ s[n - 1].state \in {0, 4}
    BY RuleShape DEF Shape
  <2>2. /\ Waits(h, s) /\ Built(h, Waiters(s)) /\ Made(h)
        /\ n \in Nat /\ DOMAIN s = 1 .. n /\ s[n].state = t
        /\ Size(t) \in 1 .. n - 1 /\ n - Size(t) \in 1 .. n
    BY RuleApplies
  <2>3. QED
    BY <2>1, <2>2
<1>2. s[n].state \in NodeStates /\ h[s[n].value].kind \in {"ANT_SECTION_TYPE"}
  <2>1. HoldsNode(s, n)
    BY <1>1 DEF HoldsNode, NodeStates
  <2>2. QED
    BY <1>1, <2>1, HeldWaits DEF StandsFor, HoldsNode
<1> DEFINE r == RuleAction(At(yydefact, t), h, ts, rhs)
<1>3. r = ReduceFirst(h, s[n].value)
  <2>1. At(yydefact, t) = 5 /\ rhs[1] = s[n].value
    BY <1>1, RuleApplies, RuleValues, RuleOf
  <2>2. QED
    BY <2>1, RuleActions
<1> HIDE DEF r
<1> DEFINE q == Goto(s[n - 1].state, 11)
<1>4. q \in {5, 11}
  BY <1>1, GotoFacts
<1> HIDE DEF q
<1>5. r.heap[r.node].kind = "ANT_SENTINEL" /\ KidsAre(r.heap, r.node, {"ANT_SECTION_TYPE"})
          => StandsFor(r.heap, q, r.node)
  BY <1>4 DEF StandsFor
<1>6. q \in NodeStates
  BY <1>4 DEF NodeStates
<1>7. Replaceable(h, s, n - 1, q, r)
  BY <1>1, <1>2, <1>3, <1>5, <1>6, ListKinds, FirstReplaces
<1>8. QED
  BY <1>1, <1>7 DEF Succeeds, q, r

\* options : option
LEMMA FirstOptionRule ==
    ASSUME NEW h, NEW s, NEW ts, NEW n, NEW t, t = 17, NEW rhs, Applies(h, s, ts, n, t, rhs)
    PROVE  Succeeds(h, s, ts, n, t, rhs)
<1>1. /\ Size(t) = 1 /\ LeftSide(t) = 14
      /\ Waits(h, s) /\ n \in Nat /\ n - 1 \in 1 .. n /\ DOMAIN s = 1 .. n
      /\ s[n].state = 17 /\ s[n - 1].state \in {8, 13}
  <2>1. /\ Size(t) = 1 /\ LeftSide(t) = 14
        /\ s[n - 1].state \in {8, 13}
    BY RuleShape DEF Shape
  <2>2. /\ Waits(h, s) /\ Built(h, Waiters(s)) /\ Made(h)
        /\ n \in Nat /\ DOMAIN s = 1 .. n /\ s[n].state = t
        /\ Size(t) \in 1 .. n - 1 /\ n - Size(t) \in 1 .. n
    BY RuleApplies
  <2>3. QED
    BY <2>1, <2>2
<1>2. s[n].state \in NodeStates /\ h[s[n].value].kind \in Options
  <2>1. HoldsNode(s, n)
    BY <1>1 DEF HoldsNode, NodeStates
  <2>2. QED
    BY <1>1, <2>1, HeldWaits DEF StandsFor, HoldsNode
<1> DEFINE r == RuleAction(At(yydefact, t), h, ts, rhs)
<1>3. r = ReduceFirst(h, s[n].value)
  <2>1. At(yydefact, t) = 12 /\ rhs[1] = s[n].value
    BY <1>1, RuleApplies, RuleValues, RuleOf
  <2>2. QED
    BY <2>1, RuleActions
<1> HIDE DEF r
<1> DEFINE q == Goto(s[n - 1].state, 14)
<1>4. q \in {16, 18}
  BY <1>1, GotoFacts
<1> HIDE DEF q
<1>5. r.heap[r.node].kind = "ANT_SENTINEL" /\ KidsAre(r.heap, r.node, Options)
          => StandsFor(r.heap, q, r.node)
  BY <1>4 DEF StandsFor
<1>6. q \in NodeStates
  BY <1>4 DEF NodeStates
<1>7. Replaceable(h, s, n - 1, q, r)
  BY <1>1, <1>2, <1>3, <1>5, <1>6, ListKinds, FirstReplaces
<1>8. QED
  BY <1>1, <1>7 DEF Succeeds, q, r

\* lines : lines line
LEMMA NextLineRule ==
    ASSUME NEW h, NEW s, NEW ts, NEW n, NEW t, t = 12, NEW rhs, Applies(h, s, ts, n, t, rhs)
    PROVE  Succeeds(h, s, ts, n, t, rhs)
<1>1. /\ Size(t) = 2 /\ LeftSide(t) = 11
      /\ Waits(h, s) /\ n \in Nat /\ n - 2 \in 1 .. n /\ DOMAIN s = 1 .. n
      /\ s[n].state = 12
      /\ \/ s[n - 1].state = 5 /\ s[n - 2].state = 0
         \/ s[n - 1].state = 11 /\ s[n - 2].state = 4
  <2>1. /\ Size(t) = 2 /\ LeftSide(t) = 11
        /\ \/ s[n - 1].state = 5 /\ s[n - 2].state = 0
           \/ s[n - 1].state = 11 /\ s[n - 2].state = 4
    BY RuleShape DEF Shape
  <2>2. /\ Waits(h, s) /\ Built(h, Waiters(s)) /\ Made(h)
        /\ n \in Nat /\ DOMAIN s = 1 .. n /\ s[n].state = t
        /\ Size(t) \in 1 .. n - 1 /\ n - Size(t) \in 1 .. n
    BY RuleApplies
  <2>3. QED
    BY <2>1, <2>2
<1>2. /\ s[n].state \in NodeStates /\ h[s[n].value].kind \in {"ANT_SECTION_TYPE"}
      /\ s[n - 1].state \in NodeStates /\ h[s[n - 1].value].kind = "ANT_SENTINEL"
      /\ KidsAre(h, s[n - 1].value, {"ANT_SECTION_TYPE"})
  <2>1. HoldsNode(s, n) /\ HoldsNode(s, n - 1)
    BY SMTT(30), <1>1 DEF HoldsNode, NodeStates
  <2>2. StandsFor(h, s[n].state, s[n].value) /\ StandsFor(h, s[n - 1].state, s[n - 1].value)
    BY <1>1, <2>1, HeldWaits
  <2>3. QED
    BY <1>1, <2>1, <2>2 DEF StandsFor, HoldsNode
<1> DEFINE r == RuleAction(At(yydefact, t), h, ts, rhs)
<1>3. r = ReduceNext(h, s[n - 1].value, s[n].value)
  <2>1. At(yydefact, t) = 6 /\ rhs[1] = s[n - 1].value /\ rhs[2] = s[n].value
    BY <1>1, RuleApplies, RuleValues, RuleOf
  <2>2. QED
    BY <2>1, RuleActions
<1> HIDE DEF r
<1> DEFINE q == Goto(s[n - 2].state, 11)
<1>4. q \in {5, 11}
  BY <1>1, GotoFacts
<1> HIDE DEF q
<1>5. r.heap[r.node].kind = "ANT_SENTINEL" /\ KidsAre(r.heap, r.node, {"ANT_SECTION_TYPE"})
          => StandsFor(r.heap, q, r.node)
  BY <1>4 DEF StandsFor
<1>6. q \in NodeStates
  BY <1>4 DEF NodeStates
<1>7. Replaceable(h, s, n - 2, q, r)
  BY <1>1, <1>2, <1>3, <1>5, <1>6, ListKinds, NextReplaces
<1>8. QED
  BY <1>1, <1>7 DEF Succeeds, q, r

\* options : options option
LEMMA NextOptionRule ==
    ASSUME NEW h, NEW s, NEW ts, NEW n, NEW t, t = 21, NEW rhs, Applies(h, s, ts, n, t, rhs)
    PROVE  Succeeds(h, s, ts, n, t, rhs)
<1>1. /\ Size(t) = 2 /\ LeftSide(t) = 14
      /\ Waits(h, s) /\ n \in Nat /\ n - 2 \in 1 .. n /\ DOMAIN s = 1 .. n
      /\ s[n].state = 21
      /\ \/ s[n - 1].state = 16 /\ s[n - 2].state = 8
         \/ s[n - 1].state = 18 /\ s[n - 2].state = 13
  <2>1. /\ Size(t) = 2 /\ LeftSide(t) = 14
        /\ \/ s[n - 1].state = 16 /\ s[n - 2].state = 8
           \/ s[n - 1].state = 18 /\ s[n - 2].state = 13
    BY RuleShape DEF Shape
  <2>2. /\ Waits(h, s) /\ Built(h, Waiters(s)) /\ Made(h)
        /\ n \in Nat /\ DOMAIN s = 1 .. n /\ s[n].state = t
        /\ Size(t) \in 1 .. n - 1 /\ n - Size(t) \in 1 .. n
    BY RuleApplies
  <2>3. QED
    BY <2>1, <2>2
<1>2. /\ s[n].state \in NodeStates /\ h[s[n].value].kind \in Options
      /\ s[n - 1].state \in NodeStates /\ h[s[n - 1].value].kind = "ANT_SENTINEL"
      /\ KidsAre(h, s[n - 1].value, Options)
  <2>1. HoldsNode(s, n) /\ HoldsNode(s, n - 1)
    BY SMTT(30), <1>1 DEF HoldsNode, NodeStates
  <2>2. StandsFor(h, s[n].state, s[n].value) /\ StandsFor(h, s[n - 1].state, s[n - 1].value)
    BY <1>1, <2>1, HeldWaits
  <2>3. QED
    BY <1>1, <2>1, <2>2 DEF StandsFor, HoldsNode
<1> DEFINE r == RuleAction(At(yydefact, t), h, ts, rhs)
<1>3. r = ReduceNext(h, s[n - 1].value, s[n].value)
  <2>1. At(yydefact, t) = 13 /\ rhs[1] = s[n - 1].value /\ rhs[2] = s[n].value
    BY <1>1, RuleApplies, RuleValues, RuleOf
  <2>2. QED
    BY <2>1, RuleActions
<1> HIDE DEF r
<1> DEFINE q == Goto(s[n - 2].state, 14)
<1>4. q \in {16, 18}
  BY <1>1, GotoFacts
<1> HIDE DEF q
<1>5. r.heap[r.node].kind = "ANT_SENTINEL" /\ KidsAre(r.heap, r.node, Options)
          => StandsFor(r.heap, q, r.node)
  BY <1>4 DEF StandsFor
<1>6. q \in NodeStates
  BY <1>4 DEF NodeStates
<1>7. Replaceable(h, s, n - 2, q, r)
  BY <1>1, <1>2, <1>3, <1>5, <1>6, ListKinds, NextReplaces
<1>8. QED
  BY <1>1, <1>7 DEF Succeeds, q, r

\* A rule that makes a section, where the sentinel of its lines is options.
LEMMA ConfigReplaces ==
    ASSUME NEW h, NEW s, Waits(h, s), NEW left, NEW options,
           NEW type \in TypeNames, NEW name \in SectionNames \cup {NoString},
           options # NoNode => \E k : HoldsNode(s, k) /\ s[k].state \in {16, 18} /\ s[k].value = options,
           Pops(s, {options}, left),
           NEW r, r = ReduceConfig(h, type, name, options),
           NEW p \in {0, 4, 5, 11}
    PROVE  Replaceable(h, s, left, Goto(p, 13), r)
<1> DEFINE W == Waiters(s)
<1>1. Built(h, W) /\ Made(h)
  BY DEF Waits
<1>2. options # NoNode => /\ options \in W /\ h[options].kind = "ANT_SENTINEL"
                          /\ KidsAre(h, options, {"ANT_OPTION", "ANT_LIST"})
  <2>1. ASSUME NEW k, HoldsNode(s, k), s[k].state \in {16, 18}, s[k].value = options
        PROVE  /\ options \in W /\ h[options].kind = "ANT_SENTINEL"
               /\ KidsAre(h, options, {"ANT_OPTION", "ANT_LIST"})
    <3>1. options \in W /\ StandsFor(h, s[k].state, options)
      BY <2>1, HeldWaits
    <3>2. QED
      BY <2>1, <3>1 DEF StandsFor, Options
  <2>2. QED
    BY <2>1
<1>3. Yields(h, W, {options}, r, "ANT_SECTION_TYPE")
  <2> HIDE DEF W
  <2>1. QED
    BY <1>1, <1>2, ConfigYields
<1>4. Goto(p, 13) = 7
  BY GotoFacts
<1>5. StandsFor(r.heap, 7, r.node)
  BY <1>3 DEF StandsFor, Yields
<1>6. QED
  BY <1>3, <1>4, <1>5 DEF Replaceable, NodeStates

\* config : CONFIG VALUE
LEMMA BareConfigRule ==
    ASSUME NEW h, NEW s, NEW ts, NEW n, NEW t, t = 8, NEW rhs, Applies(h, s, ts, n, t, rhs)
    PROVE  Succeeds(h, s, ts, n, t, rhs)
<1>1. /\ Size(t) = 2 /\ LeftSide(t) = 13
      /\ Waits(h, s) /\ n \in Nat /\ n - 2 \in 1 .. n /\ DOMAIN s = 1 .. n
      /\ s[n].state = 8 /\ s[n - 1].state = 1 /\ s[n - 2].state \in {0, 4, 5, 11}
  <2>1. /\ Size(t) = 2 /\ LeftSide(t) = 13
        /\ s[n - 1].state = 1 /\ s[n - 2].state \in {0, 4, 5, 11}
    BY RuleShape DEF Shape
  <2>2. /\ Waits(h, s) /\ Built(h, Waiters(s)) /\ Made(h)
        /\ n \in Nat /\ DOMAIN s = 1 .. n /\ s[n].state = t
        /\ Size(t) \in 1 .. n - 1 /\ n - Size(t) \in 1 .. n
    BY RuleApplies
  <2>3. QED
    BY <2>1, <2>2
<1>2. ts[rhs[2]].text \in TypeNames
  <2>1. rhs[2] = s[n].value /\ n \in DOMAIN s
    BY <1>1, RuleValues
  <2>2. QED
    BY <1>1, <2>1, RuleTexts
<1> DEFINE r == RuleAction(At(yydefact, t), h, ts, rhs)
<1>3. r = ReduceConfig(h, ts[rhs[2]].text, NoString, NoNode)
  <2>1. At(yydefact, t) = 8
    BY RuleApplies, RuleOf
  <2>2. QED
    BY <2>1, RuleActions
<1> HIDE DEF r
<1>4. Pops(s, {NoNode}, n - 2)
  <2> DEFINE left == n - 2
  <2>1. /\ left \in 1 .. n
        /\ \A k \in DOMAIN s : k > left => k \in {n, n - 1}
    BY <1>1
  <2>2. \A q \in {1, 8} : q \notin NodeStates
    BY DEF NodeStates
  <2>3. \A k \in DOMAIN s : k > left => s[k].state \notin NodeStates
    BY <1>1, <2>1, <2>2
  <2> HIDE DEF left
  <2>4. Pops(s, {NoNode}, left)
    BY <1>1, <2>1, <2>3, NonePopped
  <2>5. QED
    BY <2>4 DEF left
<1>5. Replaceable(h, s, n - 2, Goto(s[n - 2].state, 13), r)
  BY <1>1, <1>2, <1>3, <1>4, ConfigReplaces
<1>6. QED
  BY <1>1, <1>5 DEF Succeeds, r

\* config : CONFIG VALUE VALUE
LEMMA NamedConfigRule ==
    ASSUME NEW h, NEW s, NEW ts, NEW n, NEW t, t = 13, NEW rhs, Applies(h, s, ts, n, t, rhs)
    PROVE  Succeeds(h, s, ts, n, t, rhs)
<1>1. /\ Size(t) = 3 /\ LeftSide(t) = 13
      /\ Waits(h, s) /\ n \in Nat /\ n - 3 \in 1 .. n /\ DOMAIN s = 1 .. n
      /\ s[n].state = 13 /\ s[n - 1].state = 8 /\ s[n - 2].state = 1
      /\ s[n - 3].state \in {0, 4, 5, 11}
  <2>1. /\ Size(t) = 3 /\ LeftSide(t) = 13
        /\ s[n - 1].state = 8 /\ s[n - 2].state = 1
        /\ s[n - 3].state \in {0, 4, 5, 11}
    BY RuleShape DEF Shape
  <2>2. /\ Waits(h, s) /\ Built(h, Waiters(s)) /\ Made(h)
        /\ n \in Nat /\ DOMAIN s = 1 .. n /\ s[n].state = t
        /\ Size(t) \in 1 .. n - 1 /\ n - Size(t) \in 1 .. n
    BY RuleApplies
  <2>3. QED
    BY <2>1, <2>2
<1>2. ts[rhs[2]].text \in TypeNames /\ ts[rhs[3]].text \in SectionNames
  <2>1. rhs[3] = s[n].value /\ rhs[2] = s[n - 1].value
    <3>1. rhs[Size(t)] = s[n].value /\ rhs[Size(t) - 1] = s[n - 1].value
      BY <1>1, RuleValues
    <3>2. QED
      BY <1>1, <3>1
  <2>2. n \in DOMAIN s /\ n - 1 \in DOMAIN s
    BY <1>1
  <2>3. QED
    BY <1>1, <2>1, <2>2, RuleTexts
<1> DEFINE r == RuleAction(At(yydefact, t), h, ts, rhs)
<1>3. r = ReduceConfig(h, ts[rhs[2]].text, ts[rhs[3]].text, NoNode)
  <2>1. At(yydefact, t) = 9
    BY RuleApplies, RuleOf
  <2>2. QED
    BY <2>1, RuleActions
<1> HIDE DEF r
<1>4. Pops(s, {NoNode}, n - 3)
  <2> DEFINE left == n - 3
  <2>1. /\ left \in 1 .. n
        /\ \A k \in DOMAIN s : k > left => k \in {n, n - 1, n - 2}
    BY <1>1
  <2>2. \A q \in {1, 8, 13} : q \notin NodeStates
    BY DEF NodeStates
  <2>3. \A k \in DOMAIN s : k > left => s[k].state \notin NodeStates
    BY <1>1, <2>1, <2>2
  <2> HIDE DEF left
  <2>4. Pops(s, {NoNode}, left)
    BY <1>1, <2>1, <2>3, NonePopped
  <2>5. QED
    BY <2>4 DEF left
<1>5. Replaceable(h, s, n - 3, Goto(s[n - 3].state, 13), r)
  BY <1>1, <1>2, <1>3, <1>4, ConfigReplaces
<1>6. QED
  BY <1>1, <1>5 DEF Succeeds, r

\* config : CONFIG VALUE options
LEMMA FilledConfigRule ==
    ASSUME NEW h, NEW s, NEW ts, NEW n, NEW t, t = 16, NEW rhs, Applies(h, s, ts, n, t, rhs)
    PROVE  Succeeds(h, s, ts, n, t, rhs)
<1>1. /\ Size(t) = 3 /\ LeftSide(t) = 13
      /\ Waits(h, s) /\ n \in Nat /\ n - 3 \in 1 .. n /\ n - 3 < n /\ DOMAIN s = 1 .. n
      /\ s[n].state = 16 /\ s[n - 1].state = 8 /\ s[n - 2].state = 1
      /\ s[n - 3].state \in {0, 4, 5, 11}
  <2>1. /\ Size(t) = 3 /\ LeftSide(t) = 13
        /\ s[n - 1].state = 8 /\ s[n - 2].state = 1
        /\ s[n - 3].state \in {0, 4, 5, 11}
    BY RuleShape DEF Shape
  <2>2. /\ Waits(h, s) /\ Built(h, Waiters(s)) /\ Made(h)
        /\ n \in Nat /\ DOMAIN s = 1 .. n /\ s[n].state = t
        /\ Size(t) \in 1 .. n - 1 /\ n - Size(t) \in 1 .. n
    BY RuleApplies
  <2>3. QED
    BY <2>1, <2>2
<1>2. rhs[3] = s[n].value /\ rhs[2] = s[n - 1].value
  <2>1. rhs[Size(t)] = s[n].value /\ rhs[Size(t) - 1] = s[n - 1].value
    BY <1>1, RuleValues
  <2>2. QED
    BY <1>1, <2>1
<1>3. ts[rhs[2]].text \in TypeNames
  <2>1. n - 1 \in DOMAIN s
    BY <1>1
  <2>2. QED
    BY <1>1, <1>2, <2>1, RuleTexts
<1> DEFINE r == RuleAction(At(yydefact, t), h, ts, rhs)
<1>4. r = ReduceConfig(h, ts[rhs[2]].text, NoString, s[n].value)
  <2>1. At(yydefact, t) = 10
    BY RuleApplies, RuleOf
  <2>2. QED
    BY <1>2, <2>1, RuleActions
<1> HIDE DEF r
<1>5. HoldsNode(s, n) /\ s[n].state \in {16, 18} /\ s[n].state \in NodeStates
  BY <1>1 DEF HoldsNode, NodeStates
<1>6. Pops(s, {s[n].value}, n - 3)
  <2> DEFINE left == n - 3
  <2>1. /\ left \in 1 .. n /\ left < n
        /\ \A k \in DOMAIN s : k > left /\ k < n => k \in {n - 1, n - 2}
    BY <1>1
  <2>2. \A q \in {1, 8} : q \notin NodeStates
    BY DEF NodeStates
  <2>3. \A k \in DOMAIN s : k > left /\ k < n => s[k].state \notin NodeStates
    BY <1>1, <2>1, <2>2
  <2> HIDE DEF left
  <2>4. Pops(s, {s[n].value}, left)
    BY <1>1, <1>5, <2>1, <2>3, OnePopped
  <2>5. QED
    BY <2>4 DEF left
<1>7. Replaceable(h, s, n - 3, Goto(s[n - 3].state, 13), r)
  BY <1>1, <1>3, <1>4, <1>5, <1>6, ConfigReplaces
<1>8. QED
  BY <1>1, <1>7 DEF Succeeds, r

\* config : CONFIG VALUE VALUE options
LEMMA FullConfigRule ==
    ASSUME NEW h, NEW s, NEW ts, NEW n, NEW t, t = 18, NEW rhs, Applies(h, s, ts, n, t, rhs)
    PROVE  Succeeds(h, s, ts, n, t, rhs)
<1>1. /\ Size(t) = 4 /\ LeftSide(t) = 13
      /\ Waits(h, s) /\ n \in Nat /\ n - 4 \in 1 .. n /\ n - 4 < n /\ DOMAIN s = 1 .. n
      /\ s[n].state = 18 /\ s[n - 1].state = 13 /\ s[n - 2].state = 8 /\ s[n - 3].state = 1
      /\ s[n - 4].state \in {0, 4, 5, 11}
  <2>1. /\ Size(t) = 4 /\ LeftSide(t) = 13
        /\ s[n - 1].state = 13 /\ s[n - 2].state = 8 /\ s[n - 3].state = 1
        /\ s[n - 4].state \in {0, 4, 5, 11}
    BY RuleShape DEF Shape
  <2>2. /\ Waits(h, s) /\ Built(h, Waiters(s)) /\ Made(h)
        /\ n \in Nat /\ DOMAIN s = 1 .. n /\ s[n].state = t
        /\ Size(t) \in 1 .. n - 1 /\ n - Size(t) \in 1 .. n
    BY RuleApplies
  <2>3. QED
    BY <2>1, <2>2
<1>2. rhs[4] = s[n].value /\ rhs[3] = s[n - 1].value /\ rhs[2] = s[n - 2].value
  <2>1. /\ rhs[Size(t)] = s[n].value
        /\ rhs[Size(t) - 1] = s[n - 1].value
        /\ rhs[Size(t) - 2] = s[n - 2].value
    BY <1>1, RuleValues
  <2>2. QED
    BY <1>1, <2>1
<1>3. ts[rhs[2]].text \in TypeNames /\ ts[rhs[3]].text \in SectionNames
  <2>1. n - 1 \in DOMAIN s /\ n - 2 \in DOMAIN s
    BY <1>1
  <2>2. QED
    BY <1>1, <1>2, <2>1, RuleTexts
<1> DEFINE r == RuleAction(At(yydefact, t), h, ts, rhs)
<1>4. r = ReduceConfig(h, ts[rhs[2]].text, ts[rhs[3]].text, s[n].value)
  <2>1. At(yydefact, t) = 11
    BY RuleApplies, RuleOf
  <2>2. QED
    BY <1>2, <2>1, RuleActions
<1> HIDE DEF r
<1>5. HoldsNode(s, n) /\ s[n].state \in {16, 18} /\ s[n].state \in NodeStates
  BY <1>1 DEF HoldsNode, NodeStates
<1>6. Pops(s, {s[n].value}, n - 4)
  <2> DEFINE left == n - 4
  <2>1. /\ left \in 1 .. n /\ left < n
        /\ \A k \in DOMAIN s : k > left /\ k < n => k \in {n - 1, n - 2, n - 3}
    BY SMTT(30), <1>1
  <2>2. \A q \in {1, 8, 13} : q \notin NodeStates
    BY DEF NodeStates
  <2>3. \A k \in DOMAIN s : k > left /\ k < n => s[k].state \notin NodeStates
    BY <1>1, <2>1, <2>2
  <2> HIDE DEF left
  <2>4. Pops(s, {s[n].value}, left)
    BY <1>1, <1>5, <2>1, <2>3, OnePopped
  <2>5. QED
    BY <2>4 DEF left
<1>7. Replaceable(h, s, n - 4, Goto(s[n - 4].state, 13), r)
  BY <1>1, <1>3, <1>4, <1>5, <1>6, ConfigReplaces
<1>8. QED
  BY <1>1, <1>7 DEF Succeeds, r

\* Every rule but that of the root leaves the stack as the next one needs it.
LEMMA RuleSucceeds ==
    ASSUME NEW h, NEW s, NEW ts, NEW n, NEW t, t \notin {5, 11}, NEW rhs,
           Applies(h, s, ts, n, t, rhs)
    PROVE  Succeeds(h, s, ts, n, t, rhs)
<1>1. t \in {6, 7, 8, 9, 12, 13, 16, 17, 18, 20, 21, 22, 23}
  <2>1. t \in States /\ At(yydefact, t) # 0 /\ t # YYFINAL
    BY RuleApplies
  <2>2. QED
    BY <2>1, RuleFacts
<1>2. t \in {6, 12, 17, 21} => Succeeds(h, s, ts, n, t, rhs)
  BY FirstLineRule, NextLineRule, FirstOptionRule, NextOptionRule
<1>3. t \in {8, 13, 16, 18} => Succeeds(h, s, ts, n, t, rhs)
  BY BareConfigRule, NamedConfigRule, FilledConfigRule, FullConfigRule
<1>4. t \in {7, 9, 20, 22, 23} => Succeeds(h, s, ts, n, t, rhs)
  BY LineRule, PackageRule, ListRule, OptionRule, ItemRule
<1>5. QED
  BY <1>1, <1>2, <1>3, <1>4

-----------------------------------------------------------------------------
(***************************************************************************)
(* The steps of the parser.                                                *)
(***************************************************************************)

\* root : lines | package lines
LEMMA RootRule ==
    ASSUME NEW h, NEW s, NEW ts, NEW n, NEW t \in {5, 11}, NEW rhs, Applies(h, s, ts, n, t, rhs)
    PROVE  /\ Goto(s[n - Size(t)].state, LeftSide(t)) = 3
           /\ ParsedHeap(RuleAction(At(yydefact, t), h, ts, rhs).heap)
           /\ RuleAction(At(yydefact, t), h, ts, rhs).node \in Nat
<1>1. /\ Waits(h, s) /\ Built(h, Waiters(s)) /\ Made(h)
      /\ n \in Nat /\ DOMAIN s = 1 .. n /\ t \in States /\ s[n].state = t
      /\ At(yydefact, t) # 0 /\ t # YYFINAL
      /\ Size(t) \in 1 .. n - 1
      /\ s[n - 1].state \in At(Beneath, t)
      /\ Size(t) > 1 => s[n - 2].state \in At(Beneath, s[n - 1].state)
      /\ rhs[Size(t)] = s[n].value
      /\ Size(t) > 1 => rhs[Size(t) - 1] = s[n - 1].value
  BY RuleApplies, RuleValues
<1>2. Size(t) = (IF t = 5 THEN 1 ELSE 2) /\ LeftSide(t) = 9
  BY <1>1, RuleFacts
<1>3. \A k \in 1 .. n : s[k].state = 0 => k = 1
  <2>1. \A k \in 2 .. n : s[k - 1].state \in At(Beneath, s[k].state)
    BY DEF Applies, Reducible, Path
  <2>2. At(Beneath, 0) = {}
    BY DEF At, Beneath
  <2>3. QED
    BY <1>1, <2>1, <2>2
<1>4. \A m : m \in Waiters(s) <=> \E k : HoldsNode(s, k) /\ s[k].value = m
  BY DEF Waiters, HoldsNode
<1>5. \A package, lines : ReduceRoot(h, package, lines).node \in Nat
  <2>1. TypedAst(h)
    BY <1>1 DEF Built
  <2>2. Len(AstNodeNew(h, "ANT_ROOT", AST_NODE_ROOT_NAME, NoString)) \in Nat
    <3>1. /\ Len(AstNodeNew(h, "ANT_ROOT", AST_NODE_ROOT_NAME, NoString)) = Len(h) + 1
          /\ Len(h) \in Nat
      BY <2>1, NewNodes
    <3>2. QED
      BY <3>1
  <2>3. QED
    BY <2>2 DEF ReduceRoot, Reduced, Newest
<1>6. CASE t = 5
  <2>1. s[n - 1].state = 0 /\ n - 1 = 1
    <3>1. At(Beneath, 5) = {0}
      BY DEF At, Beneath
    <3>2. QED
      BY <1>1, <1>2, <1>3, <1>6, <3>1
  <2>2. DOMAIN s = {1, 2} /\ s[1].state = 0 /\ s[2].state = 5 /\ n = 2
    BY <1>1, <1>6, <2>1
  <2> DEFINE lines == s[2].value
  <2>3. HoldsNode(s, 2) /\ \A k : HoldsNode(s, k) => k = 2
    BY <2>2 DEF HoldsNode, NodeStates
  <2>4. Waiters(s) = {lines}
    BY <1>4, <2>3
  <2>5. h[lines].kind = "ANT_SENTINEL" /\ KidsAre(h, lines, {"ANT_SECTION_TYPE"})
    <3>1. StandsFor(h, 5, lines)
      BY <1>1, <2>2, <2>3, HeldWaits
    <3>2. QED
      BY <3>1 DEF StandsFor
  <2>6. RuleAction(At(yydefact, t), h, ts, rhs) = ReduceRoot(h, NoNode, lines)
    <3>1. At(yydefact, t) = 2 /\ rhs[1] = lines
      BY <1>1, <1>2, <1>6, <2>2, RuleOf
    <3>2. QED
      BY <3>1, RuleActions
  <2>7. NoNode # lines
    BY <1>1, <2>4, HeldWaits
  <2>8. {lines} = {lines} \cup ({NoNode} \ {NoNode})
    OBVIOUS
  <2> HIDE DEF lines
  <2>9. ParsedHeap(ReduceRoot(h, NoNode, lines).heap)
    BY <1>1, <2>4, <2>5, <2>7, <2>8, RootParses
  <2>10. Goto(s[n - Size(t)].state, LeftSide(t)) = 3
    BY <1>2, <1>6, <2>2, GotoFacts
  <2>11. QED
    BY <1>5, <2>6, <2>9, <2>10
<1>7. CASE t = 11
  <2>1. s[n - 1].state = 4 /\ s[n - 2].state = 0 /\ n - 2 = 1
    <3>1. At(Beneath, 11) = {4} /\ At(Beneath, 4) = {0}
      BY DEF At, Beneath
    <3>2. QED
      BY <1>1, <1>2, <1>3, <1>7, <3>1
  <2>2. /\ DOMAIN s = {1, 2, 3} /\ n = 3
        /\ s[1].state = 0 /\ s[2].state = 4 /\ s[3].state = 11
    BY <1>1, <1>7, <2>1
  <2> DEFINE package == s[2].value
  <2> DEFINE lines == s[3].value
  <2>3. HoldsNode(s, 2) /\ HoldsNode(s, 3) /\ \A k : HoldsNode(s, k) => k \in {2, 3}
    BY <2>2 DEF HoldsNode, NodeStates
  <2>4. Waiters(s) = {package, lines}
    BY <1>4, <2>3
  <2>5. /\ h[lines].kind = "ANT_SENTINEL" /\ KidsAre(h, lines, {"ANT_SECTION_TYPE"})
        /\ h[package].kind = "ANT_PACKAGE" /\ package # lines
    <3>1. StandsFor(h, 11, lines) /\ StandsFor(h, 4, package)
      BY <1>1, <2>2, <2>3, HeldWaits
    <3>2. package # lines
      <4>1. s[2].value = s[3].value => 2 = 3
        BY <1>1, <2>3, HeldWaits
      <4>2. QED
        BY <4>1
    <3>3. QED
      BY <3>1, <3>2 DEF StandsFor
  <2>6. RuleAction(At(yydefact, t), h, ts, rhs) = ReduceRoot(h, package, lines)
    <3>1. At(yydefact, t) = 3 /\ rhs[1] = package /\ rhs[2] = lines
      BY <1>1, <1>2, <1>7, <2>2, RuleOf
    <3>2. QED
      BY <3>1, RuleActions
  <2>7. NoNode # package
    BY <1>1, <2>4, HeldWaits
  <2> HIDE DEF lines, package
  <2>8. {package, lines} = {lines} \cup ({package} \ {NoNode})
    BY <2>7
  <2>9. ParsedHeap(ReduceRoot(h, package, lines).heap)
    BY <1>1, <2>4, <2>5, <2>8, RootParses
  <2>10. Goto(s[n - Size(t)].state, LeftSide(t)) = 3
    BY <1>2, <1>7, <2>2, GotoFacts
  <2>11. QED
    BY <1>5, <2>6, <2>9, <2>10
<1>8. QED
  BY <1>6, <1>7

\* While a file is read, the nodes on the stack wait; once its root is made, the AST is
\* complete.
AstInv ==
    /\ phase = "parsing" =>
          IF Top \in {3, YYFINAL} THEN ParsedHeap(heap) ELSE Waits(heap, stack)
    /\ phase = "accepted" => ParsedHeap(heap)
    /\ \A k \in DOMAIN stack : stack[k].value \in Nat

LEMMA AstInit == Init => AstInv
<1> SUFFICES ASSUME Init PROVE AstInv
  OBVIOUS
<1>1. stack = << Item(0, 0) >> /\ heap = <<>> /\ phase = "parsing"
  BY DEF Init
<1>2. DOMAIN stack = {1} /\ stack[1].state = 0 /\ stack[1].value = 0 /\ Top = 0
  BY <1>1 DEF Item, Top, Last
<1>3. \A k : ~HoldsNode(stack, k)
  BY <1>2 DEF HoldsNode, NodeStates
<1>4. Waiters(stack) = {}
  BY <1>3 DEF HoldsNode, Waiters
<1>5. Built(heap, {}) /\ Made(heap)
  <2>1. DOMAIN heap = {} /\ Len(heap) = 0
    BY <1>1
  <2>2. TypedAst(heap)
    BY <1>1 DEF TypedAst
  <2>3. Linked(heap)
    BY <2>1 DEF Linked, DisjointChildren, ParentsAgree
  <2>4. QED
    BY <2>1, <2>2, <2>3 DEF Built, Made
<1>6. Waits(heap, stack)
  BY <1>3, <1>4, <1>5 DEF Waits
<1>7. \A k \in DOMAIN stack : stack[k].value \in Nat
  BY <1>2
<1>8. QED
  BY <1>1, <1>2, <1>6, <1>7 DEF AstInv, YYFINAL

\* A reduction meets what the lemmas about the rules assume.
LEMMA ReduceApplies ==
    ASSUME StringsInv, TextsInv, AstInv, Reduce,
           NEW rhs, \A j \in 1 .. Size(Top) : rhs[j] = stack[Len(stack) - Size(Top) + j].value
    PROVE  Applies(heap, stack, tokens, Len(stack), Top, rhs)
<1>1. /\ Len(stack) \in Nat /\ DOMAIN stack = 1 .. Len(stack) /\ Top \in States
      /\ At(yydefact, Top) # 0 /\ Top # YYFINAL
  BY ReducedStack
<1>2. phase = "parsing"
  BY DEF Reduce, Parsing
<1>3. Top # 3
  <2>1. At(yydefact, 3) = 0
    BY DEF At, yydefact
  <2>2. QED
    BY <1>1, <2>1
<1>4. Waits(heap, stack)
  BY <1>1, <1>2, <1>3 DEF AstInv
<1>5. ASSUME NEW k \in DOMAIN stack
      PROVE  /\ IsValue(stack[k].state) => tokens[stack[k].value].text \in Strings
             /\ stack[k].state = 8 => tokens[stack[k].value].text \in TypeNames
             /\ stack[k].state = 13 => tokens[stack[k].value].text \in SectionNames
  BY DEF StringsInv, TextsInv, Text
<1>6. Reducible(heap, stack, tokens)
  BY <1>4, <1>5, StringsTyped DEF Reducible
<1>7. Top = stack[Len(stack)].state
  BY DEF Top, Last
<1>8. QED
  BY <1>1, <1>6, <1>7 DEF Applies

LEMMA AstReduce ==
    ASSUME StringsInv, TextsInv, AstInv, Reduce
    PROVE  AstInv'
<1> DEFINE n == Len(stack)
<1> DEFINE left == n - Size(Top)
<1> DEFINE q == Goto(stack[left].state, LeftSide(Top))
<1>1. /\ n \in Nat /\ DOMAIN stack = 1 .. n /\ Top \in States /\ At(yydefact, Top) # 0
      /\ Top # YYFINAL /\ left \in 1 .. n
      /\ DOMAIN stack' = 1 .. left + 1 /\ Len(stack') = left + 1
      /\ \A k \in 1 .. left : stack'[k] = stack[k]
  BY ReducedStack
<1>2. PICK rhs : /\ \A j \in 1 .. Size(Top) : rhs[j] = stack[left + j].value
                 /\ LET r == RuleAction(At(yydefact, Top), heap, tokens, rhs)
                    IN  heap' = r.heap /\ stack'[left + 1] = Item(q, r.node)
  BY ReducedStack
<1> DEFINE r == RuleAction(At(yydefact, Top), heap, tokens, rhs)
<1>3. heap' = r.heap /\ stack'[left + 1].state = q /\ stack'[left + 1].value = r.node
  BY <1>2 DEF Item
<1>4. phase' = "parsing" /\ phase = "parsing"
  BY DEF Reduce, Parsing
<1>5. Applies(heap, stack, tokens, n, Top, rhs)
  BY <1>2, ReduceApplies
<1>6. Top' = q
  <2> HIDE DEF left, q, n
  <2>1. QED
    BY <1>1, <1>3 DEF Top, Last
<1>7. CASE Top \in {5, 11}
  <2>1. q = 3 /\ ParsedHeap(r.heap) /\ r.node \in Nat
    BY ZenonT(30), <1>5, <1>7, RootRule
  <2> HIDE DEF r, q, left, n
  <2>2. ParsedHeap(heap')
    BY <1>3, <2>1
  <2>3. \A k \in DOMAIN stack' : stack'[k].value \in Nat
    <3>1. \A k \in 1 .. left : stack'[k].value \in Nat
      BY <1>1 DEF AstInv
    <3>2. stack'[left + 1].value \in Nat
      BY <1>3, <2>1
    <3>3. \A k \in DOMAIN stack' : k \in 1 .. left \/ k = left + 1
      BY <1>1
    <3>4. QED
      BY <3>1, <3>2, <3>3
  <2>4. QED
    BY <1>4, <1>6, <2>1, <2>2, <2>3 DEF AstInv
<1>8. CASE Top \notin {5, 11}
  <2>1. Waits(heap, stack)
    BY <1>5, RuleApplies
  <2>2. Replaceable(heap, stack, left, q, r)
    BY <1>5, <1>8, RuleSucceeds DEF Succeeds
  <2> HIDE DEF r, q, left, n
  <2>3. q \in NodeStates /\ StandsFor(r.heap, q, r.node)
    BY <2>2 DEF Replaceable
  <2>4. PICK P, kind : /\ Yields(heap, Waiters(stack), P, r, kind)
                       /\ Pops(stack, P, left)
    BY <2>2 DEF Replaceable
  <2>5. Replaces(stack, stack', left, q, r.node)
    BY <1>1, <1>3 DEF Replaces
  <2>6. Waits(r.heap, stack')
    BY <2>1, <2>3, <2>4, <2>5, WaitsReduce
  <2>7. r.node \in Nat
    <3>1. r.node \in DOMAIN r.heap /\ TypedAst(r.heap)
      BY <2>4 DEF Yields, Built
    <3>2. DOMAIN r.heap = 1 .. Len(r.heap)
      BY <3>1, LenProperties DEF TypedAst
    <3>3. QED
      BY <3>1, <3>2
  <2>8. \A k \in DOMAIN stack' : stack'[k].value \in Nat
    <3>1. \A k \in 1 .. left : stack'[k].value \in Nat
      BY <1>1 DEF AstInv
    <3>2. stack'[left + 1].value \in Nat
      BY <1>3, <2>7
    <3>3. \A k \in DOMAIN stack' : k \in 1 .. left \/ k = left + 1
      BY <1>1
    <3>4. QED
      BY <3>1, <3>2, <3>3
  <2>9. Top' \notin {3, YYFINAL}
    BY <1>6, <2>3 DEF NodeStates, YYFINAL
  <2>10. Waits(heap', stack')
    BY <1>3, <2>6
  <2>11. QED
    BY <1>4, <2>8, <2>9, <2>10 DEF AstInv
<1>9. QED
  BY <1>7, <1>8

\* No state that a token leads to holds a node, or is that of the whole file.
LEMMA ShiftedIsNoNode ==
    ASSUME NEW q \in States, At(yystos, q) < 8
    PROVE  q \notin NodeStates /\ q # 3
<1>1. /\ At(yystos, 3) = 9 /\ At(yystos, 4) = 10 /\ At(yystos, 5) = 11 /\ At(yystos, 6) = 12
      /\ At(yystos, 7) = 13 /\ At(yystos, 11) = 11 /\ At(yystos, 12) = 12
      /\ At(yystos, 16) = 14 /\ At(yystos, 17) = 15 /\ At(yystos, 18) = 14
      /\ At(yystos, 21) = 15
  BY DEF At, yystos
<1>2. QED
  BY <1>1 DEF NodeStates

\* The end of the file is shifted on top of the whole file, and nothing else is.
LEMMA BeneathTheEnd ==
    ASSUME NEW q \in States, NEW p \in At(Beneath, q)
    PROVE  p = 3 <=> q = YYFINAL
<1>1. At(Beneath, 10) = {3}
  BY DEF At, Beneath
<1>2. \A r \in States : r # 10 => 3 \notin At(Beneath, r)
  BY DEF At, Beneath, States, YYNSTATES
<1>3. QED
  BY <1>1, <1>2 DEF YYFINAL

LEMMA AstShift ==
    ASSUME StringsInv, TextsInv, AstInv, Shift
    PROVE  AstInv'
<1> DEFINE q == ShiftTo(Top, YYTRANSLATE[yychar])
<1> DEFINE n == Len(stack)
<1>1. UNCHANGED <<heap, phase>> /\ phase = "parsing" /\ Top # YYFINAL
  BY DEF Shift, Parsing
<1>2. /\ DOMAIN stack = 1 .. n /\ DOMAIN stack' = 1 .. n + 1 /\ n \in Nat /\ Len(stack') = n + 1
      /\ \A k \in 1 .. n : stack'[k] = stack[k]
      /\ stack'[n + 1] = Item(q, yylval)
      /\ yychar \in TokenKinds /\ q \in States /\ At(yystos, q) = YYTRANSLATE[yychar]
  BY ShiftedStack
<1>3. Top \in At(Beneath, q)
  BY ShiftFacts DEF StringsInv
<1> HIDE DEF q, n
<1>4. stack'[n + 1].state = q /\ stack'[n + 1].value = yylval /\ Top' = q
  BY <1>2 DEF Item, Top, Last
<1>5. q \notin NodeStates /\ q # 3
  <2>1. At(yystos, q) \in 0 .. YYNTOKENS - 1
    BY <1>2, TranslateFacts
  <2>2. At(yystos, q) < 8
    BY <1>2, <2>1 DEF YYNTOKENS
  <2>3. QED
    BY <1>2, <2>2, ShiftedIsNoNode
<1>6. Top = 3 <=> q = YYFINAL
  BY <1>2, <1>3, BeneathTheEnd
<1>7. \A k \in DOMAIN stack' : stack'[k].value \in Nat
  <2>1. yylval \in Nat
    <3>1. Len(tokens) \in Nat
      BY StringsTyped
    <3>2. QED
      BY <3>1 DEF TextsInv
  <2>2. \A k \in 1 .. n : stack'[k].value \in Nat
    BY <1>2 DEF AstInv
  <2>3. \A k \in DOMAIN stack' : k \in 1 .. n \/ k = n + 1
    BY <1>2
  <2>4. QED
    BY <1>4, <2>1, <2>2, <2>3
<1>8. CASE Top = 3
  BY <1>1, <1>4, <1>6, <1>7, <1>8 DEF AstInv
<1>9. CASE Top # 3
  <2>1. Waits(heap, stack)
    BY <1>1, <1>9 DEF AstInv
  <2>2. Waits(heap, stack')
    BY <1>2, <1>4, <1>5, <2>1, WaitsShift
  <2>3. QED
    BY <1>1, <1>4, <1>5, <1>6, <1>7, <1>9, <2>2 DEF AstInv
<1>10. QED
  BY <1>8, <1>9

LEMMA AstNext ==
    ASSUME StringsInv, TextsInv, AstInv, [Next]_parserVars
    PROVE  AstInv'
<1>1. CASE Yylex
  <2>1. UNCHANGED <<stack, heap, phase>>
    BY <1>1 DEF Yylex
  <2>2. QED
    BY <2>1 DEF AstInv, Top
<1>2. CASE Shift
  BY <1>2, AstShift
<1>3. CASE Reduce
  BY <1>3, AstReduce
<1>4. CASE SyntaxError
  BY <1>4 DEF SyntaxError, AstInv
<1>5. CASE Pop
  <2>1. phase' = "erring" /\ \A k \in DOMAIN stack' : k \in DOMAIN stack /\ stack'[k] = stack[k]
    <3>1. phase' = "erring"
      BY <1>5 DEF Pop
    <3>2. QED
      BY <1>5, <3>1, PoppedStack
  <2>2. QED
    BY <2>1 DEF AstInv
<1>6. CASE Abort
  BY <1>6 DEF Abort, AstInv
<1>7. CASE Accept
  <2>1. stack' = << stack[1] >> /\ 1 \in DOMAIN stack /\ heap' = heap /\ phase' = "accepted"
    BY <1>7, AcceptFacts, StringsTyped DEF Accept
  <2>2. DOMAIN stack' = {1} /\ stack'[1] = stack[1]
    BY <2>1
  <2>3. ParsedHeap(heap)
    BY <1>7 DEF Accept, AstInv
  <2>4. QED
    BY <2>1, <2>2, <2>3 DEF AstInv
<1>8. CASE Returned \/ UNCHANGED parserVars
  <2>1. UNCHANGED <<stack, heap, phase>>
    BY <1>8 DEF Returned, parserVars
  <2>2. QED
    BY <2>1 DEF AstInv, Top
<1>9. QED
  BY <1>1, <1>2, <1>3, <1>4, <1>5, <1>6, <1>7, <1>8 DEF Next, ParserNext

LEMMA ParserInvariant == ParserSpec => [](StringsInv /\ TextsInv /\ AstInv)
<1>1. Init => StringsInv /\ TextsInv /\ AstInv
  BY StringsInit, TextsInit, AstInit
<1>2. StringsInv /\ TextsInv /\ AstInv /\ [Next]_parserVars => (StringsInv /\ TextsInv /\ AstInv)'
  BY StringsNext, TextsNext, AstNext
<1>3. QED
  BY <1>1, <1>2, PTL DEF ParserSpec

\* The AST of every file of any length that yyparse accepts is a well-formed tree: whatever
\* the actions of the grammar moved and merged on the way, no node has two parents, the
\* sections of a type and the lines of a name are merged, no section is left without a
\* name, and uci2_config_get finds the node of the sections.
THEOREM ParsedAstIsWellFormed ==
    ParserSpec => [](Parsed => WellFormed(heap) /\ Orderly(heap) /\ ConfigNode(heap) # NoNode)
<1>1. AstInv => (Parsed => WellFormed(heap) /\ Orderly(heap) /\ ConfigNode(heap) # NoNode)
  BY DEF AstInv, Parsed, ParsedHeap
<1>2. QED
  BY <1>1, ParserInvariant, PTL

\* Where no section of a file has a name that the parser gives to unnamed sections, the
\* counters of the types are ahead of these names, too.
THEOREM ParsedStaysWellFormed ==
    ASSUME SectionNames \cap UnnamedNames = {}
    PROVE  ParserSpec => []ParsedIsWellFormed
<1>1. AstInv => ParsedIsWellFormed
  BY DEF AstInv, Parsed, ParsedHeap, ParsedIsWellFormed
<1>2. QED
  BY <1>1, ParserInvariant, PTL

\* The registers of the parser, the values on its stack included, stay what they are
\* declared to be.
THEOREM ParserTypeCorrect == ParserSpec => []ParserTypeOK
<1>1. ASSUME StringsInv, TextsInv, AstInv, phase \in Phases PROVE ParserTypeOK
  <2>1. tokens \in Seq([kind : TokenKinds, text : Strings \cup {NoString}])
    BY <1>1 DEF TextsInv
  <2>2. stack \in Seq([state : States, value : Nat]) /\ stack # <<>>
    <3>1. PICK V : stack \in Seq(Items(V))
      BY <1>1, StringsTyped
    <3>2. Len(stack) \in Nat /\ Len(stack) >= 1 /\ DOMAIN stack = 1 .. Len(stack)
      BY <1>1, StringsTyped
    <3>3. \A k \in 1 .. Len(stack) : stack[k] \in [state : States, value : Nat]
      <4>1. ASSUME NEW k \in 1 .. Len(stack) PROVE stack[k] \in [state : States, value : Nat]
        <5>1. stack[k] \in Items(V)
          BY <3>1, <3>2, ElementOfSeq
        <5>2. stack[k].value \in Nat
          BY <1>1, <3>2 DEF AstInv
        <5>3. stack[k] = [state |-> stack[k].state, value |-> stack[k].value]
              /\ stack[k].state \in States
          BY <5>1 DEF Items
        <5>4. QED
          BY <5>2, <5>3
      <4>2. QED
        BY <4>1
    <3>4. stack = [k \in 1 .. Len(stack) |-> stack[k]]
      BY <3>1, LenProperties
    <3>5. stack \in Seq([state : States, value : Nat])
      <4> DEFINE I == [state : States, value : Nat]
      <4>1. \A k \in 1 .. Len(stack) : stack[k] \in I
        BY <3>3
      <4> HIDE DEF I
      <4>2. stack \in Seq(I)
        BY <3>2, <3>4, <4>1, SeqDef
      <4>3. QED
        BY <4>2 DEF I
    <3>6. QED
      BY <3>2, <3>5
  <2>3. kept \in Seq(DOMAIN tokens) /\ freed \in Seq(DOMAIN tokens)
    <3>1. Seq(Words) \subseteq Seq(DOMAIN tokens)
      BY SeqMonotonic DEF Words
    <3>2. QED
      BY <1>1, <3>1 DEF StringsInv
  <2>4. yychar \in Symbols /\ yylval \in 0 .. Len(tokens)
    BY <1>1 DEF StringsInv, StackInv, TextsInv
  <2>5. QED
    BY <1>1, <2>1, <2>2, <2>3, <2>4 DEF ParserTypeOK
<1>2. Init => phase \in Phases
  BY DEF Init, Phases
<1>3. phase \in Phases /\ [Next]_parserVars => (phase \in Phases)'
  BY DEF Next, ParserNext, Yylex, Shift, Reduce, SyntaxError, Pop, Abort, Accept, Returned,
         parserVars, Phases
<1>4. QED
  BY <1>1, <1>2, <1>3, ParserInvariant, PTL DEF ParserSpec
=============================================================================
