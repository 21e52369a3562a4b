-------------------------- MODULE UciReaderProofs --------------------------
(***************************************************************************)
(* yyparse, whose tables and semantic actions are those of src/src/parser.c,*)
(* reads every file as UciReader says: theorem ParserImplementsReader.      *)
(***************************************************************************)
EXTENDS UciParserProofs

-----------------------------------------------------------------------------
(***************************************************************************)
(* The grammar.  The state on top of the stack says where in a line of the *)
(* file the parser is, and the lookahead that has not been shifted, which  *)
(* tokens did not come.                                                    *)
(***************************************************************************)

\* The keyword a token belongs to is the last before it.
LEMMA KeywordIs ==
    ASSUME NEW ts, NEW i \in Nat, NEW k \in 1 .. i - 1, ts[k].kind \in Keywords,
           \A j \in k + 1 .. i - 1 : ts[j].kind \notin Keywords
    PROVE  KeywordOf(ts, i) = k
<1> DEFINE before == {j \in 1 .. i - 1 : ts[j].kind \in Keywords}
<1>1. k \in before /\ before # {} /\ before \subseteq 1 .. i /\ \A j \in before : j \in 1 .. i - 1 /\ ~(j > k)
  OBVIOUS
<1>2. KeywordOf(ts, i) = Max(before)
  BY <1>1 DEF KeywordOf
<1> HIDE DEF before
<1>3. Max(before) \in before /\ \A j \in before : j <= Max(before)
  BY <1>1, LeastIsIn
<1>4. k <= Max(before) /\ ~(Max(before) > k) /\ Max(before) \in 1 .. i - 1
  BY <1>1, <1>3
<1>5. QED
  BY <1>2, <1>4

LEMMA KeywordFacts ==
    ASSUME NEW ts, NEW i \in Nat
    PROVE  /\ KeywordOf(ts, i) # 0 => /\ KeywordOf(ts, i) \in 1 .. i - 1
                                     /\ ts[KeywordOf(ts, i)].kind \in Keywords
                                     /\ \A j \in KeywordOf(ts, i) + 1 .. i - 1 : ts[j].kind \notin Keywords
           /\ KeywordOf(ts, i) = 0 => \A j \in 1 .. i - 1 : ts[j].kind \notin Keywords
<1> DEFINE before == {j \in 1 .. i - 1 : ts[j].kind \in Keywords}
<1>1. before \subseteq 1 .. i
  OBVIOUS
<1>2. KeywordOf(ts, i) = IF before = {} THEN 0 ELSE Max(before)
  BY DEF KeywordOf
<1>3. before # {} => Max(before) \in before /\ \A j \in before : j <= Max(before)
  <2> HIDE DEF before
  <2>1. QED
    BY <1>1, LeastIsIn
<1>4. CASE before = {}
  BY <1>2, <1>4
<1>5. CASE before # {}
  <2> DEFINE k == Max(before)
  <2>1. KeywordOf(ts, i) = k /\ k \in 1 .. i - 1 /\ ts[k].kind \in Keywords /\ \A j \in before : j <= k
    BY <1>2, <1>3, <1>5
  <2> HIDE DEF k
  <2>2. k # 0
    BY <2>1
  <2>3. \A j \in k + 1 .. i - 1 : j \in 1 .. i - 1 /\ ~(j <= k)
    BY <2>1
  <2>4. \A j \in k + 1 .. i - 1 : ts[j].kind \notin Keywords
    BY <2>1, <2>3
  <2>5. QED
    BY <2>1, <2>2, <2>4
<1>6. QED
  BY <1>4, <1>5

\* Whether a token fits depends on it and on those before it.
LEMMA FitsLocal ==
    ASSUME NEW ts, NEW us, NEW i \in Nat, \A j \in 1 .. i : us[j] = ts[j], i # 0
    PROVE  /\ KeywordOf(us, i) = KeywordOf(ts, i)
           /\ Fits(us, i) <=> Fits(ts, i)
<1>1. {j \in 1 .. i - 1 : us[j].kind \in Keywords} = {j \in 1 .. i - 1 : ts[j].kind \in Keywords}
  OBVIOUS
<1>2. KeywordOf(us, i) = KeywordOf(ts, i)
  BY <1>1 DEF KeywordOf
<1> DEFINE k == KeywordOf(ts, i)
<1>3. k # 0 => k \in 1 .. i
  BY KeywordFacts
<1>4. us[i] = ts[i] /\ (k # 0 => us[k] = ts[k])
  BY <1>3
<1> HIDE DEF k
<1>5. QED
  BY <1>2, <1>4 DEF Fits, Complete, k

\* The same operators, as the abstract parser has them.
LEMMA ReaderGrammar ==
    ASSUME NEW ts
    PROVE  /\ Reader!Viable(ts) <=> Viable(ts)
           /\ Reader!Ended(ts) <=> Ended(ts)
           /\ Reader!Grammatical(ts) <=> Grammatical(ts)
<1>1. \A i : Reader!KeywordOf(ts, i) = KeywordOf(ts, i)
  BY DEF Reader!KeywordOf, KeywordOf, Reader!Keywords, Keywords, Reader!Max, Max
<1>2. \A i : Reader!Fits(ts, i) <=> Fits(ts, i)
  BY <1>1 DEF Reader!Fits, Fits, Reader!Complete, Complete, Reader!MinWords, MinWords, Reader!MaxWords, MaxWords
<1>3. Reader!Viable(ts) <=> Viable(ts)
  BY <1>2 DEF Reader!Viable, Viable
<1>4. Reader!Ended(ts) <=> Ended(ts)
  BY DEF Reader!Ended, Ended, Reader!Last, Last
<1>5. QED
  BY <1>3, <1>4 DEF Reader!Grammatical, Grammatical

\* After w words the first n tokens end, and before them a keyword of the given kind.
Since(ts, n, kind, w) ==
    /\ w + 1 <= n /\ ts[n - w].kind = kind
    /\ \A j \in n - w + 1 .. n : ts[j].kind = "VALUE"

\* A config, an option or a list line that is complete ends there, and the lookahead is
\* no word that it would take.
LineEnds(ts, n, lookahead) ==
    \E kind \in {"CONFIG", "OPTION", "LIST"} : \E w \in MinWords(kind) .. 2 :
        /\ Since(ts, n, kind, w)
        /\ w = 2 \/ lookahead \notin {"YYEMPTY", "VALUE"}

\* The states of options, and those of sections.
LineStates    == {16, 17, 18, 21}
SectionStates == {5, 6, 7, 11, 12}

\* What has been read in state q.
Reads(q, ts, n, lookahead) ==
    /\ q = 0 => n = 0
    /\ q = 1 => Since(ts, n, "CONFIG", 0)
    /\ q = 2 => n = 1 /\ Since(ts, n, "PACKAGE", 0)
    /\ q \in {4, 9} => n = 2 /\ Since(ts, n, "PACKAGE", 1)
    /\ q = 8 => Since(ts, n, "CONFIG", 1)
    /\ q = 13 => Since(ts, n, "CONFIG", 2)
    /\ q = 14 => Since(ts, n, "OPTION", 0)
    /\ q = 19 => Since(ts, n, "OPTION", 1)
    /\ q = 22 => Since(ts, n, "OPTION", 2)
    /\ q = 15 => Since(ts, n, "LIST", 0)
    /\ q = 20 => Since(ts, n, "LIST", 1)
    /\ q = 23 => Since(ts, n, "LIST", 2)
    /\ q \in LineStates \cup SectionStates \cup {3} => LineEnds(ts, n, lookahead)
    /\ q \in SectionStates \cup {3} => lookahead \notin {"YYEMPTY", "OPTION", "LIST"}
    /\ q = 3 => lookahead # "CONFIG"
    /\ q = YYFINAL => n >= 1 /\ ts[n].kind = "EOF"

\* The next token after a keyword and w words.
LEMMA FitsAfter ==
    ASSUME NEW ts, NEW n \in Nat, NEW kind \in Keywords, NEW w \in Nat, Since(ts, n, kind, w),
           NEW c, c = ts[n + 1].kind
    PROVE  Fits(ts, n + 1) <=>
               \/ c = "CONFIG" /\ w >= MinWords(kind)
               \/ c \in {"OPTION", "LIST", "EOF"} /\ w >= MinWords(kind) /\ kind # "PACKAGE"
               \/ c = "VALUE" /\ w < MaxWords(kind)
<1> DEFINE k == n - w
<1>1. k \in 1 .. n /\ k # 0 /\ n + 1 - k = w + 1 /\ n + 1 \in Nat /\ n + 1 # 1
  BY DEF Since
<1>2. KeywordOf(ts, n + 1) = k
  <2>1. ts[k].kind \in Keywords /\ k \in 1 .. (n + 1) - 1
    BY <1>1 DEF Since
  <2>2. \A j \in k + 1 .. (n + 1) - 1 : ts[j].kind = "VALUE"
    BY <1>1 DEF Since
  <2>3. "VALUE" \notin Keywords
    BY DEF Keywords
  <2> HIDE DEF k
  <2>4. QED
    BY <1>1, <2>1, <2>2, <2>3, KeywordIs
<1>3. ts[k].kind = kind
  BY DEF Since
<1>4. MinWords(kind) \in 1 .. 2 /\ MaxWords(kind) \in 1 .. 2
  BY DEF MinWords, MaxWords
<1> DEFINE least == MinWords(kind)
<1> DEFINE most == MaxWords(kind)
<1>5. Complete(ts, k, n + 1) <=> w >= least
  <2>1. Complete(ts, k, n + 1) <=> n + 1 - k > least
    BY <1>1, <1>3 DEF Complete
  <2> HIDE DEF k, least
  <2>2. QED
    BY <1>1, <1>4, <2>1 DEF least
<1>6. n + 1 - k <= most <=> w < most
  <2> HIDE DEF k, most
  <2>1. QED
    BY <1>1, <1>4 DEF most
<1> HIDE DEF k, least, most
<1>7. QED
  BY <1>1, <1>2, <1>3, <1>5, <1>6 DEF Fits, least, most

\* The first token of a file.
LEMMA FitsFirst ==
    ASSUME NEW ts
    PROVE  Fits(ts, 1) <=> ts[1].kind \in {"PACKAGE", "CONFIG"}
<1>1. KeywordOf(ts, 1) = 0
  <2>1. 1 \in Nat /\ 1 .. 1 - 1 = {}
    OBVIOUS
  <2>2. QED
    BY <2>1 DEF KeywordOf
<1>2. QED
  BY <1>1 DEF Fits, Complete

\* One more token.
LEMMA SinceNext ==
    ASSUME NEW ts, NEW n \in Nat
    PROVE  /\ \A kind \in Keywords : ts[n + 1].kind = kind => Since(ts, n + 1, kind, 0)
           /\ \A kind, w : w \in Nat /\ Since(ts, n, kind, w) /\ ts[n + 1].kind = "VALUE"
                  => Since(ts, n + 1, kind, w + 1)
<1>1. ASSUME NEW kind \in Keywords, ts[n + 1].kind = kind PROVE Since(ts, n + 1, kind, 0)
  <2>1. n + 1 - 0 = n + 1 /\ 0 + 1 <= n + 1 /\ \A j \in n + 1 - 0 + 1 .. n + 1 : FALSE
    OBVIOUS
  <2>2. QED
    BY <1>1, <2>1 DEF Since
<1>2. ASSUME NEW kind, NEW w \in Nat, Since(ts, n, kind, w), ts[n + 1].kind = "VALUE"
      PROVE  Since(ts, n + 1, kind, w + 1)
  <2>1. n + 1 - (w + 1) = n - w /\ w + 1 + 1 <= n + 1
    BY <1>2 DEF Since
  <2>2. ASSUME NEW j \in n + 1 - (w + 1) + 1 .. n + 1 PROVE ts[j].kind = "VALUE"
    <3>1. j \in n - w + 1 .. n \/ j = n + 1
      OBVIOUS
    <3>2. QED
      BY <1>2, <3>1 DEF Since
  <2>3. QED
    BY <1>2, <2>1, <2>2 DEF Since
<1>3. QED
  BY <1>1, <1>2

\* The tokens that have been shifted: all but the lookahead.
Taken == IF yychar = "YYEMPTY" THEN Len(tokens) ELSE Len(tokens) - 1

\* The tokens that each state shifts.
Takes == << {"PACKAGE", "CONFIG"}, {"VALUE"}, {"VALUE"}, {"EOF"}, {"CONFIG"}, {"CONFIG"}, {}, {},
            {"VALUE", "OPTION", "LIST"}, {}, {}, {"CONFIG"}, {}, {"OPTION", "LIST"}, {"VALUE"},
            {"VALUE"}, {"OPTION", "LIST"}, {}, {"OPTION", "LIST"}, {"VALUE"}, {"VALUE"}, {}, {}, {} >>

\* What has been shifted fits, the state on top tells how it ends, and an error is one.
GrammarInv ==
    /\ phase = "parsing" =>
       /\ Reads(Top, tokens, Taken, yychar)
       /\ \A i \in 1 .. Taken : Fits(tokens, i) /\ (tokens[i].kind = "EOF" => Top = YYFINAL /\ i = Taken)
       /\ Top = YYFINAL => yychar = "YYEMPTY"
    /\ phase \in {"erring", "aborted"} => ~Viable(tokens)
    /\ phase = "accepted" => Grammatical(tokens)

\* A token that is not shifted is none of those its state shifts.
LEMMA NotShifted ==
    ASSUME NEW p \in States, NEW c \in TokenKinds, ShiftTo(p, YYTRANSLATE[c]) = 0
    PROVE  c \notin At(Takes, p)
<1>1. /\ ShiftTo(0, 4) # 0 /\ ShiftTo(0, 7) # 0 /\ ShiftTo(1, 3) # 0 /\ ShiftTo(2, 3) # 0
      /\ ShiftTo(3, 0) # 0 /\ ShiftTo(4, 4) # 0 /\ ShiftTo(5, 4) # 0 /\ ShiftTo(11, 4) # 0
      /\ ShiftTo(8, 3) # 0 /\ ShiftTo(8, 5) # 0 /\ ShiftTo(8, 6) # 0
      /\ ShiftTo(13, 5) # 0 /\ ShiftTo(13, 6) # 0 /\ ShiftTo(14, 3) # 0 /\ ShiftTo(15, 3) # 0
      /\ ShiftTo(16, 5) # 0 /\ ShiftTo(16, 6) # 0 /\ ShiftTo(18, 5) # 0 /\ ShiftTo(18, 6) # 0
      /\ ShiftTo(19, 3) # 0 /\ ShiftTo(20, 3) # 0
  BY DEF ShiftTo, IsDefault, Entry, YYLAST, YYPACT_NINF, At, yypact, yycheck, yytable
<1>2. /\ YYTRANSLATE["EOF"] = 0 /\ YYTRANSLATE["VALUE"] = 3 /\ YYTRANSLATE["CONFIG"] = 4
      /\ YYTRANSLATE["OPTION"] = 5 /\ YYTRANSLATE["LIST"] = 6 /\ YYTRANSLATE["PACKAGE"] = 7
  BY DEF YYTRANSLATE
<1> HIDE DEF At
<1>3. /\ At(Takes, 0) = {"PACKAGE", "CONFIG"} /\ At(Takes, 1) = {"VALUE"} /\ At(Takes, 2) = {"VALUE"}
      /\ At(Takes, 3) = {"EOF"} /\ At(Takes, 4) = {"CONFIG"} /\ At(Takes, 5) = {"CONFIG"}
      /\ At(Takes, 6) = {} /\ At(Takes, 7) = {} /\ At(Takes, 8) = {"VALUE", "OPTION", "LIST"}
      /\ At(Takes, 9) = {} /\ At(Takes, 10) = {} /\ At(Takes, 11) = {"CONFIG"}
  BY DEF At, Takes
<1>4. /\ At(Takes, 12) = {} /\ At(Takes, 13) = {"OPTION", "LIST"} /\ At(Takes, 14) = {"VALUE"}
      /\ At(Takes, 15) = {"VALUE"} /\ At(Takes, 16) = {"OPTION", "LIST"} /\ At(Takes, 17) = {}
      /\ At(Takes, 18) = {"OPTION", "LIST"} /\ At(Takes, 19) = {"VALUE"} /\ At(Takes, 20) = {"VALUE"}
      /\ At(Takes, 21) = {} /\ At(Takes, 22) = {} /\ At(Takes, 23) = {}
  BY DEF At, Takes
<1>5. p \in 0 .. 23
  BY DEF States, YYNSTATES
<1>6. p \in {0, 1, 2, 3, 4, 5, 6, 7, 8, 9, 10, 11} => c \notin At(Takes, p)
  BY <1>1, <1>2, <1>3
<1>7. p \in {12, 13, 14, 15, 16, 17, 18, 19, 20, 21, 22, 23} => c \notin At(Takes, p)
  BY <1>1, <1>2, <1>4
<1>8. QED
  BY <1>5, <1>6, <1>7

\* The states that no symbol but one leads to.
LEMMA StatesOf ==
    ASSUME NEW q \in States
    PROVE  /\ At(yystos, q) = 0 => q \in {0, 10}
           /\ At(yystos, q) # 2
           /\ At(yystos, q) = 3 => q \in {8, 9, 13, 19, 20, 22, 23}
           /\ At(yystos, q) = 4 => q = 1
           /\ At(yystos, q) = 5 => q = 14
           /\ At(yystos, q) = 6 => q = 15
           /\ At(yystos, q) = 7 => q = 2
           /\ At(yystos, q) = 9 => q = 3
           /\ At(yystos, q) = 10 => q = 4
           /\ At(yystos, q) = 11 => q \in {5, 11}
           /\ At(yystos, q) = 12 => q \in {6, 12}
           /\ At(yystos, q) = 13 => q = 7
           /\ At(yystos, q) = 14 => q \in {16, 18}
           /\ At(yystos, q) = 15 => q \in {17, 21}
BY DEF States, YYNSTATES, At, yystos

\* What a state that holds no node may lie on.
LEMMA Beneaths ==
    /\ At(Beneath, 0) = {} /\ At(Beneath, 1) = {0, 4, 5, 11} /\ At(Beneath, 2) = {0}
    /\ At(Beneath, 8) = {1} /\ At(Beneath, 9) = {2} /\ At(Beneath, 10) = {3} /\ At(Beneath, 13) = {8}
    /\ At(Beneath, 14) = {8, 13, 16, 18} /\ At(Beneath, 15) = {8, 13, 16, 18}
    /\ At(Beneath, 19) = {14} /\ At(Beneath, 20) = {15} /\ At(Beneath, 22) = {19} /\ At(Beneath, 23) = {20}
BY DEF At, Beneath

\* A state that does not know what to do without a lookahead has one.
LEMMA NeedsLookahead ==
    ASSUME NEW p \in {0, 1, 2, 3, 4, 5, 8, 11, 13, 14, 15, 16, 18, 19, 20}
    PROVE  ~IsDefault(p)
BY DEF IsDefault, At, yypact, YYPACT_NINF

\* The states that cannot reduce.
LEMMA NoDefaults ==
    ASSUME NEW p \in States, At(yydefact, p) = 0
    PROVE  p \in {0, 1, 2, 3, 4, 14, 15, 19}
BY DEF States, YYNSTATES, At, yydefact

\* A line that is complete may be followed by another, and by the end of the file.
LEMMA FitsAfterLine ==
    ASSUME NEW ts, NEW n \in Nat, NEW c, c = ts[n + 1].kind, LineEnds(ts, n, c)
    PROVE  Fits(ts, n + 1) <=> c \in {"CONFIG", "OPTION", "LIST", "EOF"}
<1>1. PICK kind \in {"CONFIG", "OPTION", "LIST"} : \E w \in MinWords(kind) .. 2 :
         Since(ts, n, kind, w) /\ (w = 2 \/ c \notin {"YYEMPTY", "VALUE"})
  BY DEF LineEnds
<1>6. PICK w \in MinWords(kind) .. 2 :
         Since(ts, n, kind, w) /\ (w = 2 \/ c \notin {"YYEMPTY", "VALUE"})
  BY <1>1
<1>2. MinWords(kind) \in 1 .. 2 /\ MaxWords(kind) = 2 /\ kind \in Keywords /\ kind # "PACKAGE"
  BY DEF MinWords, MaxWords, Keywords
<1>3. w \in Nat /\ w >= MinWords(kind) /\ (w < MaxWords(kind) => w # 2)
  BY <1>2, <1>6
<1>4. Fits(ts, n + 1) <=>
         \/ c = "CONFIG" /\ w >= MinWords(kind)
         \/ c \in {"OPTION", "LIST", "EOF"} /\ w >= MinWords(kind) /\ kind # "PACKAGE"
         \/ c = "VALUE" /\ w < MaxWords(kind)
  BY <1>2, <1>3, <1>6, FitsAfter
<1>5. QED
  BY <1>2, <1>3, <1>4, <1>6

\* A keyword with too few words is followed by words only.
LEMMA FitsAfterKeyword ==
    ASSUME NEW ts, NEW n \in Nat, NEW kind \in Keywords, NEW w \in Nat, Since(ts, n, kind, w),
           w < MinWords(kind), NEW c, c = ts[n + 1].kind
    PROVE  Fits(ts, n + 1) <=> c = "VALUE"
<1>1. MinWords(kind) \in Nat /\ MaxWords(kind) \in Nat /\ MinWords(kind) <= MaxWords(kind)
  BY DEF MinWords, MaxWords
<1>2. ~(w >= MinWords(kind)) /\ w < MaxWords(kind)
  BY <1>1
<1>3. QED
  BY <1>2, FitsAfter

\* After the package line comes a section.
LEMMA FitsAfterPackage ==
    ASSUME NEW ts, NEW n \in Nat, Since(ts, n, "PACKAGE", 1), NEW c, c = ts[n + 1].kind
    PROVE  Fits(ts, n + 1) <=> c = "CONFIG"
<1>1. MinWords("PACKAGE") = 1 /\ MaxWords("PACKAGE") = 1 /\ "PACKAGE" \in Keywords /\ 1 \in Nat
  BY DEF MinWords, MaxWords, Keywords
<1>2. QED
  BY <1>1, FitsAfter

\* A shift: the token fits.
LEMMA ShiftFits ==
    ASSUME NEW ts, NEW n \in Nat, NEW p, NEW q \in States, p \in At(Beneath, q),
           NEW c \in TokenKinds, At(yystos, q) = YYTRANSLATE[c], c = ts[n + 1].kind,
           Reads(p, ts, n, c)
    PROVE  Fits(ts, n + 1) /\ Reads(q, ts, n + 1, "YYEMPTY") /\ (c = "EOF" => q = YYFINAL)
<1>1. /\ YYTRANSLATE["EOF"] = 0 /\ YYTRANSLATE["VALUE"] = 3 /\ YYTRANSLATE["CONFIG"] = 4
      /\ YYTRANSLATE["OPTION"] = 5 /\ YYTRANSLATE["LIST"] = 6 /\ YYTRANSLATE["PACKAGE"] = 7
      /\ YYTRANSLATE["UNDEF"] = 2
  BY DEF YYTRANSLATE
<1>2. /\ MinWords("CONFIG") = 1 /\ MinWords("OPTION") = 2 /\ MinWords("LIST") = 1 /\ MinWords("PACKAGE") = 1
      /\ MaxWords("CONFIG") = 2 /\ MaxWords("OPTION") = 2 /\ MaxWords("LIST") = 2 /\ MaxWords("PACKAGE") = 1
      /\ {"CONFIG", "OPTION", "LIST", "PACKAGE"} \subseteq Keywords
  BY DEF MinWords, MaxWords, Keywords
<1>3. /\ \A kind \in Keywords : c = kind => Since(ts, n + 1, kind, 0)
      /\ \A kind, w : w \in Nat /\ Since(ts, n, kind, w) /\ c = "VALUE" => Since(ts, n + 1, kind, w + 1)
  BY SinceNext
<1>4. /\ c = "EOF" => q \in {0, 10} /\ c # "UNDEF"
      /\ (c = "CONFIG" => q = 1) /\ (c = "OPTION" => q = 14) /\ (c = "LIST" => q = 15) /\ (c = "PACKAGE" => q = 2)
      /\ c = "VALUE" => q \in {8, 9, 13, 19, 20, 22, 23}
  <2>1. QED
    BY <1>1, StatesOf
<1>5. CASE c = "CONFIG"
  <2>1. q = 1 /\ p \in {0, 4, 5, 11}
    BY <1>4, <1>5, StatesOf, <1>1, Beneaths
  <2>2. Reads(1, ts, n + 1, "YYEMPTY")
    <3>1. Since(ts, n + 1, "CONFIG", 0)
      BY <1>2, <1>3, <1>5
    <3>2. QED
      BY <3>1 DEF Reads, LineStates, SectionStates, YYFINAL
  <2>3. Fits(ts, n + 1)
    <3>1. CASE p = 0
      <4>1. n = 0
        BY <3>1 DEF Reads
      <4>2. n + 1 = 1
        BY <4>1
      <4>3. QED
        BY <1>5, <4>2, FitsFirst
    <3>2. CASE p = 4
      <4>1. Since(ts, n, "PACKAGE", 1)
        BY <3>2 DEF Reads
      <4>2. QED
        BY <1>5, <4>1, FitsAfterPackage
    <3>3. CASE p \in {5, 11}
      <4>1. LineEnds(ts, n, c)
        BY <3>3 DEF Reads, SectionStates
      <4>2. QED
        BY <1>5, <4>1, FitsAfterLine
    <3>4. QED
      BY <2>1, <3>1, <3>2, <3>3
  <2>4. QED
    BY <1>5, <2>1, <2>2, <2>3
<1>6. CASE c = "PACKAGE"
  <2>1. q = 2 /\ p = 0
    BY <1>4, <1>6, StatesOf, <1>1, Beneaths
  <2>5. n = 0
    BY <2>1 DEF Reads
  <2>6. n + 1 = 1
    BY <2>5
  <2>2. n + 1 = 1 /\ ts[1].kind = "PACKAGE"
    BY <1>6, <2>6
  <2>3. Fits(ts, n + 1)
    BY <2>2, FitsFirst
  <2>4. Reads(2, ts, n + 1, "YYEMPTY")
    <3>1. Since(ts, n + 1, "PACKAGE", 0)
      BY <1>2, <1>3, <1>6
    <3>2. QED
      BY <2>2, <3>1 DEF Reads, LineStates, SectionStates, YYFINAL
  <2>7. QED
    BY <1>6, <2>1, <2>3, <2>4
<1>7. CASE c \in {"OPTION", "LIST"}
  <2>1. q \in {14, 15} /\ p \in {8, 13, 16, 18} /\ (c = "OPTION" => q = 14) /\ (c = "LIST" => q = 15)
    BY <1>1, <1>7, StatesOf, Beneaths
  <2>2. Reads(q, ts, n + 1, "YYEMPTY")
    BY <1>2, <1>3, <1>7, <2>1 DEF Reads, LineStates, SectionStates, YYFINAL
  <2>3. Fits(ts, n + 1)
    <3>1. CASE p \in {16, 18}
      <4>1. LineEnds(ts, n, c)
        BY <3>1 DEF Reads, LineStates
      <4>2. QED
        BY <1>7, <4>1, FitsAfterLine
    <3>2. CASE p \in {8, 13}
      <4>1. \E w \in {1, 2} : Since(ts, n, "CONFIG", w)
        BY <3>2 DEF Reads
      <4>2. PICK w \in {1, 2} : Since(ts, n, "CONFIG", w)
        BY <4>1
      <4>3. w \in Nat /\ w >= MinWords("CONFIG") /\ "CONFIG" # "PACKAGE" /\ "CONFIG" \in Keywords
        BY <1>2
      <4>4. QED
        BY <1>7, <4>2, <4>3, FitsAfter
    <3>3. QED
      BY <2>1, <3>1, <3>2
  <2>4. QED
    BY <1>7, <2>2, <2>3
<1>8. CASE c = "VALUE"
  <2>1. /\ q \in {8, 9, 13, 19, 20, 22, 23}
        /\ (q = 8 => p = 1) /\ (q = 9 => p = 2) /\ (q = 13 => p = 8) /\ (q = 19 => p = 14)
        /\ (q = 20 => p = 15) /\ (q = 22 => p = 19) /\ (q = 23 => p = 20)
    BY <1>1, <1>8, StatesOf, Beneaths
  <2>2. PICK kind \in {"CONFIG", "OPTION", "LIST", "PACKAGE"}, w \in {0, 1} :
           /\ Since(ts, n, kind, w) /\ w < MaxWords(kind)
           /\ q = 8 => kind = "CONFIG" /\ w = 0
           /\ q = 9 => kind = "PACKAGE" /\ w = 0 /\ n = 1
           /\ q = 13 => kind = "CONFIG" /\ w = 1
           /\ q = 19 => kind = "OPTION" /\ w = 0
           /\ q = 20 => kind = "LIST" /\ w = 0
           /\ q = 22 => kind = "OPTION" /\ w = 1
           /\ q = 23 => kind = "LIST" /\ w = 1
    <3>1. CASE q = 8
      BY <1>2, <2>1, <3>1 DEF Reads
    <3>2. CASE q = 9
      BY <1>2, <2>1, <3>2 DEF Reads
    <3>3. CASE q = 13
      BY <1>2, <2>1, <3>3 DEF Reads
    <3>4. CASE q = 19
      BY <1>2, <2>1, <3>4 DEF Reads
    <3>5. CASE q = 20
      BY <1>2, <2>1, <3>5 DEF Reads
    <3>6. CASE q = 22
      BY <1>2, <2>1, <3>6 DEF Reads
    <3>7. CASE q = 23
      BY <1>2, <2>1, <3>7 DEF Reads
    <3>8. QED
      BY <2>1, <3>1, <3>2, <3>3, <3>4, <3>5, <3>6, <3>7
  <2>3. w \in Nat /\ kind \in Keywords
    BY <1>2
  <2>4. Fits(ts, n + 1)
    BY <1>8, <2>2, <2>3, FitsAfter
  <2>5. Since(ts, n + 1, kind, w + 1)
    BY <1>3, <1>8, <2>2, <2>3
  <2>6. Reads(q, ts, n + 1, "YYEMPTY")
    <3>1. q \notin LineStates /\ q \notin SectionStates /\ q # 3 /\ q # YYFINAL
      BY <2>1 DEF LineStates, SectionStates, YYFINAL
    <3>2. CASE w = 0
      BY <2>1, <2>2, <2>5, <3>1, <3>2 DEF Reads
    <3>3. CASE w = 1
      BY <2>1, <2>2, <2>5, <3>1, <3>3 DEF Reads
    <3>4. QED
      BY <2>2, <3>2, <3>3
  <2>7. QED
    BY <1>8, <2>4, <2>6
<1>9. CASE c = "EOF"
  <2>1. q = YYFINAL /\ p = 3 /\ q = 10
    BY <1>1, <1>9, StatesOf, Beneaths DEF YYFINAL
  <2>2. LineEnds(ts, n, c)
    BY <2>1 DEF Reads
  <2>3. Fits(ts, n + 1)
    BY <1>9, <2>2, FitsAfterLine
  <2>4. Reads(10, ts, n + 1, "YYEMPTY")
    BY <1>9 DEF Reads, LineStates, SectionStates, YYFINAL
  <2>5. QED
    BY <2>1, <2>3, <2>4
<1>10. c # "UNDEF"
  BY <1>1, StatesOf
<1>11. QED
  BY <1>5, <1>6, <1>7, <1>8, <1>9, <1>10 DEF TokenKinds, Keywords

\* A reduction: nothing is read, and the lookahead is none that could have been shifted.
LEMMA ReduceReads ==
    ASSUME NEW ts, NEW n \in Nat, NEW p \in States, At(yydefact, p) # 0, p # YYFINAL,
           NEW q \in States, At(yystos, q) = LeftSide(p), NEW c,
           Reads(p, ts, n, c),
           ~IsDefault(p) => c \in TokenKinds /\ c \notin At(Takes, p)
    PROVE  Reads(q, ts, n, c) /\ q # YYFINAL
<1>1. /\ At(Takes, 5) = {"CONFIG"} /\ At(Takes, 8) = {"VALUE", "OPTION", "LIST"}
      /\ At(Takes, 11) = {"CONFIG"} /\ At(Takes, 13) = {"OPTION", "LIST"}
      /\ At(Takes, 16) = {"OPTION", "LIST"} /\ At(Takes, 18) = {"OPTION", "LIST"}
      /\ At(Takes, 20) = {"VALUE"}
  BY DEF At, Takes
<1>2. MinWords("CONFIG") = 1 /\ MinWords("OPTION") = 2 /\ MinWords("LIST") = 1
  BY DEF MinWords
<1>3. p \in {5, 8, 11, 13, 16, 18, 20} => c \in TokenKinds /\ c \notin At(Takes, p) /\ c # "YYEMPTY"
  BY NeedsLookahead DEF TokenKinds, Keywords
<1>4. CASE p \in {5, 11}
  <2>0. LeftSide(p) = 9
    BY <1>4, RuleFacts
  <2>1. q = 3
    BY <2>0, StatesOf
  <2>2. LineEnds(ts, n, c) /\ c \notin {"YYEMPTY", "OPTION", "LIST"} /\ c # "CONFIG"
    BY <1>1, <1>3, <1>4 DEF Reads, SectionStates
  <2>3. QED
    BY <2>1, <2>2 DEF Reads, LineStates, SectionStates, YYFINAL
<1>5. CASE p = 9
  <2>0. LeftSide(p) = 10
    BY <1>5, RuleFacts
  <2>1. q = 4
    BY <2>0, StatesOf
  <2>2. n = 2 /\ Since(ts, n, "PACKAGE", 1)
    BY <1>5 DEF Reads
  <2>3. QED
    BY <2>1, <2>2 DEF Reads, LineStates, SectionStates, YYFINAL
<1>6. CASE p \in {6, 7, 12}
  <2>0. LeftSide(p) \in {11, 12}
    BY <1>6, RuleFacts
  <2>1. q \in {5, 6, 11, 12}
    BY <2>0, StatesOf
  <2>2. LineEnds(ts, n, c) /\ c \notin {"YYEMPTY", "OPTION", "LIST"}
    BY <1>6 DEF Reads, SectionStates
  <2>3. q \notin {0, 1, 2, 3, 4, 8, 9, 10, 13, 14, 15, 19, 20, 22, 23}
    BY <2>1
  <2>4. QED
    BY <2>2, <2>3 DEF Reads, YYFINAL
<1>7. CASE p \in {8, 13, 16, 18}
  <2>0. LeftSide(p) = 13
    BY <1>7, RuleFacts
  <2>1. q = 7
    BY <2>0, StatesOf
  <2>2. c \notin {"YYEMPTY", "OPTION", "LIST"} /\ (p = 8 => c # "VALUE")
    BY <1>1, <1>3, <1>7
  <2>3. LineEnds(ts, n, c)
    <3>1. CASE p \in {16, 18}
      BY <3>1 DEF Reads, LineStates
    <3>2. CASE p = 8
      <4>1. Since(ts, n, "CONFIG", 1) /\ 1 \in MinWords("CONFIG") .. 2 /\ c \notin {"YYEMPTY", "VALUE"}
        BY <1>2, <2>2, <3>2 DEF Reads
      <4>2. QED
        BY <4>1 DEF LineEnds
    <3>3. CASE p = 13
      <4>1. Since(ts, n, "CONFIG", 2) /\ 2 \in MinWords("CONFIG") .. 2
        BY <1>2, <3>3 DEF Reads
      <4>2. QED
        BY <4>1 DEF LineEnds
    <3>4. QED
      BY <1>7, <3>1, <3>2, <3>3
  <2>4. QED
    BY <2>1, <2>2, <2>3 DEF Reads, LineStates, SectionStates, YYFINAL
<1>8. CASE p \in {17, 21}
  <2>0. LeftSide(p) \in {14}
    BY <1>8, RuleFacts
  <2>1. q \in {16, 18}
    BY <2>0, StatesOf
  <2>2. LineEnds(ts, n, c)
    BY <1>8 DEF Reads, LineStates
  <2>3. /\ q \notin {0, 1, 2, 3, 4, 8, 9, 10, 13, 14, 15, 19, 20, 22, 23}
        /\ q \notin SectionStates
    BY <2>1 DEF SectionStates
  <2>4. QED
    BY <2>2, <2>3 DEF Reads, YYFINAL
<1>9. CASE p \in {20, 22, 23}
  <2>0. LeftSide(p) \in {15}
    BY <1>9, RuleFacts
  <2>1. q \in {17, 21}
    BY <2>0, StatesOf
  <2>2. LineEnds(ts, n, c)
    <3>1. CASE p = 20
      <4>1. Since(ts, n, "LIST", 1) /\ 1 \in MinWords("LIST") .. 2 /\ c \notin {"YYEMPTY", "VALUE"}
        BY <1>1, <1>2, <1>3, <3>1 DEF Reads
      <4>2. QED
        BY <4>1 DEF LineEnds
    <3>2. CASE p = 22
      <4>1. Since(ts, n, "OPTION", 2) /\ 2 \in MinWords("OPTION") .. 2
        BY <1>2, <3>2 DEF Reads
      <4>2. QED
        BY <4>1 DEF LineEnds
    <3>3. CASE p = 23
      <4>1. Since(ts, n, "LIST", 2) /\ 2 \in MinWords("LIST") .. 2
        BY <1>2, <3>3 DEF Reads
      <4>2. QED
        BY <4>1 DEF LineEnds
    <3>4. QED
      BY <1>9, <3>1, <3>2, <3>3
  <2>3. /\ q \notin {0, 1, 2, 3, 4, 8, 9, 10, 13, 14, 15, 19, 20, 22, 23}
        /\ q \notin SectionStates
    BY <2>1 DEF SectionStates
  <2>4. QED
    BY <2>2, <2>3 DEF Reads, YYFINAL
<1>10. QED
  BY <1>4, <1>5, <1>6, <1>7, <1>8, <1>9, RuleFacts

\* An error: the lookahead does not fit.
LEMMA ErrorMisfits ==
    ASSUME NEW ts, NEW n \in Nat, NEW p \in States, At(yydefact, p) = 0,
           NEW c \in TokenKinds, c = ts[n + 1].kind, c \notin At(Takes, p), Reads(p, ts, n, c)
    PROVE  ~Fits(ts, n + 1)
<1>1. /\ At(Takes, 0) = {"PACKAGE", "CONFIG"} /\ At(Takes, 1) = {"VALUE"} /\ At(Takes, 2) = {"VALUE"}
      /\ At(Takes, 3) = {"EOF"} /\ At(Takes, 4) = {"CONFIG"} /\ At(Takes, 14) = {"VALUE"}
      /\ At(Takes, 15) = {"VALUE"} /\ At(Takes, 19) = {"VALUE"}
  BY DEF At, Takes
<1>2. /\ MinWords("CONFIG") = 1 /\ MinWords("OPTION") = 2 /\ MinWords("LIST") = 1 /\ MinWords("PACKAGE") = 1
      /\ {"CONFIG", "OPTION", "LIST", "PACKAGE"} \subseteq Keywords
  BY DEF MinWords, Keywords
<1>3. p \in {0, 1, 2, 3, 4, 14, 15, 19}
  BY NoDefaults
<1>4. CASE p = 0
  <2>1. n = 0 /\ c \notin {"PACKAGE", "CONFIG"}
    BY <1>1, <1>4 DEF Reads
  <2>2. n + 1 = 1
    BY <2>1
  <2>3. QED
    BY <2>1, <2>2, FitsFirst
<1>5. CASE p = 3
  <2>1. LineEnds(ts, n, c) /\ c \notin {"YYEMPTY", "OPTION", "LIST"} /\ c # "CONFIG" /\ c # "EOF"
    BY <1>1, <1>5 DEF Reads
  <2>2. QED
    BY <2>1, FitsAfterLine
<1>6. CASE p = 4
  <2>1. Since(ts, n, "PACKAGE", 1) /\ c # "CONFIG"
    BY <1>1, <1>6 DEF Reads
  <2>2. QED
    BY <2>1, FitsAfterPackage
<1>7. CASE p \in {1, 2, 14, 15, 19}
  <2>1. PICK kind \in {"CONFIG", "OPTION", "LIST", "PACKAGE"}, w \in {0, 1} :
           Since(ts, n, kind, w) /\ w < MinWords(kind)
    <3>1. CASE p = 1
      BY <1>2, <3>1 DEF Reads
    <3>2. CASE p = 2
      BY <1>2, <3>2 DEF Reads
    <3>3. CASE p = 14
      BY <1>2, <3>3 DEF Reads
    <3>4. CASE p = 15
      BY <1>2, <3>4 DEF Reads
    <3>5. CASE p = 19
      BY <1>2, <3>5 DEF Reads
    <3>6. QED
      BY <1>7, <3>1, <3>2, <3>3, <3>4, <3>5
  <2>2. kind \in Keywords /\ w \in Nat /\ c # "VALUE"
    BY <1>1, <1>2, <1>7
  <2>3. QED
    BY <2>1, <2>2, FitsAfterKeyword
<1>8. QED
  BY <1>3, <1>4, <1>5, <1>6, <1>7

\* A file with a token that does not fit is none.
LEMMA MisfitIsNotViable ==
    ASSUME NEW ts, NEW i \in DOMAIN ts, ~Fits(ts, i)
    PROVE  ~Viable(ts)
BY DEF Viable

\* The tokens are a sequence.
LEMMA TokensTyped ==
    ASSUME TextsInv
    PROVE  /\ Len(tokens) \in Nat /\ DOMAIN tokens = 1 .. Len(tokens)
           /\ tokens \in Seq([kind : TokenKinds, text : Strings \cup {NoString}])
BY LenProperties DEF TextsInv

\* A lookahead is the last token.
LEMMA TakenFacts ==
    ASSUME TextsInv, phase = "parsing"
    PROVE  /\ Taken \in Nat
           /\ yychar # "YYEMPTY" => Len(tokens) = Taken + 1 /\ tokens[Taken + 1].kind = yychar
           /\ yychar = "YYEMPTY" => Len(tokens) = Taken
<1>1. Len(tokens) \in Nat
  BY TokensTyped
<1>2. CASE yychar = "YYEMPTY"
  BY <1>1, <1>2 DEF Taken
<1>3. CASE yychar # "YYEMPTY"
  <2>1. Len(tokens) >= 1 /\ tokens[Len(tokens)].kind = yychar
    BY <1>3 DEF TextsInv, LastKind
  <2>2. Taken = Len(tokens) - 1 /\ Taken + 1 = Len(tokens)
    BY <1>1, <1>3 DEF Taken
  <2>3. Taken \in Nat
    BY <1>1, <2>1, <2>2
  <2>4. Len(tokens) = Taken + 1
    BY <2>2
  <2>5. tokens[Taken + 1].kind = yychar
    BY <2>1, <2>2
  <2>6. QED
    BY <1>3, <2>3, <2>4, <2>5
<1>4. QED
  BY <1>2, <1>3

LEMMA GrammarInit == Init => GrammarInv
<1> SUFFICES ASSUME Init PROVE GrammarInv
  OBVIOUS
<1>1. phase = "parsing" /\ tokens = <<>> /\ yychar = "YYEMPTY" /\ stack = << Item(0, 0) >>
  BY DEF Init
<1>2. Top = 0 /\ Taken = 0
  BY <1>1 DEF Top, Last, Item, Taken
<1>3. Reads(0, tokens, 0, yychar) /\ YYFINAL # 0
  BY DEF Reads, LineStates, SectionStates, YYFINAL
<1>4. \A i \in 1 .. Taken : FALSE
  BY <1>2
<1>5. QED
  BY <1>1, <1>2, <1>3, <1>4 DEF GrammarInv

\* When the parser calls yylex, the tokens so far may become a file, but are none.
LEMMA ReadsOnlyViable ==
    ASSUME TextsInv, GrammarInv, Yylex
    PROVE  Viable(tokens) /\ ~Ended(tokens)
<1>1. phase = "parsing" /\ Top # YYFINAL /\ yychar = "YYEMPTY"
  BY DEF Yylex, Parsing, Decided
<1>2. Taken = Len(tokens)
  BY <1>1, TakenFacts
<1>3. \A i \in 1 .. Len(tokens) : Fits(tokens, i) /\ tokens[i].kind # "EOF"
  BY <1>1, <1>2 DEF GrammarInv
<1>4. Viable(tokens)
  BY <1>3, TokensTyped DEF Viable
<1>5. tokens # <<>> => Len(tokens) \in 1 .. Len(tokens)
  BY TokensTyped, EmptySeq
<1>6. ~Ended(tokens)
  BY <1>3, <1>5 DEF Ended, Last
<1>7. QED
  BY <1>4, <1>6

\* An accepted file is one.
LEMMA AcceptsGrammatical ==
    ASSUME TextsInv, GrammarInv, Accept
    PROVE  Grammatical(tokens)
<1>1. phase = "parsing" /\ Top = YYFINAL /\ yychar = "YYEMPTY"
  BY DEF Accept, GrammarInv
<1>2. Taken = Len(tokens)
  BY <1>1, TakenFacts
<1>3. \A i \in 1 .. Len(tokens) : Fits(tokens, i) /\ (tokens[i].kind = "EOF" => i = Len(tokens))
  BY <1>1, <1>2 DEF GrammarInv
<1>4. Viable(tokens)
  BY <1>3, TokensTyped DEF Viable
<1>5. Len(tokens) >= 1 /\ tokens[Len(tokens)].kind = "EOF"
  BY <1>1, <1>2 DEF GrammarInv, Reads
<1>6. Ended(tokens)
  BY <1>5, TokensTyped, EmptySeq DEF Ended, Last
<1>7. QED
  BY <1>4, <1>6 DEF Grammatical

\* A token more does not disturb what has been read.
LEMMA SinceLocal ==
    ASSUME NEW ts, NEW us, NEW n \in Nat, \A j \in 1 .. n : us[j] = ts[j],
           NEW kind, NEW w \in Nat, Since(ts, n, kind, w)
    PROVE  Since(us, n, kind, w)
<1>1. /\ w + 1 <= n /\ n - w \in 1 .. n /\ ts[n - w].kind = kind
      /\ \A j \in n - w + 1 .. n : j \in 1 .. n /\ ts[j].kind = "VALUE"
  BY DEF Since
<1>2. QED
  BY <1>1 DEF Since

LEMMA ReadsAhead ==
    ASSUME NEW ts, NEW us, NEW n \in Nat, \A j \in 1 .. n : us[j] = ts[j],
           NEW q, Reads(q, ts, n, "YYEMPTY"), NEW c
    PROVE  Reads(q, us, n, c)
<1>1. \A kind : \A w \in 0 .. 2 : Since(ts, n, kind, w) => Since(us, n, kind, w)
  BY SinceLocal
<1>2. LineEnds(ts, n, "YYEMPTY") => LineEnds(us, n, c)
  <2>1. HAVE LineEnds(ts, n, "YYEMPTY")
  <2>2. PICK kind \in {"CONFIG", "OPTION", "LIST"} : \E w \in MinWords(kind) .. 2 :
           Since(ts, n, kind, w) /\ w = 2
    BY <2>1 DEF LineEnds
  <2>3. Since(us, n, kind, 2) /\ 2 \in MinWords(kind) .. 2
    BY <1>1, <2>2
  <2>4. QED
    BY <2>3 DEF LineEnds
<1>3. q \notin SectionStates \cup {3}
  BY DEF Reads
<1>4. q \in LineStates => LineEnds(us, n, c)
  BY <1>2 DEF Reads
<1>5. q = YYFINAL => n >= 1 /\ us[n].kind = "EOF"
  BY DEF Reads
<1>6. /\ q = 0 => n = 0
      /\ q = 1 => Since(us, n, "CONFIG", 0)
      /\ q = 2 => n = 1 /\ Since(us, n, "PACKAGE", 0)
      /\ q \in {4, 9} => n = 2 /\ Since(us, n, "PACKAGE", 1)
      /\ q = 8 => Since(us, n, "CONFIG", 1)
      /\ q = 13 => Since(us, n, "CONFIG", 2)
      /\ q = 14 => Since(us, n, "OPTION", 0)
      /\ q = 19 => Since(us, n, "OPTION", 1)
  BY <1>1 DEF Reads
<1>7. /\ q = 22 => Since(us, n, "OPTION", 2)
      /\ q = 15 => Since(us, n, "LIST", 0)
      /\ q = 20 => Since(us, n, "LIST", 1)
      /\ q = 23 => Since(us, n, "LIST", 2)
  BY <1>1 DEF Reads
<1>8. QED
  BY <1>3, <1>4, <1>5, <1>6, <1>7 DEF Reads

LEMMA GrammarYylex ==
    ASSUME StringsInv, TextsInv, TextsInv', GrammarInv, Yylex
    PROVE  GrammarInv'
<1> DEFINE n == Len(tokens)
<1>1. /\ phase = "parsing" /\ phase' = "parsing" /\ Top # YYFINAL /\ yychar = "YYEMPTY"
      /\ ~IsDefault(Top) /\ Top' = Top
  BY DEF Yylex, Parsing, Decided, Top
<1>2. PICK t \in Reader!NextTokens(tokens) : tokens' = Append(tokens, t) /\ yychar' = t.kind
  BY DEF Yylex
<1>3. yychar' # "YYEMPTY"
  BY <1>2, NextText
<1>4. n \in Nat /\ Len(tokens') = n + 1 /\ \A j \in 1 .. n : tokens'[j] = tokens[j]
  <2>1. Len(tokens') \in Nat
    BY TokensTyped DEF TextsInv
  <2>2. tokens \in Seq(Range(tokens) \cup {t}) /\ t \in Range(tokens) \cup {t}
    <3>1. tokens \in Seq([kind : TokenKinds, text : Strings \cup {NoString}])
      BY TokensTyped
    <3>2. \A i \in DOMAIN tokens : tokens[i] \in Range(tokens) \cup {t}
      BY DEF Range
    <3>3. DOMAIN tokens = 1 .. Len(tokens) /\ Len(tokens) \in Nat
      BY TokensTyped
    <3>4. tokens = [i \in 1 .. Len(tokens) |-> tokens[i]]
      BY <3>1, <3>3
    <3>5. QED
      BY <3>2, <3>3, <3>4, SeqDef
  <2>3. QED
    BY <1>2, <2>2, TokensTyped, AppendProperties
<1>5. Taken = n /\ Taken' = n
  BY <1>1, <1>3, <1>4 DEF Taken
<1> HIDE DEF n
<1>6. Reads(Top, tokens, n, "YYEMPTY")
  BY <1>1, <1>5 DEF GrammarInv
<1>7. Reads(Top, tokens', n, yychar')
  BY <1>4, <1>6, ReadsAhead
<1>8. ASSUME NEW i \in 1 .. n
      PROVE  Fits(tokens', i) /\ tokens'[i].kind # "EOF"
  <2>1. Fits(tokens, i) /\ tokens[i].kind # "EOF"
    BY <1>1, <1>5 DEF GrammarInv
  <2>2. \A j \in 1 .. i : tokens'[j] = tokens[j]
    BY <1>4
  <2>3. i \in Nat /\ i # 0
    BY <1>4
  <2>4. QED
    BY <1>4, <2>1, <2>2, <2>3, FitsLocal
<1>9. QED
  BY <1>1, <1>5, <1>7, <1>8 DEF GrammarInv

LEMMA GrammarShift ==
    ASSUME StringsInv, TextsInv, GrammarInv, Shift
    PROVE  GrammarInv'
<1> DEFINE q == ShiftTo(Top, YYTRANSLATE[yychar])
<1> DEFINE n == Taken
<1>1. /\ UNCHANGED <<tokens, phase>> /\ phase = "parsing" /\ yychar' = "YYEMPTY" /\ yychar # "YYEMPTY"
      /\ Top # YYFINAL
  BY DEF Shift, Shifts, Parsing
<1>2. /\ Len(stack) \in Nat /\ Len(stack') = Len(stack) + 1 /\ stack'[Len(stack) + 1] = Item(q, yylval)
      /\ yychar \in TokenKinds /\ q \in States /\ At(yystos, q) = YYTRANSLATE[yychar]
  BY ShiftedStack
<1>3. Top \in At(Beneath, q)
  BY ShiftFacts DEF StringsInv
<1>4. n \in Nat /\ Len(tokens) = n + 1 /\ tokens[n + 1].kind = yychar
  BY <1>1, TakenFacts
<1>5. Taken' = n + 1
  BY <1>1, <1>4 DEF Taken
<1>6. Reads(Top, tokens, n, yychar)
  BY <1>1 DEF GrammarInv
<1> HIDE DEF n, q
<1>7. Top' = q
  BY <1>2 DEF Top, Last, Item
<1>8. Fits(tokens, n + 1) /\ Reads(q, tokens, n + 1, "YYEMPTY") /\ (yychar = "EOF" => q = YYFINAL)
  BY <1>2, <1>3, <1>4, <1>6, ShiftFits
<1>9. ASSUME NEW i \in 1 .. n + 1
      PROVE  Fits(tokens, i) /\ (tokens[i].kind = "EOF" => q = YYFINAL /\ i = n + 1)
  <2>1. CASE i = n + 1
    BY <1>4, <1>8, <2>1
  <2>2. CASE i # n + 1
    <3>1. i \in 1 .. n
      BY <1>4, <2>2
    <3>2. QED
      BY <1>1, <3>1 DEF GrammarInv, n
  <2>3. QED
    BY <2>1, <2>2
<1>10. QED
  BY <1>1, <1>5, <1>7, <1>8, <1>9 DEF GrammarInv

LEMMA GrammarReduce ==
    ASSUME StringsInv, TextsInv, GrammarInv, Reduce
    PROVE  GrammarInv'
<1> DEFINE left == Len(stack) - Size(Top)
<1> DEFINE q == Goto(stack[left].state, LeftSide(Top))
<1>1. UNCHANGED <<tokens, yychar, phase>> /\ phase = "parsing"
  BY DEF Reduce, Parsing
<1>2. /\ Top \in States /\ At(yydefact, Top) # 0 /\ Top # YYFINAL
      /\ left \in 1 .. Len(stack) /\ Leads(stack[left].state, LeftSide(Top))
      /\ Len(stack') = left + 1
  BY ReducedStack
<1>3. stack'[left + 1].state = q
  <2>1. \E v : stack'[left + 1] = Item(q, v)
    BY ReducedStack
  <2>2. QED
    BY <2>1 DEF Item
<1>4. q \in States /\ At(yystos, q) = LeftSide(Top)
  BY <1>2 DEF Leads
<1> HIDE DEF left, q
<1>5. Top' = q
  BY <1>2, <1>3 DEF Top, Last
<1>6. Taken' = Taken /\ Taken \in Nat
  BY <1>1, TakenFacts DEF Taken
<1>7. ~IsDefault(Top) => yychar \in TokenKinds /\ yychar \notin At(Takes, Top)
  <2>1. HAVE ~IsDefault(Top)
  <2>2. yychar # "YYEMPTY" /\ ShiftTo(Top, YYTRANSLATE[yychar]) = 0
    BY <2>1 DEF Reduce, Decided, Shifts
  <2>3. yychar \in TokenKinds
    BY <2>2 DEF StringsInv, StackInv, Symbols
  <2>4. QED
    BY <1>2, <2>2, <2>3, NotShifted
<1>8. Reads(Top, tokens, Taken, yychar)
  BY <1>1 DEF GrammarInv
<1>9. Reads(q, tokens, Taken, yychar) /\ q # YYFINAL
  BY <1>2, <1>4, <1>6, <1>7, <1>8, ReduceReads
<1>10. \A i \in 1 .. Taken : Fits(tokens, i) /\ tokens[i].kind # "EOF"
  BY <1>1, <1>2 DEF GrammarInv
<1>11. QED
  BY <1>1, <1>5, <1>6, <1>9, <1>10 DEF GrammarInv

\* A syntax error: the lookahead is the first token that does not fit.
LEMMA ErrorIsMisfit ==
    ASSUME StringsInv, TextsInv, GrammarInv, SyntaxError
    PROVE  ~Viable(tokens)
<1>1. phase = "parsing" /\ Decided /\ ~Shifts /\ At(yydefact, Top) = 0
  BY DEF SyntaxError, Parsing, Default
<1>2. Top \in States
  BY StringsTyped DEF Top, Last
<1>3. ~IsDefault(Top)
  BY <1>1, <1>2, NoDefaults, NeedsLookahead
<1>4. yychar # "YYEMPTY" /\ ShiftTo(Top, YYTRANSLATE[yychar]) = 0
  BY <1>1, <1>3 DEF Decided, Shifts
<1>5. yychar \in TokenKinds
  BY <1>4 DEF StringsInv, StackInv, Symbols
<1>6. yychar \notin At(Takes, Top)
  BY <1>2, <1>4, <1>5, NotShifted
<1>7. Taken \in Nat /\ Len(tokens) = Taken + 1 /\ tokens[Taken + 1].kind = yychar
  BY <1>1, <1>4, TakenFacts
<1>8. ~Fits(tokens, Taken + 1)
  <2>1. Reads(Top, tokens, Taken, yychar)
    BY <1>1 DEF GrammarInv
  <2>2. QED
    BY <1>1, <1>2, <1>5, <1>6, <1>7, <2>1, ErrorMisfits
<1>9. Taken + 1 \in DOMAIN tokens
  BY <1>7, TokensTyped
<1>10. QED
  BY <1>8, <1>9, MisfitIsNotViable

LEMMA GrammarNext ==
    ASSUME StringsInv, TextsInv, TextsInv', GrammarInv, [Next]_parserVars
    PROVE  GrammarInv'
<1>1. CASE Yylex
  BY <1>1, GrammarYylex
<1>2. CASE Shift
  BY <1>2, GrammarShift
<1>3. CASE Reduce
  BY <1>3, GrammarReduce
<1>4. CASE SyntaxError
  <2>1. ~Viable(tokens) /\ tokens' = tokens /\ phase' = "erring"
    BY <1>4, ErrorIsMisfit DEF SyntaxError
  <2>2. QED
    BY <2>1 DEF GrammarInv
<1>5. CASE Pop
  BY <1>5 DEF Pop, GrammarInv
<1>6. CASE Abort
  BY <1>6 DEF Abort, GrammarInv
<1>7. CASE Accept
  <2>1. Grammatical(tokens) /\ tokens' = tokens /\ phase' = "accepted"
    BY <1>7, AcceptsGrammatical DEF Accept
  <2>2. QED
    BY <2>1 DEF GrammarInv
<1>8. CASE Returned \/ UNCHANGED parserVars
  BY <1>8 DEF Returned, parserVars, GrammarInv, Taken, Top
<1>9. QED
  BY <1>1, <1>2, <1>3, <1>4, <1>5, <1>6, <1>7, <1>8 DEF Next, ParserNext

-----------------------------------------------------------------------------
(***************************************************************************)
(* The recursions that the abstract parser is stated with: a document grows *)
(* with each token, and the AST with each line and each section.            *)
(***************************************************************************)

\* The recursion of DocumentUpTo has a solution for the first n tokens.
DocumentRun(f, ts, n) == f = [i \in 0 .. n |-> IF i = 0 THEN <<>> ELSE Extended(ts, f[i - 1], i)]

LEMMA DocumentRuns ==
    ASSUME NEW ts
    PROVE  \A n \in Nat : \E f : DocumentRun(f, ts, n)
<1> DEFINE Solved == {n \in Nat : \E f : DocumentRun(f, ts, n)}
<1>1. 0 \in Solved
  <2> DEFINE f == [i \in 0 .. 0 |-> <<>>]
  <2>1. f = [i \in 0 .. 0 |-> IF i = 0 THEN <<>> ELSE Extended(ts, f[i - 1], i)]
    OBVIOUS
  <2>2. QED
    BY <2>1 DEF DocumentRun
<1>2. ASSUME NEW n \in Nat, n \in Solved PROVE n + 1 \in Solved
  <2>1. PICK f : DocumentRun(f, ts, n)
    BY <1>2
  <2> DEFINE g == [i \in 0 .. n + 1 |-> IF i = n + 1 THEN Extended(ts, f[n], i) ELSE f[i]]
  <2>2. ASSUME NEW i \in 0 .. n + 1
        PROVE  g[i] = IF i = 0 THEN <<>> ELSE Extended(ts, g[i - 1], i)
    <3>1. CASE i = n + 1
      <4>1. i # 0 /\ i - 1 = n /\ g[n] = f[n]
        BY <3>1
      <4>2. QED
        BY <3>1, <4>1
    <3>2. CASE i # n + 1
      <4>1. i \in 0 .. n /\ g[i] = f[i] /\ (i # 0 => g[i - 1] = f[i - 1])
        BY <3>2
      <4>2. f[i] = IF i = 0 THEN <<>> ELSE Extended(ts, f[i - 1], i)
        BY <2>1, <4>1 DEF DocumentRun
      <4> HIDE DEF g
      <4>3. QED
        BY <4>1, <4>2
    <3>3. QED
      BY <3>1, <3>2
  <2>3. g = [i \in 0 .. n + 1 |-> IF i = 0 THEN <<>> ELSE Extended(ts, g[i - 1], i)]
    BY <2>2
  <2> HIDE DEF g
  <2>4. QED
    BY <2>3 DEF DocumentRun
<1> HIDE DEF Solved
<1>3. Nat \subseteq Solved
  BY <1>1, <1>2, SetInduction
<1>4. QED
  BY <1>3 DEF Solved

\* Two runs agree where both are defined.
LEMMA DocumentRunsAgree ==
    ASSUME NEW ts, NEW n \in Nat, NEW f, DocumentRun(f, ts, n), NEW m \in Nat, m <= n,
           NEW g, DocumentRun(g, ts, m)
    PROVE  f[m] = g[m]
<1> DEFINE Same == {i \in Nat : i <= m => f[i] = g[i]}
<1>1. /\ \A i \in 0 .. n : f[i] = IF i = 0 THEN <<>> ELSE Extended(ts, f[i - 1], i)
      /\ \A i \in 0 .. m : g[i] = IF i = 0 THEN <<>> ELSE Extended(ts, g[i - 1], i)
  BY DEF DocumentRun
<1>2. 0 \in Same
  BY <1>1
<1>3. ASSUME NEW i \in Nat, i \in Same PROVE i + 1 \in Same
  <2>1. SUFFICES ASSUME i + 1 <= m PROVE f[i + 1] = g[i + 1]
    OBVIOUS
  <2>2. f[i] = g[i] /\ i + 1 \in 0 .. n /\ i + 1 \in 0 .. m /\ i + 1 # 0 /\ (i + 1) - 1 = i
    BY <1>3, <2>1
  <2>3. f[i + 1] = Extended(ts, f[i], i + 1) /\ g[i + 1] = Extended(ts, g[i], i + 1)
    BY <1>1, <2>2
  <2>4. QED
    BY <2>2, <2>3
<1> HIDE DEF Same
<1>4. Nat \subseteq Same
  BY <1>2, <1>3, SetInduction
<1>5. QED
  BY <1>4 DEF Same

\* A token more is one step more.
LEMMA DocumentNext ==
    ASSUME NEW ts
    PROVE  /\ DocumentUpTo(ts, 0) = <<>>
           /\ \A n \in Nat : DocumentUpTo(ts, n + 1) = Extended(ts, DocumentUpTo(ts, n), n + 1)
<1> DEFINE F(n) == CHOOSE f : f = [i \in 0 .. n |-> IF i = 0 THEN <<>> ELSE Extended(ts, f[i - 1], i)]
<1>1. \A n \in Nat : DocumentRun(F(n), ts, n)
  BY SMTT(30), DocumentRuns DEF DocumentRun
<1>2. \A n : DocumentUpTo(ts, n) = F(n)[n]
  BY DEF DocumentUpTo
<1> HIDE DEF F
<1>3. F(0)[0] = <<>>
  BY <1>1 DEF DocumentRun
<1>4. ASSUME NEW n \in Nat PROVE F(n + 1)[n + 1] = Extended(ts, F(n)[n], n + 1)
  <2>1. DocumentRun(F(n + 1), ts, n + 1) /\ DocumentRun(F(n), ts, n)
    BY <1>1
  <2>2. n + 1 \in 0 .. n + 1 /\ n + 1 # 0 /\ (n + 1) - 1 = n
    OBVIOUS
  <2>3. F(n + 1)[n + 1] = Extended(ts, F(n + 1)[n], n + 1)
    BY <2>1, <2>2 DEF DocumentRun
  <2>4. n + 1 \in Nat /\ n <= n + 1
    OBVIOUS
  <2>5. F(n + 1)[n] = F(n)[n]
    BY <2>1, <2>4, DocumentRunsAgree
  <2>6. QED
    BY <2>3, <2>5
<1>5. QED
  BY <1>2, <1>3, <1>4

\* A sequence without its last entry.
LEMMA FrontFacts ==
    ASSUME NEW S, NEW s \in Seq(S), s # <<>>
    PROVE  /\ Front(s) \in Seq(S) /\ Len(Front(s)) = Len(s) - 1 /\ Len(s) - 1 \in Nat
           /\ \A i \in 1 .. Len(s) - 1 : Front(s)[i] = s[i]
           /\ Last(s) \in S
<1>1. Len(s) \in Nat /\ Len(s) # 0 /\ Len(s) \in 1 .. Len(s)
  BY EmptySeq, LenProperties
<1>2. \A i \in 1 .. Len(s) : s[i] \in S
  BY ElementOfSeq
<1>3. Front(s) = SubSeq(s, 1, Len(s) - 1)
  BY DEF Front
<1>4. /\ SubSeq(s, 1, Len(s) - 1) \in Seq(S) /\ Len(SubSeq(s, 1, Len(s) - 1)) = Len(s) - 1
      /\ \A i \in 1 .. Len(s) - 1 : SubSeq(s, 1, Len(s) - 1)[i] = s[i]
  <2> DEFINE n == Len(s) - 1
  <2>1. n \in Nat /\ \A i \in 1 .. n : s[i] \in S
    BY <1>1, <1>2
  <2> HIDE DEF n
  <2>2. /\ SubSeq(s, 1, n) \in Seq(S) /\ Len(SubSeq(s, 1, n)) = n
        /\ \A i \in 1 .. n : SubSeq(s, 1, n)[i] = s[i]
    BY <2>1, SubSeqProperties
  <2>3. QED
    BY <2>2 DEF n
<1>5. Last(s) \in S
  BY <1>1, <1>2 DEF Last
<1>6. QED
  BY <1>1, <1>3, <1>4, <1>5

\* The recursion of ReduceOptions has a solution for the first n lines.
OptionsRun(f, h, lines, n) ==
    f = [i \in 0 .. n |-> IF i = 0 THEN Reduced(h, NoNode)
                          ELSE ReduceInto(f[i - 1].node, ReduceLine(f[i - 1].heap, lines[i]))]

LEMMA OptionsRuns ==
    ASSUME NEW h, NEW lines
    PROVE  \A n \in Nat : \E f : OptionsRun(f, h, lines, n)
<1> DEFINE Step(f, i) == ReduceInto(f[i - 1].node, ReduceLine(f[i - 1].heap, lines[i]))
<1> DEFINE Solved == {n \in Nat : \E f : OptionsRun(f, h, lines, n)}
<1>1. \A f, n : OptionsRun(f, h, lines, n) <=> f = [i \in 0 .. n |-> IF i = 0 THEN Reduced(h, NoNode) ELSE Step(f, i)]
  BY DEF OptionsRun
<1>2. \A f, g, i : f[i - 1] = g[i - 1] => Step(f, i) = Step(g, i)
  OBVIOUS
<1> HIDE DEF Step
<1>3. 0 \in Solved
  <2> DEFINE f == [i \in 0 .. 0 |-> Reduced(h, NoNode)]
  <2>1. f = [i \in 0 .. 0 |-> IF i = 0 THEN Reduced(h, NoNode) ELSE Step(f, i)]
    OBVIOUS
  <2> HIDE DEF f
  <2>2. QED
    BY <1>1, <2>1
<1>4. ASSUME NEW n \in Nat, n \in Solved PROVE n + 1 \in Solved
  <2>1. PICK f : f = [i \in 0 .. n |-> IF i = 0 THEN Reduced(h, NoNode) ELSE Step(f, i)]
    BY <1>1, <1>4
  <2> DEFINE g == [i \in 0 .. n + 1 |-> IF i = n + 1 THEN Step(f, i) ELSE f[i]]
  <2>2. ASSUME NEW i \in 0 .. n + 1
        PROVE  g[i] = IF i = 0 THEN Reduced(h, NoNode) ELSE Step(g, i)
    <3>1. CASE i = n + 1
      <4>1. i # 0 /\ i - 1 = n /\ g[n] = f[n] /\ g[i] = Step(f, i)
        BY <3>1
      <4> HIDE DEF g
      <4>2. QED
        BY <1>2, <4>1
    <3>2. CASE i # n + 1
      <4>1. i \in 0 .. n /\ g[i] = f[i] /\ (i # 0 => g[i - 1] = f[i - 1])
        BY <3>2
      <4>2. f[i] = IF i = 0 THEN Reduced(h, NoNode) ELSE Step(f, i)
        BY <2>1, <4>1
      <4> HIDE DEF g
      <4>3. QED
        BY <1>2, <4>1, <4>2
    <3>3. QED
      BY <3>1, <3>2
  <2>3. g = [i \in 0 .. n + 1 |-> IF i = 0 THEN Reduced(h, NoNode) ELSE Step(g, i)]
    BY <2>2
  <2> HIDE DEF g
  <2>4. QED
    BY <1>1, <2>3
<1> HIDE DEF Solved
<1>5. Nat \subseteq Solved
  BY <1>3, <1>4, SetInduction
<1>6. QED
  BY <1>5 DEF Solved

\* Runs over the same lines agree.
LEMMA OptionsRunsAgree ==
    ASSUME NEW h, NEW s, NEW n \in Nat, NEW f, OptionsRun(f, h, s, n), NEW m \in Nat, m <= n,
           NEW t, \A i \in 1 .. m : t[i] = s[i], NEW g, OptionsRun(g, h, t, m)
    PROVE  f[m] = g[m]
<1> DEFINE Same == {i \in Nat : i <= m => f[i] = g[i]}
<1>1. /\ f[0] = Reduced(h, NoNode) /\ g[0] = Reduced(h, NoNode)
      /\ \A i \in 1 .. n : f[i] = ReduceInto(f[i - 1].node, ReduceLine(f[i - 1].heap, s[i]))
      /\ \A i \in 1 .. m : g[i] = ReduceInto(g[i - 1].node, ReduceLine(g[i - 1].heap, t[i]))
  <2>1. /\ f[0] = Reduced(h, NoNode)
        /\ \A i \in 1 .. n : f[i] = ReduceInto(f[i - 1].node, ReduceLine(f[i - 1].heap, s[i]))
    <3> DEFINE E(i) == IF i = 0 THEN Reduced(h, NoNode)
                       ELSE ReduceInto(f[i - 1].node, ReduceLine(f[i - 1].heap, s[i]))
    <3>1. f = [i \in 0 .. n |-> E(i)]
      BY DEF OptionsRun
    <3>2. \A i \in 1 .. n : i # 0 /\ i \in 0 .. n
      OBVIOUS
    <3>3. E(0) = Reduced(h, NoNode) /\ 0 \in 0 .. n
      OBVIOUS
    <3>4. \A i \in 1 .. n : E(i) = ReduceInto(f[i - 1].node, ReduceLine(f[i - 1].heap, s[i]))
      BY <3>2
    <3> HIDE DEF E
    <3>5. \A i \in 0 .. n : f[i] = E(i)
      BY <3>1
    <3>6. QED
      BY <3>2, <3>3, <3>4, <3>5
  <2>2. /\ g[0] = Reduced(h, NoNode)
        /\ \A i \in 1 .. m : g[i] = ReduceInto(g[i - 1].node, ReduceLine(g[i - 1].heap, t[i]))
    <3> DEFINE E(i) == IF i = 0 THEN Reduced(h, NoNode)
                       ELSE ReduceInto(g[i - 1].node, ReduceLine(g[i - 1].heap, t[i]))
    <3>1. g = [i \in 0 .. m |-> E(i)]
      BY DEF OptionsRun
    <3>2. \A i \in 1 .. m : i # 0 /\ i \in 0 .. m
      OBVIOUS
    <3>3. E(0) = Reduced(h, NoNode) /\ 0 \in 0 .. m
      OBVIOUS
    <3>4. \A i \in 1 .. m : E(i) = ReduceInto(g[i - 1].node, ReduceLine(g[i - 1].heap, t[i]))
      BY <3>2
    <3> HIDE DEF E
    <3>5. \A i \in 0 .. m : g[i] = E(i)
      BY <3>1
    <3>6. QED
      BY <3>2, <3>3, <3>4, <3>5
  <2>3. QED
    BY <2>1, <2>2
<1>2. 0 \in Same
  BY <1>1
<1>3. ASSUME NEW i \in Nat, i \in Same PROVE i + 1 \in Same
  <2>1. SUFFICES ASSUME i + 1 <= m PROVE f[i + 1] = g[i + 1]
    OBVIOUS
  <2>2. f[i] = g[i] /\ i + 1 \in 1 .. n /\ i + 1 \in 1 .. m /\ (i + 1) - 1 = i
    BY <1>3, <2>1
  <2>3. /\ f[i + 1] = ReduceInto(f[i].node, ReduceLine(f[i].heap, s[i + 1]))
        /\ g[i + 1] = ReduceInto(g[i].node, ReduceLine(g[i].heap, t[i + 1]))
        /\ s[i + 1] = t[i + 1]
    BY <1>1, <2>2
  <2>4. QED
    BY <2>2, <2>3
<1> HIDE DEF Same
<1>4. Nat \subseteq Same
  BY <1>2, <1>3, SetInduction
<1>5. QED
  BY <1>4 DEF Same

\* One more of the lines is one step more.
LEMMA OptionsNext ==
    ASSUME NEW h, NEW S, NEW lines \in Seq(S)
    PROVE  /\ lines = <<>> => ReduceOptions(h, lines) = Reduced(h, NoNode)
           /\ lines # <<>> =>
              LET r == ReduceOptions(h, Front(lines))
              IN  ReduceOptions(h, lines) = ReduceInto(r.node, ReduceLine(r.heap, Last(lines)))
<1> DEFINE F(s) == CHOOSE f : f = [i \in 0 .. Len(s) |->
                                    IF i = 0 THEN Reduced(h, NoNode)
                                    ELSE ReduceInto(f[i - 1].node, ReduceLine(f[i - 1].heap, s[i]))]
<1>1. ASSUME NEW s, Len(s) \in Nat PROVE OptionsRun(F(s), h, s, Len(s))
  <2>1. \E f : OptionsRun(f, h, s, Len(s))
    BY <1>1, OptionsRuns
  <2>2. \E f : f = [i \in 0 .. Len(s) |->
                      IF i = 0 THEN Reduced(h, NoNode)
                      ELSE ReduceInto(f[i - 1].node, ReduceLine(f[i - 1].heap, s[i]))]
    BY <2>1 DEF OptionsRun
  <2>3. F(s) = [i \in 0 .. Len(s) |->
                   IF i = 0 THEN Reduced(h, NoNode)
                   ELSE ReduceInto(F(s)[i - 1].node, ReduceLine(F(s)[i - 1].heap, s[i]))]
    BY <2>2
  <2> HIDE DEF F
  <2>4. QED
    BY <2>3 DEF OptionsRun
<1>2. \A s : ReduceOptions(h, s) = F(s)[Len(s)]
  BY DEF ReduceOptions
<1> HIDE DEF F
<1>3. Len(lines) \in Nat
  BY LenProperties
<1>4. CASE lines = <<>>
  <2>1. Len(lines) = 0
    BY <1>4
  <2>2. F(lines)[0] = Reduced(h, NoNode)
    BY <1>1, <1>3, <2>1 DEF OptionsRun
  <2>3. QED
    BY <1>2, <1>4, <2>1, <2>2
<1>5. CASE lines # <<>>
  <2> DEFINE n == Len(lines) - 1
  <2> DEFINE front == Front(lines)
  <2>1. n \in Nat /\ Len(lines) = n + 1 /\ n \in 0 .. Len(lines)
    BY <1>3, <1>5, EmptySeq
  <2>2. Len(front) = n /\ \A i \in 1 .. n : front[i] = lines[i]
    BY <1>5, <2>1, FrontFacts
  <2> HIDE DEF n, front
  <2>3. OptionsRun(F(lines), h, lines, n + 1) /\ OptionsRun(F(front), h, front, n)
    BY <1>1, <2>1, <2>2
  <2>4. F(lines)[n + 1] = ReduceInto(F(lines)[n].node, ReduceLine(F(lines)[n].heap, lines[n + 1]))
    <3>1. n + 1 \in 0 .. n + 1 /\ n + 1 # 0 /\ (n + 1) - 1 = n
      BY <2>1
    <3>2. QED
      BY <2>3, <3>1 DEF OptionsRun
  <2>5. F(lines)[n] = F(front)[n]
    <3>1. n + 1 \in Nat /\ n <= n + 1
      BY <2>1
    <3>2. QED
      BY <2>1, <2>2, <2>3, <3>1, OptionsRunsAgree
  <2>6. Last(lines) = lines[n + 1]
    BY <2>1 DEF Last
  <2>7. ReduceOptions(h, front) = F(lines)[n] /\ ReduceOptions(h, lines) = F(lines)[n + 1]
    BY <1>2, <2>1, <2>2, <2>5
  <2>8. ReduceOptions(h, lines) = ReduceInto(ReduceOptions(h, front).node, ReduceLine(ReduceOptions(h, front).heap, Last(lines)))
    BY <2>4, <2>6, <2>7
  <2>9. QED
    BY <1>5, <2>8 DEF front
<1>6. QED
  BY <1>4, <1>5

\* The recursion of ReduceLines has a solution for the first n sections.
LinesRun(f, h, document, n) ==
    f = [i \in 0 .. n |-> IF i = 0 THEN Reduced(h, NoNode)
                          ELSE ReduceInto(f[i - 1].node, ReduceSection(f[i - 1].heap, document[i]))]

LEMMA LinesRuns ==
    ASSUME NEW h, NEW document
    PROVE  \A n \in Nat : \E f : LinesRun(f, h, document, n)
<1> DEFINE Step(f, i) == ReduceInto(f[i - 1].node, ReduceSection(f[i - 1].heap, document[i]))
<1> DEFINE Solved == {n \in Nat : \E f : LinesRun(f, h, document, n)}
<1>1. \A f, n : LinesRun(f, h, document, n) <=> f = [i \in 0 .. n |-> IF i = 0 THEN Reduced(h, NoNode) ELSE Step(f, i)]
  BY DEF LinesRun
<1>2. \A f, g, i : f[i - 1] = g[i - 1] => Step(f, i) = Step(g, i)
  OBVIOUS
<1> HIDE DEF Step
<1>3. 0 \in Solved
  <2> DEFINE f == [i \in 0 .. 0 |-> Reduced(h, NoNode)]
  <2>1. f = [i \in 0 .. 0 |-> IF i = 0 THEN Reduced(h, NoNode) ELSE Step(f, i)]
    OBVIOUS
  <2> HIDE DEF f
  <2>2. QED
    BY <1>1, <2>1
<1>4. ASSUME NEW n \in Nat, n \in Solved PROVE n + 1 \in Solved
  <2>1. PICK f : f = [i \in 0 .. n |-> IF i = 0 THEN Reduced(h, NoNode) ELSE Step(f, i)]
    BY <1>1, <1>4
  <2> DEFINE g == [i \in 0 .. n + 1 |-> IF i = n + 1 THEN Step(f, i) ELSE f[i]]
  <2>2. ASSUME NEW i \in 0 .. n + 1
        PROVE  g[i] = IF i = 0 THEN Reduced(h, NoNode) ELSE Step(g, i)
    <3>1. CASE i = n + 1
      <4>1. i # 0 /\ i - 1 = n /\ g[n] = f[n] /\ g[i] = Step(f, i)
        BY <3>1
      <4> HIDE DEF g
      <4>2. QED
        BY <1>2, <4>1
    <3>2. CASE i # n + 1
      <4>1. i \in 0 .. n /\ g[i] = f[i] /\ (i # 0 => g[i - 1] = f[i - 1])
        BY <3>2
      <4>2. f[i] = IF i = 0 THEN Reduced(h, NoNode) ELSE Step(f, i)
        BY <2>1, <4>1
      <4> HIDE DEF g
      <4>3. QED
        BY <1>2, <4>1, <4>2
    <3>3. QED
      BY <3>1, <3>2
  <2>3. g = [i \in 0 .. n + 1 |-> IF i = 0 THEN Reduced(h, NoNode) ELSE Step(g, i)]
    BY <2>2
  <2> HIDE DEF g
  <2>4. QED
    BY <1>1, <2>3
<1> HIDE DEF Solved
<1>5. Nat \subseteq Solved
  BY <1>3, <1>4, SetInduction
<1>6. QED
  BY <1>5 DEF Solved

\* Runs over the same sections agree.
LEMMA LinesRunsAgree ==
    ASSUME NEW h, NEW s, NEW n \in Nat, NEW f, LinesRun(f, h, s, n), NEW m \in Nat, m <= n,
           NEW t, \A i \in 1 .. m : t[i] = s[i], NEW g, LinesRun(g, h, t, m)
    PROVE  f[m] = g[m]
<1> DEFINE Same == {i \in Nat : i <= m => f[i] = g[i]}
<1>1. /\ f[0] = Reduced(h, NoNode) /\ g[0] = Reduced(h, NoNode)
      /\ \A i \in 1 .. n : f[i] = ReduceInto(f[i - 1].node, ReduceSection(f[i - 1].heap, s[i]))
      /\ \A i \in 1 .. m : g[i] = ReduceInto(g[i - 1].node, ReduceSection(g[i - 1].heap, t[i]))
  <2>1. /\ f[0] = Reduced(h, NoNode)
        /\ \A i \in 1 .. n : f[i] = ReduceInto(f[i - 1].node, ReduceSection(f[i - 1].heap, s[i]))
    <3> DEFINE E(i) == IF i = 0 THEN Reduced(h, NoNode)
                       ELSE ReduceInto(f[i - 1].node, ReduceSection(f[i - 1].heap, s[i]))
    <3>1. f = [i \in 0 .. n |-> E(i)]
      BY DEF LinesRun
    <3>2. \A i \in 1 .. n : i # 0 /\ i \in 0 .. n
      OBVIOUS
    <3>3. E(0) = Reduced(h, NoNode) /\ 0 \in 0 .. n
      OBVIOUS
    <3>4. \A i \in 1 .. n : E(i) = ReduceInto(f[i - 1].node, ReduceSection(f[i - 1].heap, s[i]))
      BY <3>2
    <3> HIDE DEF E
    <3>5. \A i \in 0 .. n : f[i] = E(i)
      BY <3>1
    <3>6. QED
      BY <3>2, <3>3, <3>4, <3>5
  <2>2. /\ g[0] = Reduced(h, NoNode)
        /\ \A i \in 1 .. m : g[i] = ReduceInto(g[i - 1].node, ReduceSection(g[i - 1].heap, t[i]))
    <3> DEFINE E(i) == IF i = 0 THEN Reduced(h, NoNode)
                       ELSE ReduceInto(g[i - 1].node, ReduceSection(g[i - 1].heap, t[i]))
    <3>1. g = [i \in 0 .. m |-> E(i)]
      BY DEF LinesRun
    <3>2. \A i \in 1 .. m : i # 0 /\ i \in 0 .. m
      OBVIOUS
    <3>3. E(0) = Reduced(h, NoNode) /\ 0 \in 0 .. m
      OBVIOUS
    <3>4. \A i \in 1 .. m : E(i) = ReduceInto(g[i - 1].node, ReduceSection(g[i - 1].heap, t[i]))
      BY <3>2
    <3> HIDE DEF E
    <3>5. \A i \in 0 .. m : g[i] = E(i)
      BY <3>1
    <3>6. QED
      BY <3>2, <3>3, <3>4, <3>5
  <2>3. QED
    BY <2>1, <2>2
<1>2. 0 \in Same
  BY <1>1
<1>3. ASSUME NEW i \in Nat, i \in Same PROVE i + 1 \in Same
  <2>1. SUFFICES ASSUME i + 1 <= m PROVE f[i + 1] = g[i + 1]
    OBVIOUS
  <2>2. f[i] = g[i] /\ i + 1 \in 1 .. n /\ i + 1 \in 1 .. m /\ (i + 1) - 1 = i
    BY <1>3, <2>1
  <2>3. /\ f[i + 1] = ReduceInto(f[i].node, ReduceSection(f[i].heap, s[i + 1]))
        /\ g[i + 1] = ReduceInto(g[i].node, ReduceSection(g[i].heap, t[i + 1]))
        /\ s[i + 1] = t[i + 1]
    BY <1>1, <2>2
  <2>4. QED
    BY <2>2, <2>3
<1> HIDE DEF Same
<1>4. Nat \subseteq Same
  BY <1>2, <1>3, SetInduction
<1>5. QED
  BY <1>4 DEF Same

\* One more of the sections is one step more.
LEMMA SectionsNext ==
    ASSUME NEW h, NEW S, NEW document \in Seq(S)
    PROVE  /\ document = <<>> => ReduceLines(h, document) = Reduced(h, NoNode)
           /\ document # <<>> =>
              LET r == ReduceLines(h, Front(document))
              IN  ReduceLines(h, document) = ReduceInto(r.node, ReduceSection(r.heap, Last(document)))
<1> DEFINE F(s) == CHOOSE f : f = [i \in 0 .. Len(s) |->
                                    IF i = 0 THEN Reduced(h, NoNode)
                                    ELSE ReduceInto(f[i - 1].node, ReduceSection(f[i - 1].heap, s[i]))]
<1>1. ASSUME NEW s, Len(s) \in Nat PROVE LinesRun(F(s), h, s, Len(s))
  <2>1. \E f : LinesRun(f, h, s, Len(s))
    BY <1>1, LinesRuns
  <2>2. \E f : f = [i \in 0 .. Len(s) |->
                      IF i = 0 THEN Reduced(h, NoNode)
                      ELSE ReduceInto(f[i - 1].node, ReduceSection(f[i - 1].heap, s[i]))]
    BY <2>1 DEF LinesRun
  <2>3. F(s) = [i \in 0 .. Len(s) |->
                   IF i = 0 THEN Reduced(h, NoNode)
                   ELSE ReduceInto(F(s)[i - 1].node, ReduceSection(F(s)[i - 1].heap, s[i]))]
    BY <2>2
  <2> HIDE DEF F
  <2>4. QED
    BY <2>3 DEF LinesRun
<1>2. \A s : ReduceLines(h, s) = F(s)[Len(s)]
  BY DEF ReduceLines
<1> HIDE DEF F
<1>3. Len(document) \in Nat
  BY LenProperties
<1>4. CASE document = <<>>
  <2>1. Len(document) = 0
    BY <1>4
  <2>2. F(document)[0] = Reduced(h, NoNode)
    BY <1>1, <1>3, <2>1 DEF LinesRun
  <2>3. QED
    BY <1>2, <1>4, <2>1, <2>2
<1>5. CASE document # <<>>
  <2> DEFINE n == Len(document) - 1
  <2> DEFINE front == Front(document)
  <2>1. n \in Nat /\ Len(document) = n + 1 /\ n \in 0 .. Len(document)
    BY <1>3, <1>5, EmptySeq
  <2>2. Len(front) = n /\ \A i \in 1 .. n : front[i] = document[i]
    BY <1>5, <2>1, FrontFacts
  <2> HIDE DEF n, front
  <2>3. LinesRun(F(document), h, document, n + 1) /\ LinesRun(F(front), h, front, n)
    BY <1>1, <2>1, <2>2
  <2>4. F(document)[n + 1] = ReduceInto(F(document)[n].node, ReduceSection(F(document)[n].heap, document[n + 1]))
    <3>1. n + 1 \in 0 .. n + 1 /\ n + 1 # 0 /\ (n + 1) - 1 = n
      BY <2>1
    <3>2. QED
      BY <2>3, <3>1 DEF LinesRun
  <2>5. F(document)[n] = F(front)[n]
    <3>1. n + 1 \in Nat /\ n <= n + 1
      BY <2>1
    <3>2. QED
      BY <2>1, <2>2, <2>3, <3>1, LinesRunsAgree
  <2>6. Last(document) = document[n + 1]
    BY <2>1 DEF Last
  <2>7. ReduceLines(h, front) = F(document)[n] /\ ReduceLines(h, document) = F(document)[n + 1]
    BY <1>2, <2>1, <2>2, <2>5
  <2>8. ReduceLines(h, document) = ReduceInto(ReduceLines(h, front).node, ReduceSection(ReduceLines(h, front).heap, Last(document)))
    BY <2>4, <2>6, <2>7
  <2>9. QED
    BY <1>5, <2>8 DEF front
<1>6. QED
  BY <1>4, <1>5

\* What the sections and the lines of a file are made of.
TextsOf(ts)    == {ts[i].text : i \in DOMAIN ts} \cup {NoString}
LinesIn(ts)    == [kind : {"option", "list"}, name : TextsOf(ts), value : TextsOf(ts)]
SectionsIn(ts) == [type : TextsOf(ts), name : TextsOf(ts), lines : Seq(LinesIn(ts))]

\* A sequence with its length.
Sized(ts) == Len(ts) \in Nat /\ DOMAIN ts = 1 .. Len(ts)

\* The last entry and the others, after an entry was added.
LEMMA AppendFront ==
    ASSUME NEW S, NEW s \in Seq(S), NEW e \in S
    PROVE  /\ Append(s, e) \in Seq(S) /\ Append(s, e) # <<>>
           /\ Front(Append(s, e)) = s /\ Last(Append(s, e)) = e
<1> DEFINE t == Append(s, e)
<1>1. /\ t \in Seq(S) /\ Len(t) = Len(s) + 1 /\ Len(s) \in Nat
      /\ \A i \in 1 .. Len(s) : t[i] = s[i]
      /\ t[Len(s) + 1] = e
  BY AppendProperties, LenProperties
<1> HIDE DEF t
<1>2. t # <<>>
  BY <1>1, EmptySeq
<1>3. Last(t) = e
  BY <1>1 DEF Last
<1>4. /\ Front(t) \in Seq(S) /\ Len(Front(t)) = Len(s)
      /\ \A i \in 1 .. Len(s) : Front(t)[i] = s[i]
  <2>1. /\ Front(t) \in Seq(S) /\ Len(Front(t)) = Len(t) - 1
        /\ \A i \in 1 .. Len(t) - 1 : Front(t)[i] = t[i]
    BY <1>1, <1>2, FrontFacts
  <2>2. Len(t) - 1 = Len(s)
    BY <1>1
  <2>3. QED
    BY <1>1, <2>1, <2>2
<1>5. Front(t) = s
  BY <1>4, SeqEqual
<1>6. QED
  BY <1>1, <1>2, <1>3, <1>5 DEF t

\* A word of a file.
LEMMA WordTyped ==
    ASSUME NEW ts, Sized(ts), NEW k \in Nat, NEW w \in {1, 2}
    PROVE  Word(ts, k, w) \in TextsOf(ts)
<1>1. k + w <= Len(ts) => k + w \in DOMAIN ts
  BY DEF Sized
<1>2. QED
  BY <1>1 DEF Word, TextsOf

LEMMA LineTyped ==
    ASSUME NEW ts, Sized(ts), NEW k \in Nat
    PROVE  LineAt(ts, k) \in LinesIn(ts)
<1>1. Word(ts, k, 1) \in TextsOf(ts) /\ Word(ts, k, 2) \in TextsOf(ts)
  BY WordTyped
<1>2. QED
  BY <1>1 DEF LineAt, Line, LinesIn

\* What a token adds, when it is no line, a section, or a line of a section.
LEMMA AddsNothing ==
    ASSUME NEW ts, NEW n \in Nat, ts[n + 1].kind \notin {"CONFIG", "OPTION", "LIST"}
    PROVE  DocumentUpTo(ts, n + 1) = DocumentUpTo(ts, n)
BY DocumentNext DEF Extended

LEMMA LineOfNothing ==
    ASSUME NEW ts, NEW n \in Nat, DocumentUpTo(ts, n) = <<>>, ts[n + 1].kind # "CONFIG"
    PROVE  DocumentUpTo(ts, n + 1) = <<>>
BY DocumentNext DEF Extended

\* The last entry of a sequence is replaced.
LEMMA ReplacedLast ==
    ASSUME NEW S, NEW s \in Seq(S), s # <<>>, NEW e \in S,
           NEW t, t = [s EXCEPT ![Len(s)] = e]
    PROVE  t \in Seq(S) /\ t # <<>> /\ Front(t) = Front(s) /\ Last(t) = e
<1>1. Len(s) \in Nat /\ Len(s) # 0 /\ DOMAIN s = 1 .. Len(s) /\ Len(s) \in 1 .. Len(s)
  BY EmptySeq, LenProperties
<1>2. DOMAIN t = 1 .. Len(s) /\ t[Len(s)] = e /\ \A i \in 1 .. Len(s) : i # Len(s) => t[i] = s[i]
  BY <1>1
<1>3. \A i \in 1 .. Len(s) : t[i] \in S
  BY <1>1, <1>2, ElementOfSeq
<1>4. t \in Seq(S) /\ Len(t) = Len(s)
  BY <1>1, ExceptSeq
<1>6. t # <<>> /\ Last(t) = e
  <2>1. t # <<>>
    BY <1>1, <1>4, EmptySeq
  <2>2. QED
    BY <1>2, <1>4, <2>1 DEF Last
<1>7. /\ Front(t) \in Seq(S) /\ Len(Front(t)) = Len(s) - 1
      /\ \A i \in 1 .. Len(s) - 1 : Front(t)[i] = t[i]
  BY <1>4, <1>6, FrontFacts
<1>8. /\ Front(s) \in Seq(S) /\ Len(Front(s)) = Len(s) - 1
      /\ \A i \in 1 .. Len(s) - 1 : Front(s)[i] = s[i]
  BY FrontFacts
<1>9. ASSUME NEW i \in 1 .. Len(s) - 1 PROVE t[i] = s[i]
  <2>1. \A n \in Nat : \A k \in 1 .. n - 1 : k \in 1 .. n /\ k # n
    OBVIOUS
  <2>2. QED
    BY <1>1, <1>2, <2>1
<1>10. Front(t) = Front(s)
  <2> DEFINE f == Front(t)
  <2> DEFINE g == Front(s)
  <2>1. f \in Seq(S) /\ g \in Seq(S) /\ Len(f) = Len(g) /\ \A i \in 1 .. Len(f) : f[i] = g[i]
    BY <1>7, <1>8, <1>9
  <2> HIDE DEF f, g
  <2>2. f = g
    BY <2>1, SeqEqual
  <2>3. QED
    BY <2>2 DEF f, g
<1>11. QED
  BY <1>4, <1>6, <1>10

\* The document of n tokens, and what each further token adds to it.
DocumentGood(ts, n) == DocumentUpTo(ts, n) \in Seq(SectionsIn(ts))

BeginsSection(ts, n) ==
    /\ DocumentUpTo(ts, n + 1) # <<>>
    /\ Front(DocumentUpTo(ts, n + 1)) = DocumentUpTo(ts, n)
    /\ Last(DocumentUpTo(ts, n + 1)) = Section(Word(ts, n + 1, 1), Word(ts, n + 1, 2), <<>>)

AddsToSection(ts, n) ==
    /\ DocumentUpTo(ts, n + 1) # <<>>
    /\ Front(DocumentUpTo(ts, n + 1)) = Front(DocumentUpTo(ts, n))
    /\ LET c == Last(DocumentUpTo(ts, n))
       IN  Last(DocumentUpTo(ts, n + 1)) = Section(c.type, c.name, Append(c.lines, LineAt(ts, n + 1)))

LEMMA SectionBegins ==
    ASSUME NEW ts, Sized(ts), NEW n \in Nat, DocumentGood(ts, n), ts[n + 1].kind = "CONFIG"
    PROVE  DocumentGood(ts, n + 1) /\ BeginsSection(ts, n)
<1> DEFINE S == SectionsIn(ts)
<1> DEFINE d == DocumentUpTo(ts, n)
<1> DEFINE e == Section(Word(ts, n + 1, 1), Word(ts, n + 1, 2), <<>>)
<1>1. d \in Seq(S) /\ DocumentUpTo(ts, n + 1) = Extended(ts, d, n + 1)
  BY DocumentNext DEF DocumentGood
<1>2. e \in S
  <2>1. n + 1 \in Nat
    OBVIOUS
  <2>2. Word(ts, n + 1, 1) \in TextsOf(ts) /\ Word(ts, n + 1, 2) \in TextsOf(ts)
    BY <2>1, WordTyped
  <2>3. <<>> \in Seq(LinesIn(ts))
    BY EmptySeq
  <2>4. QED
    BY <2>2, <2>3 DEF Section, SectionsIn
<1>3. Extended(ts, d, n + 1) = Append(d, e)
  BY DEF Extended
<1> HIDE DEF S, d, e
<1>4. Append(d, e) \in Seq(S) /\ Append(d, e) # <<>> /\ Front(Append(d, e)) = d /\ Last(Append(d, e)) = e
  BY <1>1, <1>2, AppendFront
<1>5. QED
  BY <1>1, <1>3, <1>4 DEF DocumentGood, BeginsSection, S, d, e

LEMMA LineAdded ==
    ASSUME NEW ts, Sized(ts), NEW n \in Nat, DocumentGood(ts, n),
           ts[n + 1].kind \in {"OPTION", "LIST"}, DocumentUpTo(ts, n) # <<>>
    PROVE  DocumentGood(ts, n + 1) /\ AddsToSection(ts, n)
<1> DEFINE S == SectionsIn(ts)
<1> DEFINE d == DocumentUpTo(ts, n)
<1> DEFINE c == d[Len(d)]
<1> DEFINE l == Append(c.lines, LineAt(ts, n + 1))
<1> DEFINE e == Section(c.type, c.name, l)
<1>1. d \in Seq(S) /\ DocumentUpTo(ts, n + 1) = Extended(ts, d, n + 1)
  BY DocumentNext DEF DocumentGood
<1>2. Len(d) \in 1 .. Len(d) /\ c \in S
  BY <1>1, EmptySeq, ElementOfSeq
<1>3. c.lines \in Seq(LinesIn(ts)) /\ c.type \in TextsOf(ts) /\ c.name \in TextsOf(ts)
      /\ c = [type |-> c.type, name |-> c.name, lines |-> c.lines]
  BY <1>2 DEF SectionsIn
<1>4. l \in Seq(LinesIn(ts))
  <2>1. n + 1 \in Nat
    OBVIOUS
  <2>2. LineAt(ts, n + 1) \in LinesIn(ts)
    BY <2>1, LineTyped
  <2>3. QED
    BY <1>3, <2>2, AppendFront
<1>5. Extended(ts, d, n + 1) = [d EXCEPT ![Len(d)].lines = l]
  BY DEF Extended
<1> HIDE DEF c, l
<1>6. [d EXCEPT ![Len(d)].lines = l] = [d EXCEPT ![Len(d)] = [c EXCEPT !.lines = l]]
  BY DEF c
<1>7. [c EXCEPT !.lines = l] = e
  BY <1>3 DEF Section
<1>8. e \in S
  BY <1>3, <1>4 DEF Section, SectionsIn
<1> HIDE DEF S, e
<1> DEFINE t == [d EXCEPT ![Len(d)] = e]
<1>9. t \in Seq(S) /\ t # <<>> /\ Front(t) = Front(d) /\ Last(t) = e
  <2>1. d # <<>>
    OBVIOUS
  <2> HIDE DEF d
  <2>2. QED
    BY <1>1, <1>8, <2>1, ReplacedLast
<1>10. DocumentUpTo(ts, n + 1) = t
  BY <1>1, <1>5, <1>6, <1>7
<1> HIDE DEF t
<1>11. c = Last(DocumentUpTo(ts, n))
  BY DEF c, Last
<1>12. QED
  BY <1>9, <1>10, <1>11 DEF DocumentGood, AddsToSection, S, d, e, l

\* The document of the first tokens is one of sections with lines.
LEMMA DocumentTyped ==
    ASSUME NEW ts, Sized(ts)
    PROVE  \A n \in Nat : DocumentGood(ts, n)
<1> DEFINE Good == {n \in Nat : DocumentGood(ts, n)}
<1>1. 0 \in Good
  <2>1. DocumentUpTo(ts, 0) = <<>>
    BY DocumentNext
  <2>2. QED
    BY <2>1, EmptySeq DEF DocumentGood
<1>2. ASSUME NEW n \in Nat, n \in Good PROVE n + 1 \in Good
  <2>1. DocumentGood(ts, n)
    BY <1>2
  <2>2. ts[n + 1].kind = "CONFIG" => DocumentGood(ts, n + 1)
    BY <2>1, SectionBegins
  <2>3. ts[n + 1].kind \in {"OPTION", "LIST"} /\ DocumentUpTo(ts, n) # <<>> => DocumentGood(ts, n + 1)
    BY <2>1, LineAdded
  <2>4. ts[n + 1].kind \notin {"CONFIG", "OPTION", "LIST"} => DocumentGood(ts, n + 1)
    BY <2>1, AddsNothing DEF DocumentGood
  <2>5. ts[n + 1].kind # "CONFIG" /\ DocumentUpTo(ts, n) = <<>> => DocumentGood(ts, n + 1)
    BY <2>1, LineOfNothing DEF DocumentGood
  <2>6. QED
    BY <2>2, <2>3, <2>4, <2>5
<1> HIDE DEF Good
<1>3. Nat \subseteq Good
  BY <1>1, <1>2, SetInduction
<1>4. QED
  BY <1>3 DEF Good

-----------------------------------------------------------------------------
(***************************************************************************)
(* What the abstract parser has made of the lines d that have been read of  *)
(* the file ts: the last of d is the section that is being read, and the    *)
(* last of its lines may be.                                               *)
(***************************************************************************)

\* The package node.
Start(ts) == IF PackageOf(ts) = NoString THEN Reduced(<<>>, NoNode) ELSE ReducePackage(<<>>, PackageOf(ts))

\* The list of the sections without the last one, and with it.
Before(ts, d) == ReduceLines(Start(ts).heap, Front(d))
After(ts, d)  == ReduceLines(Start(ts).heap, d)

\* The list of the lines of the last section without the last line, and with it.
LinesBefore(ts, d) == ReduceOptions(Before(ts, d).heap, Front(Last(d).lines))
LinesAfter(ts, d)  == ReduceOptions(Before(ts, d).heap, Last(d).lines)

\* The last line, and the last section.
LineMade(ts, d)    == ReduceLine(LinesBefore(ts, d).heap, Last(Last(d).lines))
SectionMade(ts, d) == ReduceSection(Before(ts, d).heap, Last(d))

\* Document d of a file.
Documents(ts) == Seq(SectionsIn(ts))

LEMMA LastSection ==
    ASSUME NEW ts, NEW d \in Documents(ts), d # <<>>
    PROVE  /\ Last(d).lines \in Seq(LinesIn(ts))
           /\ Front(d) \in Documents(ts)
<1>1. Front(d) \in Documents(ts) /\ Last(d) \in SectionsIn(ts)
  BY FrontFacts DEF Documents
<1>2. QED
  BY <1>1 DEF SectionsIn

LEMMA NoSections ==
    ASSUME NEW ts, NEW d, d = <<>>
    PROVE  After(ts, d).heap = Start(ts).heap /\ After(ts, d).node = NoNode
<1>1. <<>> \in Seq(SectionsIn(ts))
  BY EmptySeq
<1>2. ReduceLines(Start(ts).heap, <<>>) = Reduced(Start(ts).heap, NoNode)
  BY <1>1, SectionsNext
<1>3. QED
  BY <1>2 DEF After, Reduced

LEMMA NextSection ==
    ASSUME NEW ts, NEW d \in Documents(ts), d # <<>>
    PROVE  After(ts, d) = ReduceInto(Before(ts, d).node, SectionMade(ts, d))
BY SectionsNext DEF After, Before, SectionMade, Documents

LEMMA NoLines ==
    ASSUME NEW ts, NEW d \in Documents(ts), d # <<>>, Last(d).lines = <<>>
    PROVE  LinesAfter(ts, d).heap = Before(ts, d).heap /\ LinesAfter(ts, d).node = NoNode
<1>1. <<>> \in Seq(LinesIn(ts))
  BY EmptySeq
<1>2. ReduceOptions(Before(ts, d).heap, <<>>) = Reduced(Before(ts, d).heap, NoNode)
  BY <1>1, OptionsNext
<1>3. QED
  BY <1>2 DEF LinesAfter, Reduced

LEMMA NextLine ==
    ASSUME NEW ts, NEW d \in Documents(ts), d # <<>>, Last(d).lines # <<>>
    PROVE  LinesAfter(ts, d) = ReduceInto(LinesBefore(ts, d).node, LineMade(ts, d))
<1>1. Last(d).lines \in Seq(LinesIn(ts))
  BY LastSection
<1>2. QED
  BY <1>1, OptionsNext DEF LinesAfter, LinesBefore, LineMade

LEMMA SectionIsConfig ==
    ASSUME NEW ts, NEW d
    PROVE  SectionMade(ts, d) = ReduceConfig(LinesAfter(ts, d).heap, Last(d).type, Last(d).name,
                                             LinesAfter(ts, d).node)
BY DEF SectionMade, ReduceSection, LinesAfter

-----------------------------------------------------------------------------
(***************************************************************************)
(* The marks: each entry of the stack stands for the tokens after the mark *)
(* of the one below, up to its own.                                        *)
(***************************************************************************)

\* From c to d the section that is being read stays the same.
Continues(c, d) ==
    /\ c # <<>> /\ d # <<>> /\ Front(d) = Front(c)
    /\ Last(d).type = Last(c).type /\ Last(d).name = Last(c).name

\* From c to d one line was added to the section, from n tokens to n + 1 this is token n + 1.
OneLine(c, d) == Continues(c, d) /\ Last(d).lines # <<>> /\ Front(Last(d).lines) = Last(c).lines

\* An entry of state q and value v on one of state p stands for the tokens a + 1 .. b of ts.
Covers(p, q, v, ts, a, b) ==
    LET c == DocumentUpTo(ts, a)
        d == DocumentUpTo(ts, b)
    IN  /\ q = 1 => b = a + 1 /\ BeginsSection(ts, a)
        /\ q = 2 => a = 0 /\ b = 1 /\ ts[1].kind = "PACKAGE"
        /\ q \in {14, 15} => /\ b = a + 1 /\ c # <<>> /\ AddsToSection(ts, a)
                             /\ ts[b].kind = IF q = 14 THEN "OPTION" ELSE "LIST"
        /\ q \in {8, 9, 13, 19, 20, 22, 23} =>
              b = a + 1 /\ v = b /\ b <= Len(ts) /\ ts[b].kind = "VALUE" /\ d = c
        /\ q \in {1, 8, 13} => d # <<>> /\ Last(d).lines = <<>>
        /\ q = 4 => v = Start(ts).node /\ d = <<>>
        /\ q \in {5, 11} => v = After(ts, d).node /\ d # <<>>
        /\ q \in {6, 7, 12} => v = SectionMade(ts, d).node /\ d # <<>> /\ Front(d) = c
        /\ q \in {16, 17, 18, 21} => ts[a + 1].kind \in {"OPTION", "LIST"}
        /\ q \in {16, 18} => Continues(c, d) /\ v = LinesAfter(ts, d).node
        /\ q \in {17, 21} => OneLine(c, d) /\ v = LineMade(ts, d).node
        /\ p = 0 /\ q \notin {2, 3, 4} => PackageOf(ts) = NoString

\* The heap when state q is on top.
Holds(h, q, ts, d) ==
    /\ q \in {0, 2, 9} => h = <<>>
    /\ q = 4 => h = Start(ts).heap
    /\ q \in {1, 8, 13} => h = Before(ts, d).heap
    /\ q \in {5, 11} => h = After(ts, d).heap
    /\ q \in {14, 15, 19, 20, 22, 23} => h = LinesBefore(ts, d).heap
    /\ q \in {16, 18} => h = LinesAfter(ts, d).heap
    /\ q \in {17, 21} => h = LineMade(ts, d).heap
    /\ q \in {6, 7, 12} => h = SectionMade(ts, d).heap
    /\ q \in {3, 10} => /\ d # <<>>
                        /\ h = ReduceRoot(After(ts, d).heap, Start(ts).node, After(ts, d).node).heap

\* What the heap holds, by the state on top.
LEMMA HoldsNothing ==
    ASSUME NEW q \in {0, 2, 9}, NEW h, NEW ts, NEW d
    PROVE  Holds(h, q, ts, d) <=> h = <<>>
<1>1. CASE q = 0
  BY <1>1 DEF Holds
<1>2. CASE q = 2
  BY <1>2 DEF Holds
<1>3. CASE q = 9
  BY <1>3 DEF Holds
<1>4. QED
  BY <1>1, <1>2, <1>3

LEMMA HoldsBefore ==
    ASSUME NEW q \in {1, 8, 13}, NEW h, NEW ts, NEW d
    PROVE  Holds(h, q, ts, d) <=> h = Before(ts, d).heap
<1>1. CASE q = 1
  BY <1>1 DEF Holds
<1>2. CASE q = 8
  BY <1>2 DEF Holds
<1>3. CASE q = 13
  BY <1>3 DEF Holds
<1>4. QED
  BY <1>1, <1>2, <1>3

LEMMA HoldsAfter ==
    ASSUME NEW q \in {5, 11}, NEW h, NEW ts, NEW d
    PROVE  Holds(h, q, ts, d) <=> h = After(ts, d).heap
<1>1. CASE q = 5
  BY <1>1 DEF Holds
<1>2. CASE q = 11
  BY <1>2 DEF Holds
<1>3. QED
  BY <1>1, <1>2

LEMMA HoldsLinesBefore ==
    ASSUME NEW q \in {14, 15, 19, 20, 22, 23}, NEW h, NEW ts, NEW d
    PROVE  Holds(h, q, ts, d) <=> h = LinesBefore(ts, d).heap
<1>1. CASE q = 14
  BY <1>1 DEF Holds
<1>2. CASE q = 15
  BY <1>2 DEF Holds
<1>3. CASE q = 19
  BY <1>3 DEF Holds
<1>4. CASE q = 20
  BY <1>4 DEF Holds
<1>5. CASE q = 22
  BY <1>5 DEF Holds
<1>6. CASE q = 23
  BY <1>6 DEF Holds
<1>7. QED
  BY <1>1, <1>2, <1>3, <1>4, <1>5, <1>6

LEMMA HoldsLinesAfter ==
    ASSUME NEW q \in {16, 18}, NEW h, NEW ts, NEW d
    PROVE  Holds(h, q, ts, d) <=> h = LinesAfter(ts, d).heap
<1>1. CASE q = 16
  BY <1>1 DEF Holds
<1>2. CASE q = 18
  BY <1>2 DEF Holds
<1>3. QED
  BY <1>1, <1>2

LEMMA HoldsLine ==
    ASSUME NEW q \in {17, 21}, NEW h, NEW ts, NEW d
    PROVE  Holds(h, q, ts, d) <=> h = LineMade(ts, d).heap
<1>1. CASE q = 17
  BY <1>1 DEF Holds
<1>2. CASE q = 21
  BY <1>2 DEF Holds
<1>3. QED
  BY <1>1, <1>2

LEMMA HoldsSection ==
    ASSUME NEW q \in {6, 7, 12}, NEW h, NEW ts, NEW d
    PROVE  Holds(h, q, ts, d) <=> h = SectionMade(ts, d).heap
<1>1. CASE q = 6
  BY <1>1 DEF Holds
<1>2. CASE q = 7
  BY <1>2 DEF Holds
<1>3. CASE q = 12
  BY <1>3 DEF Holds
<1>4. QED
  BY <1>1, <1>2, <1>3

LEMMA HoldsRoot ==
    ASSUME NEW q \in {3, 10}, NEW h, NEW ts, NEW d
    PROVE  Holds(h, q, ts, d) <=> /\ d # <<>>
                                  /\ h = ReduceRoot(After(ts, d).heap, Start(ts).node, After(ts, d).node).heap
<1>1. CASE q = 3
  BY <1>1 DEF Holds
<1>2. CASE q = 10
  BY <1>2 DEF Holds
<1>3. QED
  BY <1>1, <1>2

\* The marks m of the stack s when n tokens have been shifted.
Marked(s, m, ts, n) ==
    /\ m \in [1 .. Len(s) -> Nat] /\ m[1] = 0 /\ m[Len(s)] = n
    /\ \A k \in 2 .. Len(s) : Covers(s[k - 1].state, s[k].state, s[k].value, ts, m[k - 1], m[k])

\* ts is a file that begins with the tokens us.
Prolongs(ts, us) ==
    /\ Sized(ts) /\ Len(us) \in Nat /\ Len(us) <= Len(ts)
    /\ \A i \in 1 .. Len(us) : ts[i] = us[i]

\* A section that begins.
LEMMA BegunSection ==
    ASSUME NEW ts, NEW n \in Nat, BeginsSection(ts, n)
    PROVE  LET d == DocumentUpTo(ts, n + 1)
           IN  /\ d # <<>> /\ Front(d) = DocumentUpTo(ts, n) /\ Last(d).lines = <<>>
               /\ Last(d).type = Word(ts, n + 1, 1) /\ Last(d).name = Word(ts, n + 1, 2)
               /\ Before(ts, d) = After(ts, DocumentUpTo(ts, n))
BY DEF BeginsSection, Section, Before, After

\* A line that is added.
LEMMA AddedLine ==
    ASSUME NEW ts, Sized(ts), NEW n \in Nat, DocumentUpTo(ts, n) # <<>>, AddsToSection(ts, n)
    PROVE  LET c == DocumentUpTo(ts, n)
               d == DocumentUpTo(ts, n + 1)
           IN  /\ OneLine(c, d) /\ Last(Last(d).lines) = LineAt(ts, n + 1)
<1> DEFINE c == DocumentUpTo(ts, n)
<1> DEFINE d == DocumentUpTo(ts, n + 1)
<1>1. /\ d # <<>> /\ Front(d) = Front(c)
      /\ Last(d) = Section(Last(c).type, Last(c).name, Append(Last(c).lines, LineAt(ts, n + 1)))
  BY DEF AddsToSection
<1>2. c \in Documents(ts) /\ c # <<>>
  BY DocumentTyped DEF Documents, DocumentGood
<1> HIDE DEF c, d
<1>3. Last(c).lines \in Seq(LinesIn(ts))
  BY <1>2, LastSection
<1>4. LineAt(ts, n + 1) \in LinesIn(ts)
  <2>1. n + 1 \in Nat
    OBVIOUS
  <2>2. QED
    BY <2>1, LineTyped
<1> DEFINE l == Append(Last(c).lines, LineAt(ts, n + 1))
<1>5. l # <<>> /\ Front(l) = Last(c).lines /\ Last(l) = LineAt(ts, n + 1)
  BY <1>3, <1>4, AppendFront
<1>6. Last(d).lines = l /\ Last(d).type = Last(c).type /\ Last(d).name = Last(c).name
  BY <1>1 DEF Section
<1> HIDE DEF l
<1>7. OneLine(c, d) /\ Last(Last(d).lines) = LineAt(ts, n + 1)
  BY <1>1, <1>2, <1>5, <1>6 DEF OneLine, Continues
<1>8. QED
  BY <1>7 DEF c, d

\* The lines before the one that was added.
LEMMA LinesBeforeLine ==
    ASSUME NEW ts, NEW c, NEW d, OneLine(c, d)
    PROVE  LinesBefore(ts, d) = LinesAfter(ts, c) /\ Before(ts, d) = Before(ts, c)
BY DEF OneLine, Continues, LinesBefore, LinesAfter, Before

-----------------------------------------------------------------------------
(***************************************************************************)
(* A token is shifted.                                                     *)
(***************************************************************************)

\* In state p the entry on top stands for the tokens up to n, and h is the heap.
OnTop(h, p, ts, n) ==
    /\ Holds(h, p, ts, DocumentUpTo(ts, n))
    /\ p = 0 => n = 0
    /\ p # 0 => \E below, v : \E a \in Nat : Covers(below, p, v, ts, a, n)

\* What the shifted token leaves on top.
Pushed(h, p, q, v, ts, n) ==
    Covers(p, q, v, ts, n, n + 1) /\ Holds(h, q, ts, DocumentUpTo(ts, n + 1))

LEMMA ConfigMeans ==
    ASSUME NEW ts, Sized(ts), NEW n \in Nat, NEW p \in {0, 4, 5, 11}, NEW h, OnTop(h, p, ts, n),
           ts[n + 1].kind = "CONFIG", NEW v
    PROVE  Pushed(h, p, 1, v, ts, n)
<1> DEFINE c == DocumentUpTo(ts, n)
<1> DEFINE d == DocumentUpTo(ts, n + 1)
<1>1. BeginsSection(ts, n)
  BY DocumentTyped, SectionBegins
<1>2. d # <<>> /\ Last(d).lines = <<>> /\ Before(ts, d) = After(ts, c)
  BY <1>1, BegunSection
<1>3. p = 0 => PackageOf(ts) = NoString
  <2>1. HAVE p = 0
  <2>2. n = 0
    BY <2>1 DEF OnTop
  <2>3. n + 1 = 1
    BY <2>2
  <2>4. ts[1].kind = "CONFIG"
    BY <2>3
  <2>5. QED
    BY <2>4 DEF PackageOf
<1>4. h = After(ts, c).heap
  <2>1. CASE p = 0
    <3>1. n = 0 /\ h = <<>>
      BY <2>1 DEF OnTop, Holds
    <3>2. c = <<>>
      BY <3>1, DocumentNext
    <3>3. Start(ts).heap = <<>>
      BY <1>3, <2>1 DEF Start, Reduced
    <3>4. QED
      BY <3>1, <3>2, <3>3, NoSections
  <2>2. CASE p = 4
    <3>1. h = Start(ts).heap /\ c = <<>>
      BY <2>2 DEF OnTop, Holds, Covers
    <3>2. QED
      BY <3>1, NoSections
  <2>3. CASE p \in {5, 11}
    BY <2>3 DEF OnTop, Holds
  <2>4. QED
    BY <2>1, <2>2, <2>3
<1> HIDE DEF c, d
<1>5. Covers(p, 1, v, ts, n, n + 1)
  BY <1>1, <1>2, <1>3 DEF Covers, d
<1>6. Holds(h, 1, ts, d)
  BY <1>2, <1>4 DEF Holds
<1>7. QED
  BY <1>5, <1>6 DEF Pushed, d

LEMMA PackageMeans ==
    ASSUME NEW ts, Sized(ts), NEW n \in Nat, NEW h, OnTop(h, 0, ts, n),
           ts[n + 1].kind = "PACKAGE", NEW v
    PROVE  Pushed(h, 0, 2, v, ts, n)
<1>1. n = 0 /\ h = <<>>
  BY DEF OnTop, Holds
<1>2. n + 1 = 1
  BY <1>1
<1>3. ts[1].kind = "PACKAGE"
  BY <1>2
<1>4. Covers(0, 2, v, ts, n, n + 1)
  BY <1>1, <1>2, <1>3 DEF Covers
<1>5. Holds(h, 2, ts, DocumentUpTo(ts, n + 1))
  BY <1>1 DEF Holds
<1>6. QED
  BY <1>4, <1>5 DEF Pushed

LEMMA LineMeans ==
    ASSUME NEW ts, Sized(ts), NEW n \in Nat, NEW p \in {8, 13, 16, 18}, NEW h, OnTop(h, p, ts, n),
           NEW q \in {14, 15}, ts[n + 1].kind = (IF q = 14 THEN "OPTION" ELSE "LIST"), NEW v
    PROVE  Pushed(h, p, q, v, ts, n)
<1> DEFINE c == DocumentUpTo(ts, n)
<1> DEFINE d == DocumentUpTo(ts, n + 1)
<1>1. c # <<>> /\ (p \in {8, 13} => Last(c).lines = <<>>)
  BY DEF OnTop, Covers, Continues
<1>2. AddsToSection(ts, n)
  BY <1>1, DocumentTyped, LineAdded
<1>3. OneLine(c, d)
  BY <1>1, <1>2, AddedLine
<1>4. c \in Documents(ts)
  BY DocumentTyped DEF Documents, DocumentGood
<1>5. Holds(h, p, ts, c)
  BY DEF OnTop
<1> HIDE DEF c, d
<1>6. h = LinesAfter(ts, c).heap
  <2>1. CASE p \in {8, 13}
    <3>1. p \in {1, 8, 13}
      BY <2>1
    <3>2. h = Before(ts, c).heap
      BY <1>5, <3>1, HoldsBefore
    <3>3. QED
      BY <1>1, <1>4, <2>1, <3>2, NoLines
  <2>2. CASE p \in {16, 18}
    BY <1>5, <2>2, HoldsLinesAfter
  <2>3. QED
    BY <2>1, <2>2
<1>7. h = LinesBefore(ts, d).heap
  BY <1>3, <1>6, LinesBeforeLine
<1>8. Covers(p, q, v, ts, n, n + 1)
  BY <1>1, <1>2 DEF Covers, c
<1>9. Holds(h, q, ts, d)
  <2>1. q \in {14, 15, 19, 20, 22, 23}
    OBVIOUS
  <2>2. QED
    BY <1>7, <2>1, HoldsLinesBefore
<1>10. QED
  BY <1>8, <1>9 DEF Pushed, d

LEMMA WordMeans ==
    ASSUME NEW ts, Sized(ts), NEW n \in Nat, n + 1 <= Len(ts), NEW q \in {8, 9, 13, 19, 20, 22, 23},
           NEW p, /\ (q = 8 => p = 1) /\ (q = 9 => p = 2) /\ (q = 13 => p = 8) /\ (q = 19 => p = 14)
                  /\ (q = 20 => p = 15) /\ (q = 22 => p = 19) /\ (q = 23 => p = 20),
           NEW h, OnTop(h, p, ts, n), ts[n + 1].kind = "VALUE"
    PROVE  Pushed(h, p, q, n + 1, ts, n)
<1> DEFINE c == DocumentUpTo(ts, n)
<1> DEFINE d == DocumentUpTo(ts, n + 1)
<1>1. d = c
  BY AddsNothing
<1>2. Holds(h, p, ts, c) /\ p # 0
  BY DEF OnTop
<1>3. q \in {8, 13} => c # <<>> /\ Last(c).lines = <<>>
  BY DEF OnTop, Covers
<1> HIDE DEF c, d
<1>4. Covers(p, q, n + 1, ts, n, n + 1)
  BY <1>1, <1>2, <1>3 DEF Covers, c, d
<1>5. Holds(h, q, ts, d)
  <2>1. CASE q \in {8, 13}
    <3>1. p \in {1, 8, 13} /\ q \in {1, 8, 13}
      BY <2>1
    <3>2. h = Before(ts, c).heap
      BY <1>2, <3>1, HoldsBefore
    <3>3. QED
      BY <1>1, <3>1, <3>2, HoldsBefore
  <2>2. CASE q = 9
    <3>1. h = <<>>
      BY <1>2, <2>2 DEF Holds
    <3>2. QED
      BY <2>2, <3>1 DEF Holds
  <2>3. CASE q \in {19, 20, 22, 23}
    <3>1. p \in {14, 15, 19, 20, 22, 23} /\ q \in {14, 15, 19, 20, 22, 23}
      BY <2>3
    <3>2. h = LinesBefore(ts, c).heap
      BY <1>2, <3>1, HoldsLinesBefore
    <3>3. QED
      BY <1>1, <3>1, <3>2, HoldsLinesBefore
  <2>4. QED
    BY <2>1, <2>2, <2>3
<1>6. QED
  BY <1>4, <1>5 DEF Pushed, d

LEMMA EndMeans ==
    ASSUME NEW ts, Sized(ts), NEW n \in Nat, NEW h, OnTop(h, 3, ts, n), ts[n + 1].kind = "EOF", NEW v
    PROVE  Pushed(h, 3, 10, v, ts, n)
<1> DEFINE c == DocumentUpTo(ts, n)
<1> DEFINE d == DocumentUpTo(ts, n + 1)
<1>1. d = c /\ Holds(h, 3, ts, c)
  BY AddsNothing DEF OnTop
<1> HIDE DEF c, d
<1>2. Holds(h, 10, ts, d)
  BY <1>1 DEF Holds
<1>3. Covers(3, 10, v, ts, n, n + 1)
  BY DEF Covers
<1>4. QED
  BY <1>2, <1>3 DEF Pushed, d

LEMMA ShiftMeans ==
    ASSUME NEW ts, Sized(ts), NEW n \in Nat, n + 1 <= Len(ts),
           NEW p \in States, NEW q \in States, p \in At(Beneath, q),
           NEW c \in TokenKinds, ts[n + 1].kind = c, At(yystos, q) = YYTRANSLATE[c],
           NEW h, OnTop(h, p, ts, n), NEW v, c = "VALUE" => v = n + 1
    PROVE  Pushed(h, p, q, v, ts, n)
<1>1. /\ YYTRANSLATE["EOF"] = 0 /\ YYTRANSLATE["VALUE"] = 3 /\ YYTRANSLATE["CONFIG"] = 4
      /\ YYTRANSLATE["OPTION"] = 5 /\ YYTRANSLATE["LIST"] = 6 /\ YYTRANSLATE["PACKAGE"] = 7
      /\ YYTRANSLATE["UNDEF"] = 2
  BY DEF YYTRANSLATE
<1>2. CASE c = "CONFIG"
  <2>1. q = 1 /\ p \in {0, 4, 5, 11}
    BY <1>1, <1>2, StatesOf, Beneaths
  <2>2. QED
    BY <1>2, <2>1, ConfigMeans
<1>3. CASE c = "PACKAGE"
  <2>1. q = 2 /\ p = 0
    BY <1>1, <1>3, StatesOf, Beneaths
  <2>2. QED
    BY <1>3, <2>1, PackageMeans
<1>4. CASE c \in {"OPTION", "LIST"}
  <2>1. q \in {14, 15} /\ p \in {8, 13, 16, 18} /\ (c = "OPTION" => q = 14) /\ (c = "LIST" => q = 15)
    BY <1>1, <1>4, StatesOf, Beneaths
  <2>2. ts[n + 1].kind = IF q = 14 THEN "OPTION" ELSE "LIST"
    BY <1>4, <2>1
  <2>3. QED
    BY <2>1, <2>2, LineMeans
<1>5. CASE c = "VALUE"
  <2>1. /\ q \in {8, 9, 13, 19, 20, 22, 23}
        /\ (q = 8 => p = 1) /\ (q = 9 => p = 2) /\ (q = 13 => p = 8) /\ (q = 19 => p = 14)
        /\ (q = 20 => p = 15) /\ (q = 22 => p = 19) /\ (q = 23 => p = 20)
    BY SMTT(30), <1>1, <1>5, StatesOf, Beneaths
  <2>2. Pushed(h, p, q, n + 1, ts, n)
    BY <1>5, <2>1, WordMeans
  <2>3. QED
    BY <1>5, <2>2
<1>6. CASE c = "EOF"
  <2>1. q = 10 /\ p = 3
    BY <1>1, <1>6, StatesOf, Beneaths
  <2>2. QED
    BY <1>6, <2>1, EndMeans
<1>7. c # "UNDEF"
  BY <1>1, StatesOf
<1>8. QED
  BY <1>2, <1>3, <1>4, <1>5, <1>6, <1>7 DEF TokenKinds, Keywords

-----------------------------------------------------------------------------
(***************************************************************************)
(* A rule is reduced: what it makes is what the abstract parser makes of    *)
(* the tokens that its symbols stand for.                                  *)
(***************************************************************************)

\* What state q with mark b stands for.
Stands(q, ts, b) ==
    /\ q = 0 => b = 0
    /\ q # 0 => \E below, v : \E a \in Nat : Covers(below, q, v, ts, a, b)

\* The rule of state t, with the marks m of the stack in file ts; u are the tokens so far.
Meets(h, s, u, ts, m, n, N, t, rhs) ==
    /\ Applies(h, s, u, n, t, rhs)
    /\ Prolongs(ts, u)
    /\ Marked(s, m, ts, N)
    /\ Holds(h, t, ts, DocumentUpTo(ts, N))
    /\ \A k \in DOMAIN s : IsValue(s[k].state) => s[k].value \in 1 .. Len(u)
    /\ t \in {8, 20} => ts[N + 1].kind # "VALUE"

\* The rule leaves on top what its tokens mean.
Means(h, s, u, ts, m, n, N, t, rhs) ==
    LET left == n - Size(t)
        q    == Goto(s[left].state, LeftSide(t))
        r    == RuleAction(At(yydefact, t), h, u, rhs)
    IN  Covers(s[left].state, q, r.node, ts, m[left], N) /\ Holds(r.heap, q, ts, DocumentUpTo(ts, N))

\* The marks that a rule meets.
Marks(s, m, ts, n, N, t) ==
    /\ Sized(ts) /\ N \in Nat
    /\ Covers(s[n - 1].state, t, s[n].value, ts, m[n - 1], N) /\ m[n - 1] \in Nat
    /\ Size(t) > 1 => /\ Covers(s[n - 2].state, s[n - 1].state, s[n - 1].value, ts, m[n - 2], m[n - 1])
                      /\ m[n - 2] \in Nat
    /\ Size(t) > 2 => /\ Covers(s[n - 3].state, s[n - 2].state, s[n - 2].value, ts, m[n - 3], m[n - 2])
                      /\ m[n - 3] \in Nat
    /\ Size(t) > 3 => /\ Covers(s[n - 4].state, s[n - 3].state, s[n - 3].value, ts, m[n - 4], m[n - 3])
                      /\ m[n - 4] \in Nat
    /\ Stands(s[n - Size(t)].state, ts, m[n - Size(t)])

\* Each entry of the stack stands for something.
LEMMA EntriesStand ==
    ASSUME NEW V, NEW s \in Seq(Items(V)), Path(s), NEW m, NEW ts, NEW N, Marked(s, m, ts, N)
    PROVE  \A k \in 1 .. Len(s) : Stands(s[k].state, ts, m[k]) /\ m[k] \in Nat
<1> SUFFICES ASSUME NEW k \in 1 .. Len(s) PROVE Stands(s[k].state, ts, m[k]) /\ m[k] \in Nat
  OBVIOUS
<1>1. \A j \in 1 .. Len(s) : m[j] \in Nat
  BY DEF Marked
<1>2. Len(s) \in Nat
  BY LenProperties
<1>3. CASE k = 1
  BY <1>1, <1>3 DEF Stands, Marked, Path
<1>4. CASE k # 1
  <2>1. k \in 2 .. Len(s) /\ k - 1 \in 1 .. Len(s)
    BY <1>2, <1>4
  <2>2. Covers(s[k - 1].state, s[k].state, s[k].value, ts, m[k - 1], m[k])
    BY <2>1 DEF Marked
  <2>3. s[k].state # 0
    <3>1. s[k - 1].state \in At(Beneath, s[k].state)
      BY <2>1 DEF Path
    <3>2. QED
      BY <3>1, Beneaths
  <2>4. QED
    BY <1>1, <2>1, <2>2, <2>3 DEF Stands
<1>5. QED
  BY <1>3, <1>4

LEMMA RuleMarks ==
    ASSUME NEW h, NEW s, NEW u, NEW ts, NEW m, NEW n, NEW N, NEW t, NEW rhs,
           Meets(h, s, u, ts, m, n, N, t, rhs)
    PROVE  Marks(s, m, ts, n, N, t)
<1>1. n \in Nat /\ s[n].state = t /\ Size(t) \in 1 .. n - 1
  BY RuleApplies DEF Meets
<1>2. PICK V : s \in Seq(Items(V)) /\ Path(s)
  BY DEF Meets, Applies, Reducible
<1>3. n = Len(s) /\ Sized(ts) /\ Marked(s, m, ts, N)
  BY DEF Meets, Applies, Prolongs
<1>4. \A k \in 1 .. n : Stands(s[k].state, ts, m[k]) /\ m[k] \in Nat
  BY <1>2, <1>3, EntriesStand
<1>5. \A k \in 2 .. n : Covers(s[k - 1].state, s[k].state, s[k].value, ts, m[k - 1], m[k])
  BY <1>3 DEF Marked
<1>6. m[n] = N
  BY <1>3 DEF Marked
<1> DEFINE z == Size(t)
<1>7. z \in 1 .. n - 1 /\ n - z \in 1 .. n
  BY <1>1
<1> HIDE DEF z
<1>8. Stands(s[n - z].state, ts, m[n - z])
  BY <1>4, <1>7
<1>9. N \in Nat /\ Covers(s[n - 1].state, t, s[n].value, ts, m[n - 1], N) /\ m[n - 1] \in Nat
  <2>1. n \in 2 .. n /\ n \in 1 .. n /\ n - 1 \in 1 .. n
    BY <1>1, <1>7
  <2>2. QED
    BY <1>1, <1>4, <1>5, <1>6, <2>1
<1>10. z > 1 => /\ Covers(s[n - 2].state, s[n - 1].state, s[n - 1].value, ts, m[n - 2], m[n - 1])
                /\ m[n - 2] \in Nat
  <2>1. z > 1 => n - 1 \in 2 .. n /\ (n - 1) - 1 = n - 2 /\ n - 2 \in 1 .. n
    BY <1>1, <1>7
  <2>2. QED
    BY <1>4, <1>5, <2>1
<1>11. z > 2 => /\ Covers(s[n - 3].state, s[n - 2].state, s[n - 2].value, ts, m[n - 3], m[n - 2])
                /\ m[n - 3] \in Nat
  <2>1. z > 2 => n - 2 \in 2 .. n /\ (n - 2) - 1 = n - 3 /\ n - 3 \in 1 .. n
    BY <1>1, <1>7
  <2>2. QED
    BY <1>4, <1>5, <2>1
<1>12. z > 3 => /\ Covers(s[n - 4].state, s[n - 3].state, s[n - 3].value, ts, m[n - 4], m[n - 3])
                /\ m[n - 4] \in Nat
  <2>1. z > 3 => n - 3 \in 2 .. n /\ (n - 3) - 1 = n - 4 /\ n - 4 \in 1 .. n
    BY <1>1, <1>7
  <2>2. QED
    BY <1>4, <1>5, <2>1
<1>13. QED
  BY <1>3, <1>8, <1>9, <1>10, <1>11, <1>12 DEF Marks, z

\* The words of a line.
LEMMA WordsAfter ==
    ASSUME NEW ts, Sized(ts), NEW k \in Nat
    PROVE  /\ (k + 1 <= Len(ts) /\ ts[k + 1].kind = "VALUE") => Word(ts, k, 1) = ts[k + 1].text
           /\ (k + 2 <= Len(ts) /\ ts[k + 1].kind = "VALUE" /\ ts[k + 2].kind = "VALUE")
              => Word(ts, k, 2) = ts[k + 2].text
           /\ ts[k + 2].kind # "VALUE" => Word(ts, k, 2) = NoString
<1>1. \A i \in k + 1 .. k + 1 : i = k + 1
  OBVIOUS
<1>2. (\A i \in k + 1 .. k + 2 : i = k + 1 \/ i = k + 2) /\ k + 2 \in k + 1 .. k + 2
  OBVIOUS
<1>3. (k + 1 <= Len(ts) /\ ts[k + 1].kind = "VALUE") => Word(ts, k, 1) = ts[k + 1].text
  BY <1>1 DEF Word
<1>4. (k + 2 <= Len(ts) /\ ts[k + 1].kind = "VALUE" /\ ts[k + 2].kind = "VALUE")
      => Word(ts, k, 2) = ts[k + 2].text
  <2>1. HAVE k + 2 <= Len(ts) /\ ts[k + 1].kind = "VALUE" /\ ts[k + 2].kind = "VALUE"
  <2>2. \A i \in k + 1 .. k + 2 : ts[i].kind = "VALUE"
    BY <1>2, <2>1
  <2>3. QED
    BY <2>1, <2>2 DEF Word
<1>5. ts[k + 2].kind # "VALUE" => Word(ts, k, 2) = NoString
  <2>1. HAVE ts[k + 2].kind # "VALUE"
  <2>2. ~ \A i \in k + 1 .. k + 2 : ts[i].kind = "VALUE"
    BY <1>2, <2>1
  <2>3. QED
    BY <2>2 DEF Word
<1>6. QED
  BY <1>3, <1>4, <1>5

\* Token b is the keyword of a line that ends with token N, and entry q on p is for it.
IsLine(ts, a, b, N, p, q) ==
    /\ Sized(ts) /\ a \in Nat /\ b = a + 1 /\ ts[b].kind \in {"OPTION", "LIST"}
    /\ DocumentUpTo(ts, a) # <<>> /\ AddsToSection(ts, a)
    /\ DocumentUpTo(ts, N) = DocumentUpTo(ts, b)
    /\ p # 0 /\ q \in {17, 21}

\* Entry q on p is for the line that begins after token a, and v is its node.
ItemFor(p, q, v, ts, a, b) ==
    /\ p # 0 /\ q \in {17, 21} /\ ts[a + 1].kind \in {"OPTION", "LIST"}
    /\ OneLine(DocumentUpTo(ts, a), DocumentUpTo(ts, b))
    /\ v = LineMade(ts, DocumentUpTo(ts, b)).node

LEMMA CoversLine ==
    ASSUME NEW p, NEW q, NEW v, NEW ts, NEW a, NEW b, ItemFor(p, q, v, ts, a, b)
    PROVE  Covers(p, q, v, ts, a, b)
BY DEF Covers, ItemFor

\* The node of a line is the one the abstract parser makes.
LEMMA MadeLine ==
    ASSUME NEW ts, NEW a, NEW b, NEW N, NEW p, NEW q, IsLine(ts, a, b, N, p, q)
    PROVE  LET d == DocumentUpTo(ts, N)
           IN  /\ LineMade(ts, d) = ReduceLine(LinesBefore(ts, d).heap, LineAt(ts, b))
               /\ Covers(p, q, LineMade(ts, d).node, ts, a, N)
               /\ Holds(LineMade(ts, d).heap, q, ts, d)
<1> DEFINE d == DocumentUpTo(ts, N)
<1>1. /\ Sized(ts) /\ a \in Nat /\ b = a + 1 /\ ts[b].kind \in {"OPTION", "LIST"}
      /\ DocumentUpTo(ts, a) # <<>> /\ AddsToSection(ts, a) /\ d = DocumentUpTo(ts, b)
      /\ p # 0 /\ q \in {17, 21}
  BY DEF IsLine
<1>2. OneLine(DocumentUpTo(ts, a), d) /\ Last(Last(d).lines) = LineAt(ts, b)
  BY <1>1, AddedLine
<1>3. LineMade(ts, d) = ReduceLine(LinesBefore(ts, d).heap, LineAt(ts, b))
  BY <1>2 DEF LineMade
<1> DEFINE v == LineMade(ts, d).node
<1> DEFINE g == LineMade(ts, d).heap
<1>4. OneLine(DocumentUpTo(ts, a), DocumentUpTo(ts, N)) /\ v = LineMade(ts, DocumentUpTo(ts, N)).node
  BY <1>2
<1>5. g = LineMade(ts, d).heap
  OBVIOUS
<1> HIDE DEF v, g, d
<1>6. Covers(p, q, v, ts, a, N)
  <2>1. ItemFor(p, q, v, ts, a, N)
    BY <1>1, <1>4 DEF ItemFor
  <2>2. QED
    BY <2>1, CoversLine
<1>7. Holds(g, q, ts, d)
  <2>1. q \in {17, 21}
    BY <1>1
  <2>2. QED
    BY <1>5, <2>1, HoldsLine
<1>8. QED
  BY <1>3, <1>6, <1>7 DEF v, g, d

\* Token b is the keyword of a section whose lines end with token N, in an entry on p.
IsSection(ts, a, b, N, p) ==
    /\ Sized(ts) /\ a \in Nat /\ b = a + 1 /\ BeginsSection(ts, a)
    /\ \/ DocumentUpTo(ts, N) = DocumentUpTo(ts, b)
       \/ Continues(DocumentUpTo(ts, b), DocumentUpTo(ts, N))
    /\ p = 0 => PackageOf(ts) = NoString

\* So is that of a section.
LEMMA MadeSection ==
    ASSUME NEW ts, NEW a, NEW b, NEW N, NEW p, IsSection(ts, a, b, N, p)
    PROVE  LET d == DocumentUpTo(ts, N)
           IN  /\ SectionMade(ts, d) = ReduceConfig(LinesAfter(ts, d).heap, Word(ts, b, 1), Word(ts, b, 2),
                                                    LinesAfter(ts, d).node)
               /\ Covers(p, 7, SectionMade(ts, d).node, ts, a, N)
               /\ Holds(SectionMade(ts, d).heap, 7, ts, d)
<1> DEFINE c == DocumentUpTo(ts, b)
<1> DEFINE d == DocumentUpTo(ts, N)
<1>1. /\ a \in Nat /\ b = a + 1 /\ BeginsSection(ts, a) /\ (c = d \/ Continues(c, d))
      /\ p = 0 => PackageOf(ts) = NoString
  BY DEF IsSection
<1>2. /\ c # <<>> /\ Front(c) = DocumentUpTo(ts, a)
      /\ Last(c).type = Word(ts, b, 1) /\ Last(c).name = Word(ts, b, 2)
  BY <1>1, BegunSection
<1>3. /\ d # <<>> /\ Front(d) = DocumentUpTo(ts, a)
      /\ Last(d).type = Word(ts, b, 1) /\ Last(d).name = Word(ts, b, 2)
  BY <1>1, <1>2 DEF Continues
<1>4. SectionMade(ts, d) = ReduceConfig(LinesAfter(ts, d).heap, Word(ts, b, 1), Word(ts, b, 2),
                                        LinesAfter(ts, d).node)
  BY <1>3, SectionIsConfig
<1>5. Covers(p, 7, SectionMade(ts, d).node, ts, a, N)
  BY <1>1, <1>3 DEF Covers
<1>6. Holds(SectionMade(ts, d).heap, 7, ts, d)
  BY DEF Holds
<1>7. QED
  BY <1>4, <1>5, <1>6

\* The states of a word.
IsWord(q) == q \in {8, 9, 13, 19, 20, 22, 23}

\* The texts of the words are those of the file.
LEMMA SameTexts ==
    ASSUME NEW h, NEW s, NEW u, NEW ts, NEW m, NEW n, NEW N, NEW t, NEW rhs,
           Meets(h, s, u, ts, m, n, N, t, rhs), NEW k \in DOMAIN s, IsWord(s[k].state)
    PROVE  u[s[k].value].text = ts[s[k].value].text
<1>1. IsValue(s[k].state)
  BY ValueStates DEF States, YYNSTATES, IsWord
<1>2. s[k].value \in 1 .. Len(u)
  BY <1>1 DEF Meets
<1>3. ts[s[k].value] = u[s[k].value]
  BY <1>2 DEF Meets, Prolongs
<1>4. QED
  BY <1>3

\* What each kind of entry stands for.
LEMMA CoversWord ==
    ASSUME NEW p, NEW q, IsWord(q), NEW v, NEW ts, NEW a, NEW b, Covers(p, q, v, ts, a, b)
    PROVE  /\ b = a + 1 /\ v = b /\ b <= Len(ts) /\ ts[b].kind = "VALUE"
           /\ DocumentUpTo(ts, b) = DocumentUpTo(ts, a)
BY DEF Covers, IsWord

\* The states of a keyword of a line.
IsKeyword(q) == q \in {14, 15}

LEMMA CoversKeyword ==
    ASSUME NEW p, NEW q, IsKeyword(q), NEW v, NEW ts, NEW a, NEW b, Covers(p, q, v, ts, a, b)
    PROVE  /\ b = a + 1 /\ DocumentUpTo(ts, a) # <<>> /\ AddsToSection(ts, a)
           /\ q = 14 => ts[b].kind = "OPTION"
           /\ q = 15 => ts[b].kind = "LIST"
BY DEF Covers, IsKeyword

LEMMA CoversConfig ==
    ASSUME NEW p, NEW v, NEW ts, NEW a, NEW b, Covers(p, 1, v, ts, a, b)
    PROVE  /\ b = a + 1 /\ BeginsSection(ts, a)
           /\ p = 0 => PackageOf(ts) = NoString
BY DEF Covers

LEMMA CoversNode ==
    ASSUME NEW p, NEW q, NEW v, NEW ts, NEW a, NEW b, Covers(p, q, v, ts, a, b)
    PROVE  LET c == DocumentUpTo(ts, a)
               d == DocumentUpTo(ts, b)
           IN  /\ q \in {8, 13} => d # <<>> /\ Last(d).lines = <<>>
               /\ q = 4 => v = Start(ts).node /\ d = <<>>
               /\ q \in {5, 11} => v = After(ts, d).node /\ d # <<>>
               /\ q \in {6, 7, 12} => v = SectionMade(ts, d).node /\ d # <<>> /\ Front(d) = c
               /\ q \in {16, 18} => Continues(c, d) /\ v = LinesAfter(ts, d).node
                                    /\ ts[a + 1].kind \in {"OPTION", "LIST"}
               /\ q \in {17, 21} => OneLine(c, d) /\ v = LineMade(ts, d).node
                                    /\ ts[a + 1].kind \in {"OPTION", "LIST"}
               /\ p = 0 /\ q \notin {2, 3, 4} => PackageOf(ts) = NoString
BY DEF Covers

\* What a rule that can be reduced meets.
LEMMA RuleMeets ==
    ASSUME NEW h, NEW s, NEW u, NEW ts, NEW m, NEW n, NEW N, NEW t, NEW rhs,
           Meets(h, s, u, ts, m, n, N, t, rhs)
    PROVE  /\ Shape(s, n, t) /\ Marks(s, m, ts, n, N, t) /\ Holds(h, t, ts, DocumentUpTo(ts, N))
           /\ n \in Nat /\ DOMAIN s = 1 .. n /\ s[n].state = t /\ Size(t) \in 1 .. n - 1
           /\ rhs[Size(t)] = s[n].value
           /\ Size(t) > 1 => rhs[Size(t) - 1] = s[n - 1].value
           /\ Size(t) > 2 => rhs[Size(t) - 2] = s[n - 2].value
           /\ t \in States
<1>1. Applies(h, s, u, n, t, rhs)
  BY DEF Meets
<1>2. Shape(s, n, t)
  BY <1>1, RuleShape
<1>3. n \in Nat /\ DOMAIN s = 1 .. n /\ s[n].state = t /\ Size(t) \in 1 .. n - 1 /\ t \in States
  BY <1>1, RuleApplies
<1>4. /\ rhs[Size(t)] = s[n].value
      /\ Size(t) > 1 => rhs[Size(t) - 1] = s[n - 1].value
      /\ Size(t) > 2 => rhs[Size(t) - 2] = s[n - 2].value
  BY <1>1, RuleValues
<1>5. Marks(s, m, ts, n, N, t)
  BY RuleMarks
<1>6. QED
  BY <1>2, <1>3, <1>4, <1>5 DEF Meets

\* option : OPTION VALUE VALUE
LEMMA OptionMeans ==
    ASSUME NEW h, NEW s, NEW u, NEW ts, NEW m, NEW n, NEW N, NEW t, t = 22, NEW rhs,
           Meets(h, s, u, ts, m, n, N, t, rhs)
    PROVE  Means(h, s, u, ts, m, n, N, t, rhs)
<1> DEFINE a == m[n - 3]
<1> DEFINE b == m[n - 2]
<1> DEFINE c == m[n - 1]
<1> DEFINE p == s[n - 3].state
<1> DEFINE x == s[n - 2].state
<1> DEFINE y == s[n - 1].state
<1> DEFINE d == DocumentUpTo(ts, N)
<1>1. /\ Size(t) = 3 /\ LeftSide(t) = 15 /\ s[n - 1].state = 19 /\ s[n - 2].state = 14
      /\ p \in {8, 13, 16, 18}
  BY RuleMeets DEF Shape
<1>2. /\ Marks(s, m, ts, n, N, t) /\ Holds(h, t, ts, d)
      /\ n \in Nat /\ DOMAIN s = 1 .. n /\ s[n].state = t /\ Size(t) \in 1 .. n - 1
      /\ rhs[2] = s[n - 1].value /\ rhs[3] = s[n].value
  <2>1. /\ Marks(s, m, ts, n, N, t) /\ Holds(h, t, ts, d)
        /\ n \in Nat /\ DOMAIN s = 1 .. n /\ s[n].state = t /\ Size(t) \in 1 .. n - 1
        /\ rhs[Size(t)] = s[n].value
        /\ Size(t) > 1 => rhs[Size(t) - 1] = s[n - 1].value
    BY RuleMeets
  <2>2. QED
    BY <1>1, <2>1
<1>3. /\ Sized(ts) /\ N \in Nat /\ a \in Nat
      /\ Covers(p, x, s[n - 2].value, ts, a, b) /\ x = 14
      /\ Covers(x, y, s[n - 1].value, ts, b, c) /\ y = 19
      /\ Covers(y, t, s[n].value, ts, c, N)
  BY <1>1, <1>2, SMTT(30) DEF Marks
<1>4. u[s[n - 1].value].text = ts[s[n - 1].value].text /\ u[s[n].value].text = ts[s[n].value].text
  <2>1. n \in DOMAIN s /\ n - 1 \in DOMAIN s
    BY <1>1, <1>2
  <2>2. IsWord(s[n].state) /\ IsWord(s[n - 1].state)
    BY <1>1, <1>2 DEF IsWord
  <2>3. \A k \in DOMAIN s : IsWord(s[k].state) => u[s[k].value].text = ts[s[k].value].text
    BY SameTexts
  <2>4. QED
    BY <2>1, <2>2, <2>3
<1> DEFINE r == RuleAction(At(yydefact, t), h, u, rhs)
<1>5. r = ReduceOption(h, u[rhs[2]].text, u[rhs[3]].text)
  <2>1. At(yydefact, t) = 14
    BY RuleMeets, RuleOf
  <2>2. QED
    BY <2>1, RuleActions
<1>6. h = LinesBefore(ts, d).heap
  BY <1>2, HoldsLinesBefore
<1> DEFINE q == Goto(p, 15)
<1>7. q \in {17, 21}
  BY <1>1, GotoFacts
<1> HIDE DEF a, b, c, p, x, y, d, r, q
<1>8. b = a + 1 /\ DocumentUpTo(ts, a) # <<>> /\ AddsToSection(ts, a) /\ ts[b].kind = "OPTION"
  <2>1. IsKeyword(x) /\ Covers(p, x, s[n - 2].value, ts, a, b)
    BY <1>3 DEF IsKeyword
  <2>2. (x = 14 => ts[b].kind = "OPTION") /\ (x = 15 => ts[b].kind = "LIST")
    BY <2>1, CoversKeyword
  <2>3. b = a + 1 /\ DocumentUpTo(ts, a) # <<>> /\ AddsToSection(ts, a)
    BY <2>1, CoversKeyword
  <2>4. QED
    BY <1>3, <2>2, <2>3
<1>9. /\ c = b + 1 /\ s[n - 1].value = c /\ c <= Len(ts) /\ ts[c].kind = "VALUE"
      /\ DocumentUpTo(ts, c) = DocumentUpTo(ts, b)
  <2>1. IsWord(y) /\ Covers(x, y, s[n - 1].value, ts, b, c)
    BY <1>3 DEF IsWord
  <2>2. QED
    BY <2>1, CoversWord
<1>10. /\ N = c + 1 /\ s[n].value = N /\ N <= Len(ts) /\ ts[N].kind = "VALUE"
       /\ DocumentUpTo(ts, N) = DocumentUpTo(ts, c)
  <2>1. IsWord(t) /\ Covers(y, t, s[n].value, ts, c, N)
    BY <1>3 DEF IsWord
  <2>2. QED
    BY <2>1, CoversWord
<1>11. c = b + 1 /\ N = b + 2 /\ b \in Nat
  BY <1>3, <1>8, <1>9, <1>10
<1>12. Word(ts, b, 1) = ts[c].text /\ Word(ts, b, 2) = ts[N].text
  BY <1>3, <1>9, <1>10, <1>11, WordsAfter
<1>13. r = ReduceLine(LinesBefore(ts, d).heap, LineAt(ts, b))
  <2>1. LineAt(ts, b) = Line("option", ts[c].text, ts[N].text)
    BY <1>8, <1>12 DEF LineAt
  <2>2. r = ReduceOption(h, ts[c].text, ts[N].text)
    BY <1>2, <1>4, <1>5, <1>9, <1>10
  <2>3. QED
    BY <1>6, <2>1, <2>2 DEF ReduceLine, Line
<1>14. LineMade(ts, d) = r /\ Covers(p, q, LineMade(ts, d).node, ts, a, N) /\ Holds(LineMade(ts, d).heap, q, ts, d)
  <2>1. DocumentUpTo(ts, N) = DocumentUpTo(ts, b)
    BY <1>9, <1>10
  <2>2. p # 0
    BY <1>1
  <2>3. IsLine(ts, a, b, N, p, q)
    BY <1>3, <1>7, <1>8, <2>1, <2>2 DEF IsLine
  <2>4. QED
    BY <1>13, <2>3, MadeLine DEF d
<1>15. Covers(p, q, r.node, ts, a, N) /\ Holds(r.heap, q, ts, d)
  BY <1>14
<1>16. QED
  BY <1>1, <1>15 DEF Means, a, p, d, r, q

\* option : LIST VALUE VALUE
LEMMA ItemMeans ==
    ASSUME NEW h, NEW s, NEW u, NEW ts, NEW m, NEW n, NEW N, NEW t, t = 23, NEW rhs,
           Meets(h, s, u, ts, m, n, N, t, rhs)
    PROVE  Means(h, s, u, ts, m, n, N, t, rhs)
<1> DEFINE a == m[n - 3]
<1> DEFINE b == m[n - 2]
<1> DEFINE c == m[n - 1]
<1> DEFINE p == s[n - 3].state
<1> DEFINE x == s[n - 2].state
<1> DEFINE y == s[n - 1].state
<1> DEFINE d == DocumentUpTo(ts, N)
<1>1. /\ Size(t) = 3 /\ LeftSide(t) = 15 /\ s[n - 1].state = 20 /\ s[n - 2].state = 15
      /\ p \in {8, 13, 16, 18}
  BY RuleMeets DEF Shape
<1>2. /\ Marks(s, m, ts, n, N, t) /\ Holds(h, t, ts, d)
      /\ n \in Nat /\ DOMAIN s = 1 .. n /\ s[n].state = t /\ Size(t) \in 1 .. n - 1
      /\ rhs[2] = s[n - 1].value /\ rhs[3] = s[n].value
  <2>1. /\ Marks(s, m, ts, n, N, t) /\ Holds(h, t, ts, d)
        /\ n \in Nat /\ DOMAIN s = 1 .. n /\ s[n].state = t /\ Size(t) \in 1 .. n - 1
        /\ rhs[Size(t)] = s[n].value
        /\ Size(t) > 1 => rhs[Size(t) - 1] = s[n - 1].value
    BY RuleMeets
  <2>2. QED
    BY <1>1, <2>1
<1>3. /\ Sized(ts) /\ N \in Nat /\ a \in Nat
      /\ Covers(p, x, s[n - 2].value, ts, a, b) /\ x = 15
      /\ Covers(x, y, s[n - 1].value, ts, b, c) /\ y = 20
      /\ Covers(y, t, s[n].value, ts, c, N)
  BY <1>1, <1>2, SMTT(30) DEF Marks
<1>4. u[s[n - 1].value].text = ts[s[n - 1].value].text /\ u[s[n].value].text = ts[s[n].value].text
  <2>1. n \in DOMAIN s /\ n - 1 \in DOMAIN s
    BY <1>1, <1>2
  <2>2. IsWord(s[n].state) /\ IsWord(s[n - 1].state)
    BY <1>1, <1>2 DEF IsWord
  <2>3. \A k \in DOMAIN s : IsWord(s[k].state) => u[s[k].value].text = ts[s[k].value].text
    BY SameTexts
  <2>4. QED
    BY <2>1, <2>2, <2>3
<1> DEFINE r == RuleAction(At(yydefact, t), h, u, rhs)
<1>5. r = ReduceList(h, u[rhs[2]].text, u[rhs[3]].text)
  <2>1. At(yydefact, t) = 16
    BY RuleMeets, RuleOf
  <2>2. QED
    BY <2>1, RuleActions
<1>6. h = LinesBefore(ts, d).heap
  BY <1>2, HoldsLinesBefore
<1> DEFINE q == Goto(p, 15)
<1>7. q \in {17, 21}
  BY <1>1, GotoFacts
<1> HIDE DEF a, b, c, p, x, y, d, r, q
<1>8. b = a + 1 /\ DocumentUpTo(ts, a) # <<>> /\ AddsToSection(ts, a) /\ ts[b].kind = "LIST"
  <2>1. IsKeyword(x) /\ Covers(p, x, s[n - 2].value, ts, a, b)
    BY <1>3 DEF IsKeyword
  <2>2. (x = 14 => ts[b].kind = "OPTION") /\ (x = 15 => ts[b].kind = "LIST")
    BY <2>1, CoversKeyword
  <2>3. b = a + 1 /\ DocumentUpTo(ts, a) # <<>> /\ AddsToSection(ts, a)
    BY <2>1, CoversKeyword
  <2>4. QED
    BY <1>3, <2>2, <2>3
<1>9. /\ c = b + 1 /\ s[n - 1].value = c /\ c <= Len(ts) /\ ts[c].kind = "VALUE"
      /\ DocumentUpTo(ts, c) = DocumentUpTo(ts, b)
  <2>1. IsWord(y) /\ Covers(x, y, s[n - 1].value, ts, b, c)
    BY <1>3 DEF IsWord
  <2>2. QED
    BY <2>1, CoversWord
<1>10. /\ N = c + 1 /\ s[n].value = N /\ N <= Len(ts) /\ ts[N].kind = "VALUE"
       /\ DocumentUpTo(ts, N) = DocumentUpTo(ts, c)
  <2>1. IsWord(t) /\ Covers(y, t, s[n].value, ts, c, N)
    BY <1>3 DEF IsWord
  <2>2. QED
    BY <2>1, CoversWord
<1>11. c = b + 1 /\ N = b + 2 /\ b \in Nat
  BY <1>3, <1>8, <1>9, <1>10
<1>12. Word(ts, b, 1) = ts[c].text /\ Word(ts, b, 2) = ts[N].text
  BY <1>3, <1>9, <1>10, <1>11, WordsAfter
<1>13. r = ReduceLine(LinesBefore(ts, d).heap, LineAt(ts, b))
  <2>1. LineAt(ts, b) = Line("list", ts[c].text, ts[N].text)
    BY <1>8, <1>12 DEF LineAt
  <2>2. r = ReduceList(h, ts[c].text, ts[N].text)
    BY <1>2, <1>4, <1>5, <1>9, <1>10
  <2>3. QED
    BY <1>6, <2>1, <2>2 DEF ReduceLine, Line
<1>14. LineMade(ts, d) = r /\ Covers(p, q, LineMade(ts, d).node, ts, a, N) /\ Holds(LineMade(ts, d).heap, q, ts, d)
  <2>1. DocumentUpTo(ts, N) = DocumentUpTo(ts, b)
    BY <1>9, <1>10
  <2>2. p # 0
    BY <1>1
  <2>3. IsLine(ts, a, b, N, p, q)
    BY <1>3, <1>7, <1>8, <2>1, <2>2 DEF IsLine
  <2>4. QED
    BY <1>13, <2>3, MadeLine DEF d
<1>15. Covers(p, q, r.node, ts, a, N) /\ Holds(r.heap, q, ts, d)
  BY <1>14
<1>16. QED
  BY <1>1, <1>15 DEF Means, a, p, d, r, q

\* option : LIST VALUE
LEMMA ListMeans ==
    ASSUME NEW h, NEW s, NEW u, NEW ts, NEW m, NEW n, NEW N, NEW t, t = 20, NEW rhs,
           Meets(h, s, u, ts, m, n, N, t, rhs)
    PROVE  Means(h, s, u, ts, m, n, N, t, rhs)
<1> DEFINE a == m[n - 2]
<1> DEFINE b == m[n - 1]
<1> DEFINE p == s[n - 2].state
<1> DEFINE x == s[n - 1].state
<1> DEFINE d == DocumentUpTo(ts, N)
<1>1. Size(t) = 2 /\ LeftSide(t) = 15 /\ s[n - 1].state = 15 /\ p \in {8, 13, 16, 18}
  BY RuleMeets DEF Shape
<1>2. /\ Marks(s, m, ts, n, N, t) /\ Holds(h, t, ts, d)
      /\ n \in Nat /\ DOMAIN s = 1 .. n /\ s[n].state = t /\ Size(t) \in 1 .. n - 1
      /\ rhs[2] = s[n].value
  <2>1. /\ Marks(s, m, ts, n, N, t) /\ Holds(h, t, ts, d)
        /\ n \in Nat /\ DOMAIN s = 1 .. n /\ s[n].state = t /\ Size(t) \in 1 .. n - 1
        /\ rhs[Size(t)] = s[n].value
    BY RuleMeets
  <2>2. QED
    BY <1>1, <2>1
<1>3. /\ Sized(ts) /\ N \in Nat /\ a \in Nat
      /\ Covers(p, x, s[n - 1].value, ts, a, b) /\ x = 15
      /\ Covers(x, t, s[n].value, ts, b, N)
  BY <1>1, <1>2, SMTT(30) DEF Marks
<1>4. u[s[n].value].text = ts[s[n].value].text
  <2>1. n \in DOMAIN s
    BY <1>1, <1>2
  <2>2. IsWord(s[n].state)
    BY <1>1, <1>2 DEF IsWord
  <2>3. \A k \in DOMAIN s : IsWord(s[k].state) => u[s[k].value].text = ts[s[k].value].text
    BY SameTexts
  <2>4. QED
    BY <2>1, <2>2, <2>3
<1> DEFINE r == RuleAction(At(yydefact, t), h, u, rhs)
<1>5. r = ReduceList(h, u[rhs[2]].text, NoString)
  <2>1. At(yydefact, t) = 15
    BY RuleMeets, RuleOf
  <2>2. QED
    BY <2>1, RuleActions
<1>6. h = LinesBefore(ts, d).heap
  BY <1>2, HoldsLinesBefore
<1> DEFINE q == Goto(p, 15)
<1>7. q \in {17, 21}
  BY <1>1, GotoFacts
<1>8. ts[N + 1].kind # "VALUE"
  BY DEF Meets
<1> HIDE DEF a, b, p, x, d, r, q
<1>9. b = a + 1 /\ DocumentUpTo(ts, a) # <<>> /\ AddsToSection(ts, a) /\ ts[b].kind = "LIST"
  <2>1. IsKeyword(x) /\ Covers(p, x, s[n - 1].value, ts, a, b)
    BY <1>3 DEF IsKeyword
  <2>2. (x = 14 => ts[b].kind = "OPTION") /\ (x = 15 => ts[b].kind = "LIST")
    BY <2>1, CoversKeyword
  <2>3. b = a + 1 /\ DocumentUpTo(ts, a) # <<>> /\ AddsToSection(ts, a)
    BY <2>1, CoversKeyword
  <2>4. QED
    BY <1>3, <2>2, <2>3
<1>10. /\ N = b + 1 /\ s[n].value = N /\ N <= Len(ts) /\ ts[N].kind = "VALUE"
       /\ DocumentUpTo(ts, N) = DocumentUpTo(ts, b)
  <2>1. IsWord(t) /\ Covers(x, t, s[n].value, ts, b, N)
    BY <1>3 DEF IsWord
  <2>2. QED
    BY <2>1, CoversWord
<1>11. N = b + 1 /\ b \in Nat /\ N + 1 = b + 2
  BY <1>3, <1>9, <1>10
<1>12. Word(ts, b, 1) = ts[N].text /\ Word(ts, b, 2) = NoString
  <2>1. ts[b + 2].kind # "VALUE"
    BY <1>8, <1>11
  <2>2. QED
    BY <1>3, <1>10, <1>11, <2>1, WordsAfter
<1>13. r = ReduceLine(LinesBefore(ts, d).heap, LineAt(ts, b))
  <2>1. LineAt(ts, b) = Line("list", ts[N].text, NoString)
    BY <1>9, <1>12 DEF LineAt
  <2>2. r = ReduceList(h, ts[N].text, NoString)
    BY <1>2, <1>4, <1>5, <1>10
  <2>3. QED
    BY <1>6, <2>1, <2>2 DEF ReduceLine, Line
<1>14. LineMade(ts, d) = r /\ Covers(p, q, LineMade(ts, d).node, ts, a, N) /\ Holds(LineMade(ts, d).heap, q, ts, d)
  <2>1. p # 0
    BY <1>1
  <2>2. IsLine(ts, a, b, N, p, q)
    BY <1>3, <1>7, <1>9, <1>10, <2>1 DEF IsLine
  <2>3. QED
    BY <1>13, <2>2, MadeLine DEF d
<1>15. Covers(p, q, r.node, ts, a, N) /\ Holds(r.heap, q, ts, d)
  BY <1>14
<1>16. QED
  BY <1>1, <1>15 DEF Means, a, p, d, r, q

\* config : CONFIG VALUE
LEMMA BareSectionMeans ==
    ASSUME NEW h, NEW s, NEW u, NEW ts, NEW m, NEW n, NEW N, NEW t, t = 8, NEW rhs,
           Meets(h, s, u, ts, m, n, N, t, rhs)
    PROVE  Means(h, s, u, ts, m, n, N, t, rhs)
<1> DEFINE a == m[n - 2]
<1> DEFINE b == m[n - 1]
<1> DEFINE p == s[n - 2].state
<1> DEFINE x == s[n - 1].state
<1> DEFINE d == DocumentUpTo(ts, N)
<1>1. /\ Size(t) = 2 /\ LeftSide(t) = 13
      /\ s[n - 1].state = 1
      /\ p \in {0, 4, 5, 11}
  BY RuleMeets DEF Shape
<1>2. /\ Marks(s, m, ts, n, N, t) /\ Holds(h, t, ts, d)
      /\ n \in Nat /\ DOMAIN s = 1 .. n /\ s[n].state = t /\ Size(t) \in 1 .. n - 1
      /\ rhs[2] = s[n].value
  <2>1. /\ Marks(s, m, ts, n, N, t) /\ Holds(h, t, ts, d)
        /\ n \in Nat /\ DOMAIN s = 1 .. n /\ s[n].state = t /\ Size(t) \in 1 .. n - 1
        /\ rhs[Size(t)] = s[n].value
        /\ Size(t) > 1 => rhs[Size(t) - 1] = s[n - 1].value
        /\ Size(t) > 2 => rhs[Size(t) - 2] = s[n - 2].value
    BY RuleMeets
  <2>2. QED
    BY <1>1, <2>1
<1>3. /\ Sized(ts) /\ N \in Nat /\ a \in Nat
      /\ Covers(p, x, s[n - 1].value, ts, a, b) /\ x = 1
      /\ Covers(x, t, s[n].value, ts, b, N)
  BY <1>1, <1>2, SMTT(30) DEF Marks
<1>4. u[s[n].value].text = ts[s[n].value].text
  <2>1. n \in DOMAIN s
    BY <1>1, <1>2
  <2>2. IsWord(s[n].state)
    BY <1>1, <1>2 DEF IsWord
  <2>3. \A k \in DOMAIN s : IsWord(s[k].state) => u[s[k].value].text = ts[s[k].value].text
    BY SameTexts
  <2>4. QED
    BY <2>1, <2>2, <2>3
<1> DEFINE r == RuleAction(At(yydefact, t), h, u, rhs)
<1>5. r = ReduceConfig(h, u[rhs[2]].text, NoString, NoNode)
  <2>1. At(yydefact, t) = 8
    BY RuleMeets, RuleOf
  <2>2. QED
    BY <2>1, RuleActions
<1>6. h = Before(ts, d).heap
  BY <1>2, HoldsBefore
<1>7. Goto(p, 13) = 7
  BY <1>1, GotoFacts
<1>8. ts[N + 1].kind # "VALUE"
  BY DEF Meets
<1> HIDE DEF a, b, p, x, d, r
<1>9. /\ b = a + 1 /\ BeginsSection(ts, a)
      /\ p = 0 => PackageOf(ts) = NoString
  <2>1. Covers(p, 1, s[n - 1].value, ts, a, b)
    BY <1>3
  <2>2. QED
    BY <2>1, CoversConfig
<1>10. /\ N = b + 1 /\ s[n].value = N /\ N <= Len(ts) /\ ts[N].kind = "VALUE"
       /\ DocumentUpTo(ts, N) = DocumentUpTo(ts, b)
  <2>1. IsWord(t) /\ Covers(x, t, s[n].value, ts, b, N)
    BY <1>3 DEF IsWord
  <2>2. QED
    BY <2>1, CoversWord
<1>11. N = b + 1 /\ b \in Nat /\ N + 1 = b + 2
  BY <1>3, <1>9, <1>10
<1>12. d # <<>> /\ Last(d).lines = <<>>
  <2>1. t \in {8, 13} /\ Covers(x, t, s[n].value, ts, b, N)
    BY <1>3
  <2>2. QED
    BY <2>1, CoversNode DEF d
<1>13. h = LinesAfter(ts, d).heap /\ LinesAfter(ts, d).node = NoNode
  <2>1. d \in Documents(ts)
    BY <1>3, DocumentTyped DEF Documents, DocumentGood, d
  <2>2. QED
    BY <1>6, <1>12, <2>1, NoLines
<1>14. DocumentUpTo(ts, N) = DocumentUpTo(ts, b)
  BY <1>10
<1>15. Word(ts, b, 1) = ts[N].text /\ Word(ts, b, 2) = NoString
  <2>1. ts[N + 1].kind # "VALUE"
    BY <1>8
  <2>2. ts[b + 2].kind # "VALUE"
    BY <1>11, <2>1
  <2>3. QED
    BY <1>3, <1>10, <1>11, <2>2, WordsAfter
<1>16. r = ReduceConfig(LinesAfter(ts, d).heap, Word(ts, b, 1), Word(ts, b, 2), LinesAfter(ts, d).node)
  <2>1. r = ReduceConfig(h, ts[N].text, NoString, NoNode)
    BY <1>2, <1>4, <1>5, <1>10
  <2>2. QED
    BY <1>13, <1>15, <2>1
<1>17. SectionMade(ts, d) = r /\ Covers(p, 7, SectionMade(ts, d).node, ts, a, N) /\ Holds(SectionMade(ts, d).heap, 7, ts, d)
  <2>1. IsSection(ts, a, b, N, p)
    BY <1>3, <1>9, <1>14 DEF IsSection
  <2>2. QED
    BY <1>16, <2>1, MadeSection DEF d
<1>18. Covers(p, 7, r.node, ts, a, N) /\ Holds(r.heap, 7, ts, d)
  BY <1>17
<1>19. QED
  BY <1>1, <1>7, <1>18 DEF Means, a, p, d, r

\* config : CONFIG VALUE VALUE
LEMMA BareNamedMeans ==
    ASSUME NEW h, NEW s, NEW u, NEW ts, NEW m, NEW n, NEW N, NEW t, t = 13, NEW rhs,
           Meets(h, s, u, ts, m, n, N, t, rhs)
    PROVE  Means(h, s, u, ts, m, n, N, t, rhs)
<1> DEFINE a == m[n - 3]
<1> DEFINE b == m[n - 2]
<1> DEFINE c == m[n - 1]
<1> DEFINE p == s[n - 3].state
<1> DEFINE x == s[n - 2].state
<1> DEFINE y == s[n - 1].state
<1> DEFINE d == DocumentUpTo(ts, N)
<1>1. /\ Size(t) = 3 /\ LeftSide(t) = 13
      /\ s[n - 2].state = 1 /\ s[n - 1].state = 8
      /\ p \in {0, 4, 5, 11}
  BY RuleMeets DEF Shape
<1>2. /\ Marks(s, m, ts, n, N, t) /\ Holds(h, t, ts, d)
      /\ n \in Nat /\ DOMAIN s = 1 .. n /\ s[n].state = t /\ Size(t) \in 1 .. n - 1
      /\ rhs[2] = s[n - 1].value /\ rhs[3] = s[n].value
  <2>1. /\ Marks(s, m, ts, n, N, t) /\ Holds(h, t, ts, d)
        /\ n \in Nat /\ DOMAIN s = 1 .. n /\ s[n].state = t /\ Size(t) \in 1 .. n - 1
        /\ rhs[Size(t)] = s[n].value
        /\ Size(t) > 1 => rhs[Size(t) - 1] = s[n - 1].value
        /\ Size(t) > 2 => rhs[Size(t) - 2] = s[n - 2].value
    BY RuleMeets
  <2>2. QED
    BY <1>1, <2>1
<1>3. /\ Sized(ts) /\ N \in Nat /\ a \in Nat
      /\ Covers(p, x, s[n - 2].value, ts, a, b) /\ x = 1
      /\ Covers(x, y, s[n - 1].value, ts, b, c) /\ y = 8
      /\ Covers(y, t, s[n].value, ts, c, N)
  BY <1>1, <1>2, SMTT(30) DEF Marks
<1>4. u[s[n - 1].value].text = ts[s[n - 1].value].text /\ u[s[n].value].text = ts[s[n].value].text
  <2>1. n - 1 \in DOMAIN s /\ n \in DOMAIN s
    BY <1>1, <1>2
  <2>2. IsWord(s[n - 1].state) /\ IsWord(s[n].state)
    BY <1>1, <1>2 DEF IsWord
  <2>3. \A k \in DOMAIN s : IsWord(s[k].state) => u[s[k].value].text = ts[s[k].value].text
    BY SameTexts
  <2>4. QED
    BY <2>1, <2>2, <2>3
<1> DEFINE r == RuleAction(At(yydefact, t), h, u, rhs)
<1>5. r = ReduceConfig(h, u[rhs[2]].text, u[rhs[3]].text, NoNode)
  <2>1. At(yydefact, t) = 9
    BY RuleMeets, RuleOf
  <2>2. QED
    BY <2>1, RuleActions
<1>6. h = Before(ts, d).heap
  BY <1>2, HoldsBefore
<1>7. Goto(p, 13) = 7
  BY <1>1, GotoFacts
<1> HIDE DEF a, b, c, p, x, y, d, r
<1>8. /\ b = a + 1 /\ BeginsSection(ts, a)
      /\ p = 0 => PackageOf(ts) = NoString
  <2>1. Covers(p, 1, s[n - 2].value, ts, a, b)
    BY <1>3
  <2>2. QED
    BY <2>1, CoversConfig
<1>9. /\ c = b + 1 /\ s[n - 1].value = c /\ c <= Len(ts) /\ ts[c].kind = "VALUE"
       /\ DocumentUpTo(ts, c) = DocumentUpTo(ts, b)
  <2>1. IsWord(y) /\ Covers(x, y, s[n - 1].value, ts, b, c)
    BY <1>3 DEF IsWord
  <2>2. QED
    BY <2>1, CoversWord
<1>10. /\ N = c + 1 /\ s[n].value = N /\ N <= Len(ts) /\ ts[N].kind = "VALUE"
       /\ DocumentUpTo(ts, N) = DocumentUpTo(ts, c)
  <2>1. IsWord(t) /\ Covers(y, t, s[n].value, ts, c, N)
    BY <1>3 DEF IsWord
  <2>2. QED
    BY <2>1, CoversWord
<1>11. c = b + 1 /\ N = b + 2 /\ b \in Nat
  BY <1>3, <1>8, <1>9, <1>10
<1>12. d # <<>> /\ Last(d).lines = <<>>
  <2>1. t \in {8, 13} /\ Covers(y, t, s[n].value, ts, c, N)
    BY <1>3
  <2>2. QED
    BY <2>1, CoversNode DEF d
<1>13. h = LinesAfter(ts, d).heap /\ LinesAfter(ts, d).node = NoNode
  <2>1. d \in Documents(ts)
    BY <1>3, DocumentTyped DEF Documents, DocumentGood, d
  <2>2. QED
    BY <1>6, <1>12, <2>1, NoLines
<1>14. DocumentUpTo(ts, N) = DocumentUpTo(ts, b)
  BY <1>9, <1>10
<1>15. Word(ts, b, 1) = ts[c].text /\ Word(ts, b, 2) = ts[N].text
  BY <1>3, <1>9, <1>10, <1>11, WordsAfter
<1>16. r = ReduceConfig(LinesAfter(ts, d).heap, Word(ts, b, 1), Word(ts, b, 2), LinesAfter(ts, d).node)
  <2>1. r = ReduceConfig(h, ts[c].text, ts[N].text, NoNode)
    BY <1>2, <1>4, <1>5, <1>9, <1>10
  <2>2. QED
    BY <1>13, <1>15, <2>1
<1>17. SectionMade(ts, d) = r /\ Covers(p, 7, SectionMade(ts, d).node, ts, a, N) /\ Holds(SectionMade(ts, d).heap, 7, ts, d)
  <2>1. IsSection(ts, a, b, N, p)
    BY <1>3, <1>8, <1>14 DEF IsSection
  <2>2. QED
    BY <1>16, <2>1, MadeSection DEF d
<1>18. Covers(p, 7, r.node, ts, a, N) /\ Holds(r.heap, 7, ts, d)
  BY <1>17
<1>19. QED
  BY <1>1, <1>7, <1>18 DEF Means, a, p, d, r

\* config : CONFIG VALUE options
LEMMA SectionMeans ==
    ASSUME NEW h, NEW s, NEW u, NEW ts, NEW m, NEW n, NEW N, NEW t, t = 16, NEW rhs,
           Meets(h, s, u, ts, m, n, N, t, rhs)
    PROVE  Means(h, s, u, ts, m, n, N, t, rhs)
<1> DEFINE a == m[n - 3]
<1> DEFINE b == m[n - 2]
<1> DEFINE c == m[n - 1]
<1> DEFINE p == s[n - 3].state
<1> DEFINE x == s[n - 2].state
<1> DEFINE y == s[n - 1].state
<1> DEFINE d == DocumentUpTo(ts, N)
<1>1. /\ Size(t) = 3 /\ LeftSide(t) = 13
      /\ s[n - 2].state = 1 /\ s[n - 1].state = 8
      /\ p \in {0, 4, 5, 11}
  BY RuleMeets DEF Shape
<1>2. /\ Marks(s, m, ts, n, N, t) /\ Holds(h, t, ts, d)
      /\ n \in Nat /\ DOMAIN s = 1 .. n /\ s[n].state = t /\ Size(t) \in 1 .. n - 1
      /\ rhs[2] = s[n - 1].value /\ rhs[3] = s[n].value
  <2>1. /\ Marks(s, m, ts, n, N, t) /\ Holds(h, t, ts, d)
        /\ n \in Nat /\ DOMAIN s = 1 .. n /\ s[n].state = t /\ Size(t) \in 1 .. n - 1
        /\ rhs[Size(t)] = s[n].value
        /\ Size(t) > 1 => rhs[Size(t) - 1] = s[n - 1].value
        /\ Size(t) > 2 => rhs[Size(t) - 2] = s[n - 2].value
    BY RuleMeets
  <2>2. QED
    BY <1>1, <2>1
<1>3. /\ Sized(ts) /\ N \in Nat /\ a \in Nat
      /\ Covers(p, x, s[n - 2].value, ts, a, b) /\ x = 1
      /\ Covers(x, y, s[n - 1].value, ts, b, c) /\ y = 8
      /\ Covers(y, t, s[n].value, ts, c, N)
  BY <1>1, <1>2, SMTT(30) DEF Marks
<1>4. u[s[n - 1].value].text = ts[s[n - 1].value].text
  <2>1. n - 1 \in DOMAIN s
    BY <1>1, <1>2
  <2>2. IsWord(s[n - 1].state)
    BY <1>1, <1>2 DEF IsWord
  <2>3. \A k \in DOMAIN s : IsWord(s[k].state) => u[s[k].value].text = ts[s[k].value].text
    BY SameTexts
  <2>4. QED
    BY <2>1, <2>2, <2>3
<1> DEFINE r == RuleAction(At(yydefact, t), h, u, rhs)
<1>5. r = ReduceConfig(h, u[rhs[2]].text, NoString, rhs[3])
  <2>1. At(yydefact, t) = 10
    BY RuleMeets, RuleOf
  <2>2. QED
    BY <2>1, RuleActions
<1>6. h = LinesAfter(ts, d).heap
  BY <1>2, HoldsLinesAfter
<1>7. Goto(p, 13) = 7
  BY <1>1, GotoFacts
<1> HIDE DEF a, b, c, p, x, y, d, r
<1>8. /\ b = a + 1 /\ BeginsSection(ts, a)
      /\ p = 0 => PackageOf(ts) = NoString
  <2>1. Covers(p, 1, s[n - 2].value, ts, a, b)
    BY <1>3
  <2>2. QED
    BY <2>1, CoversConfig
<1>9. /\ c = b + 1 /\ s[n - 1].value = c /\ c <= Len(ts) /\ ts[c].kind = "VALUE"
       /\ DocumentUpTo(ts, c) = DocumentUpTo(ts, b)
  <2>1. IsWord(y) /\ Covers(x, y, s[n - 1].value, ts, b, c)
    BY <1>3 DEF IsWord
  <2>2. QED
    BY <2>1, CoversWord
<1>10. c = b + 1 /\ b \in Nat /\ c + 1 = b + 2
  BY <1>3, <1>8, <1>9
<1>11. /\ Continues(DocumentUpTo(ts, c), d) /\ s[n].value = LinesAfter(ts, d).node
       /\ ts[c + 1].kind \in {"OPTION", "LIST"}
  <2>1. t \in {16, 18} /\ Covers(y, t, s[n].value, ts, c, N)
    BY <1>3
  <2>2. QED
    BY <2>1, CoversNode DEF d
<1>12. h = LinesAfter(ts, d).heap
  BY <1>6
<1>13. Continues(DocumentUpTo(ts, b), DocumentUpTo(ts, N))
  BY <1>9, <1>11 DEF d
<1>14. Word(ts, b, 1) = ts[c].text /\ Word(ts, b, 2) = NoString
  <2>1. ts[c + 1].kind # "VALUE"
    BY <1>11
  <2>2. ts[b + 2].kind # "VALUE"
    BY <1>10, <2>1
  <2>3. QED
    BY <1>3, <1>9, <1>10, <2>2, WordsAfter
<1>15. r = ReduceConfig(LinesAfter(ts, d).heap, Word(ts, b, 1), Word(ts, b, 2), LinesAfter(ts, d).node)
  <2>1. r = ReduceConfig(h, ts[c].text, NoString, s[n].value)
    BY <1>2, <1>4, <1>5, <1>9
  <2>2. QED
    BY <1>11, <1>12, <1>14, <2>1
<1>16. SectionMade(ts, d) = r /\ Covers(p, 7, SectionMade(ts, d).node, ts, a, N) /\ Holds(SectionMade(ts, d).heap, 7, ts, d)
  <2>1. IsSection(ts, a, b, N, p)
    BY <1>3, <1>8, <1>13 DEF IsSection
  <2>2. QED
    BY <1>15, <2>1, MadeSection DEF d
<1>17. Covers(p, 7, r.node, ts, a, N) /\ Holds(r.heap, 7, ts, d)
  BY <1>16
<1>18. QED
  BY <1>1, <1>7, <1>17 DEF Means, a, p, d, r

\* config : CONFIG VALUE VALUE options
LEMMA NamedMeans ==
    ASSUME NEW h, NEW s, NEW u, NEW ts, NEW m, NEW n, NEW N, NEW t, t = 18, NEW rhs,
           Meets(h, s, u, ts, m, n, N, t, rhs)
    PROVE  Means(h, s, u, ts, m, n, N, t, rhs)
<1> DEFINE a == m[n - 4]
<1> DEFINE b == m[n - 3]
<1> DEFINE c == m[n - 2]
<1> DEFINE e == m[n - 1]
<1> DEFINE p == s[n - 4].state
<1> DEFINE x == s[n - 3].state
<1> DEFINE y == s[n - 2].state
<1> DEFINE z == s[n - 1].state
<1> DEFINE d == DocumentUpTo(ts, N)
<1>1. /\ Size(t) = 4 /\ LeftSide(t) = 13
      /\ s[n - 3].state = 1 /\ s[n - 2].state = 8 /\ s[n - 1].state = 13
      /\ p \in {0, 4, 5, 11}
  BY RuleMeets DEF Shape
<1>2. /\ Marks(s, m, ts, n, N, t) /\ Holds(h, t, ts, d)
      /\ n \in Nat /\ DOMAIN s = 1 .. n /\ s[n].state = t /\ Size(t) \in 1 .. n - 1
      /\ rhs[2] = s[n - 2].value /\ rhs[3] = s[n - 1].value /\ rhs[4] = s[n].value
  <2>1. /\ Marks(s, m, ts, n, N, t) /\ Holds(h, t, ts, d)
        /\ n \in Nat /\ DOMAIN s = 1 .. n /\ s[n].state = t /\ Size(t) \in 1 .. n - 1
        /\ rhs[Size(t)] = s[n].value
        /\ Size(t) > 1 => rhs[Size(t) - 1] = s[n - 1].value
        /\ Size(t) > 2 => rhs[Size(t) - 2] = s[n - 2].value
    BY RuleMeets
  <2>2. QED
    BY <1>1, <2>1
<1>3. /\ Sized(ts) /\ N \in Nat /\ a \in Nat
      /\ Covers(p, x, s[n - 3].value, ts, a, b) /\ x = 1
      /\ Covers(x, y, s[n - 2].value, ts, b, c) /\ y = 8
      /\ Covers(y, z, s[n - 1].value, ts, c, e) /\ z = 13
      /\ Covers(z, t, s[n].value, ts, e, N)
  BY <1>1, <1>2, SMTT(30) DEF Marks
<1>4. u[s[n - 2].value].text = ts[s[n - 2].value].text /\ u[s[n - 1].value].text = ts[s[n - 1].value].text
  <2>1. n - 2 \in DOMAIN s /\ n - 1 \in DOMAIN s
    BY <1>1, <1>2
  <2>2. IsWord(s[n - 2].state) /\ IsWord(s[n - 1].state)
    BY <1>1, <1>2 DEF IsWord
  <2>3. \A k \in DOMAIN s : IsWord(s[k].state) => u[s[k].value].text = ts[s[k].value].text
    BY SameTexts
  <2>4. QED
    BY <2>1, <2>2, <2>3
<1> DEFINE r == RuleAction(At(yydefact, t), h, u, rhs)
<1>5. r = ReduceConfig(h, u[rhs[2]].text, u[rhs[3]].text, rhs[4])
  <2>1. At(yydefact, t) = 11
    BY RuleMeets, RuleOf
  <2>2. QED
    BY <2>1, RuleActions
<1>6. h = LinesAfter(ts, d).heap
  BY <1>2, HoldsLinesAfter
<1>7. Goto(p, 13) = 7
  BY <1>1, GotoFacts
<1> HIDE DEF a, b, c, e, p, x, y, z, d, r
<1>8. /\ b = a + 1 /\ BeginsSection(ts, a)
      /\ p = 0 => PackageOf(ts) = NoString
  <2>1. Covers(p, 1, s[n - 3].value, ts, a, b)
    BY <1>3
  <2>2. QED
    BY <2>1, CoversConfig
<1>9. /\ c = b + 1 /\ s[n - 2].value = c /\ c <= Len(ts) /\ ts[c].kind = "VALUE"
       /\ DocumentUpTo(ts, c) = DocumentUpTo(ts, b)
  <2>1. IsWord(y) /\ Covers(x, y, s[n - 2].value, ts, b, c)
    BY <1>3 DEF IsWord
  <2>2. QED
    BY <2>1, CoversWord
<1>10. /\ e = c + 1 /\ s[n - 1].value = e /\ e <= Len(ts) /\ ts[e].kind = "VALUE"
       /\ DocumentUpTo(ts, e) = DocumentUpTo(ts, c)
  <2>1. IsWord(z) /\ Covers(y, z, s[n - 1].value, ts, c, e)
    BY <1>3 DEF IsWord
  <2>2. QED
    BY <2>1, CoversWord
<1>11. c = b + 1 /\ e = b + 2 /\ b \in Nat
  BY <1>3, <1>8, <1>9, <1>10
<1>12. /\ Continues(DocumentUpTo(ts, e), d) /\ s[n].value = LinesAfter(ts, d).node
       /\ ts[e + 1].kind \in {"OPTION", "LIST"}
  <2>1. t \in {16, 18} /\ Covers(z, t, s[n].value, ts, e, N)
    BY <1>3
  <2>2. QED
    BY <2>1, CoversNode DEF d
<1>13. h = LinesAfter(ts, d).heap
  BY <1>6
<1>14. Continues(DocumentUpTo(ts, b), DocumentUpTo(ts, N))
  BY <1>9, <1>10, <1>12 DEF d
<1>15. Word(ts, b, 1) = ts[c].text /\ Word(ts, b, 2) = ts[e].text
  BY <1>3, <1>9, <1>10, <1>11, WordsAfter
<1>16. r = ReduceConfig(LinesAfter(ts, d).heap, Word(ts, b, 1), Word(ts, b, 2), LinesAfter(ts, d).node)
  <2>1. r = ReduceConfig(h, ts[c].text, ts[e].text, s[n].value)
    BY <1>2, <1>4, <1>5, <1>9, <1>10
  <2>2. QED
    BY <1>12, <1>13, <1>15, <2>1
<1>17. SectionMade(ts, d) = r /\ Covers(p, 7, SectionMade(ts, d).node, ts, a, N) /\ Holds(SectionMade(ts, d).heap, 7, ts, d)
  <2>1. IsSection(ts, a, b, N, p)
    BY <1>3, <1>8, <1>14 DEF IsSection
  <2>2. QED
    BY <1>16, <2>1, MadeSection DEF d
<1>18. Covers(p, 7, r.node, ts, a, N) /\ Holds(r.heap, 7, ts, d)
  BY <1>17
<1>19. QED
  BY <1>1, <1>7, <1>18 DEF Means, a, p, d, r

\* A node that waits on the stack is one.
LEMMA WaitingNode ==
    ASSUME NEW h, NEW s, NEW u, NEW ts, NEW m, NEW n, NEW N, NEW t, NEW rhs,
           Meets(h, s, u, ts, m, n, N, t, rhs), NEW k \in DOMAIN s, s[k].state \in NodeStates
    PROVE  s[k].value # NoNode
<1>1. Waits(h, s)
  BY RuleApplies DEF Meets
<1>2. HoldsNode(s, k)
  BY DEF HoldsNode
<1>3. QED
  BY <1>1, <1>2, HeldWaits

\* r is the list of the lines from token a + 1 to b, for an entry of state q on p.
IsLines(p, q, r, ts, a, b) ==
    /\ p # 0 /\ q \in {16, 18} /\ ts[a + 1].kind \in {"OPTION", "LIST"}
    /\ Continues(DocumentUpTo(ts, a), DocumentUpTo(ts, b)) /\ r = LinesAfter(ts, DocumentUpTo(ts, b))

LEMMA MadeLines ==
    ASSUME NEW p, NEW q, NEW r, NEW ts, NEW a, NEW b, IsLines(p, q, r, ts, a, b)
    PROVE  Covers(p, q, r.node, ts, a, b) /\ Holds(r.heap, q, ts, DocumentUpTo(ts, b))
<1>1. Covers(p, q, r.node, ts, a, b)
  BY DEF Covers, IsLines
<1>2. q \in {16, 18} /\ r.heap = LinesAfter(ts, DocumentUpTo(ts, b)).heap
  BY DEF IsLines
<1>3. Holds(r.heap, q, ts, DocumentUpTo(ts, b))
  BY <1>2, HoldsLinesAfter
<1>4. QED
  BY <1>1, <1>3

\* package : PACKAGE VALUE
LEMMA PackageLineMeans ==
    ASSUME NEW h, NEW s, NEW u, NEW ts, NEW m, NEW n, NEW N, NEW t, t = 9, NEW rhs,
           Meets(h, s, u, ts, m, n, N, t, rhs)
    PROVE  Means(h, s, u, ts, m, n, N, t, rhs)
<1> DEFINE a == m[n - 2]
<1> DEFINE b == m[n - 1]
<1> DEFINE p == s[n - 2].state
<1> DEFINE x == s[n - 1].state
<1> DEFINE d == DocumentUpTo(ts, N)
<1>1. Size(t) = 2 /\ LeftSide(t) = 10 /\ x = 2 /\ p = 0
  BY RuleMeets DEF Shape
<1>2. /\ Marks(s, m, ts, n, N, t) /\ Holds(h, t, ts, d)
      /\ n \in Nat /\ DOMAIN s = 1 .. n /\ s[n].state = t /\ Size(t) \in 1 .. n - 1
      /\ rhs[2] = s[n].value
  <2>1. /\ Marks(s, m, ts, n, N, t) /\ Holds(h, t, ts, d)
        /\ n \in Nat /\ DOMAIN s = 1 .. n /\ s[n].state = t /\ Size(t) \in 1 .. n - 1
        /\ rhs[Size(t)] = s[n].value
    BY RuleMeets
  <2>2. QED
    BY <1>1, <2>1
<1>3. /\ Sized(ts) /\ N \in Nat
      /\ Covers(p, x, s[n - 1].value, ts, a, b)
      /\ Covers(x, t, s[n].value, ts, b, N)
  BY <1>1, <1>2, SMTT(30) DEF Marks
<1>4. n \in DOMAIN s
  BY <1>1, <1>2
<1>5. u[s[n].value].text = ts[s[n].value].text
  <2>1. IsWord(s[n].state)
    BY <1>2 DEF IsWord
  <2>2. QED
    BY <1>4, <2>1, SameTexts
<1>6. u[s[n].value].text \in Strings
  <2>1. IsValue(s[n].state)
    BY <1>2, ValueStates DEF States, YYNSTATES
  <2>2. Reducible(h, s, u)
    BY DEF Meets, Applies
  <2>3. QED
    BY <1>4, <2>1, <2>2 DEF Reducible
<1> DEFINE r == RuleAction(At(yydefact, t), h, u, rhs)
<1>7. r = ReducePackage(h, u[rhs[2]].text)
  <2>1. At(yydefact, t) = 4
    BY RuleMeets, RuleOf
  <2>2. QED
    BY <2>1, RuleActions
<1>8. h = <<>>
  BY <1>2, HoldsNothing
<1>9. Goto(p, 10) = 4
  BY <1>1, GotoFacts
<1> HIDE DEF a, b, p, x, d, r
<1>10. a = 0 /\ b = 1 /\ ts[1].kind = "PACKAGE"
  BY <1>1, <1>3 DEF Covers
<1>11. /\ N = b + 1 /\ s[n].value = N /\ DocumentUpTo(ts, N) = DocumentUpTo(ts, b)
  <2>1. IsWord(t) /\ Covers(x, t, s[n].value, ts, b, N)
    BY <1>3 DEF IsWord
  <2>2. QED
    BY <2>1, CoversWord
<1>12. N = 2
  BY <1>10, <1>11
<1>13. d = <<>>
  <2>1. 0 \in Nat /\ 0 + 1 = 1
    OBVIOUS
  <2>2. DocumentUpTo(ts, 0) = <<>>
    BY DocumentNext
  <2>3. DocumentUpTo(ts, 0 + 1) = <<>>
    BY <1>10, <2>1, <2>2, LineOfNothing
  <2>4. QED
    BY <1>10, <1>11, <2>1, <2>3 DEF d
<1>14. PackageOf(ts) = ts[N].text /\ ts[N].text \in Strings
  BY <1>5, <1>6, <1>10, <1>11, <1>12 DEF PackageOf
<1>15. Start(ts) = ReducePackage(<<>>, ts[N].text)
  BY <1>14, NamesAssumption DEF Start
<1>16. r = Start(ts)
  BY <1>2, <1>5, <1>7, <1>8, <1>11, <1>15
<1>17. Covers(p, 4, r.node, ts, a, N)
  BY <1>13, <1>16 DEF Covers, d
<1>18. Holds(r.heap, 4, ts, d)
  BY <1>16 DEF Holds
<1>19. QED
  BY <1>1, <1>9, <1>17, <1>18 DEF Means, a, p, d, r

\* options : option
LEMMA FirstLineMeans ==
    ASSUME NEW h, NEW s, NEW u, NEW ts, NEW m, NEW n, NEW N, NEW t, t = 17, NEW rhs,
           Meets(h, s, u, ts, m, n, N, t, rhs)
    PROVE  Means(h, s, u, ts, m, n, N, t, rhs)
<1> DEFINE b == m[n - 1]
<1> DEFINE p == s[n - 1].state
<1> DEFINE c == DocumentUpTo(ts, b)
<1> DEFINE d == DocumentUpTo(ts, N)
<1>1. Size(t) = 1 /\ LeftSide(t) = 14 /\ p \in {8, 13}
  BY RuleMeets DEF Shape
<1>2. Marks(s, m, ts, n, N, t) /\ Holds(h, t, ts, d) /\ rhs[1] = s[n].value
  <2>1. Marks(s, m, ts, n, N, t) /\ Holds(h, t, ts, d) /\ rhs[Size(t)] = s[n].value
    BY RuleMeets
  <2>2. QED
    BY <1>1, <2>1
<1>3. /\ Sized(ts) /\ N \in Nat /\ b \in Nat
      /\ Covers(p, t, s[n].value, ts, b, N)
      /\ Stands(p, ts, b)
  BY <1>1, <1>2, SMTT(30) DEF Marks
<1> DEFINE r == RuleAction(At(yydefact, t), h, u, rhs)
<1>4. r = ReduceFirst(h, rhs[1])
  <2>1. At(yydefact, t) = 12
    BY RuleMeets, RuleOf
  <2>2. QED
    BY <2>1, RuleActions
<1>5. h = LineMade(ts, d).heap
  BY <1>2, HoldsLine
<1> DEFINE q == Goto(p, 14)
<1>6. q \in {16, 18}
  BY <1>1, GotoFacts
<1>7. c \in Documents(ts) /\ d \in Documents(ts)
  BY <1>3, DocumentTyped DEF Documents, DocumentGood
<1>8. p # 0
  BY <1>1
<1> HIDE DEF b, p, c, d, r, q
<1>9. OneLine(c, d) /\ s[n].value = LineMade(ts, d).node /\ ts[b + 1].kind \in {"OPTION", "LIST"}
  <2>1. t \in {17, 21} /\ Covers(p, t, s[n].value, ts, b, N)
    BY <1>3
  <2>2. QED
    BY <2>1, CoversNode DEF c, d
<1>10. c # <<>> /\ Last(c).lines = <<>>
  <2>1. PICK below, v : \E a \in Nat : Covers(below, p, v, ts, a, b)
    BY <1>3, <1>8 DEF Stands
  <2>2. PICK a \in Nat : Covers(below, p, v, ts, a, b)
    BY <2>1
  <2>3. QED
    BY <1>1, <2>2, CoversNode DEF c
<1>11. LinesBefore(ts, d).node = NoNode
  BY <1>7, <1>9, <1>10, NoLines, LinesBeforeLine
<1>12. d # <<>> /\ Last(d).lines # <<>> /\ Continues(c, d)
  BY <1>9 DEF OneLine, Continues
<1>13. LinesAfter(ts, d) = ReduceFirst(LineMade(ts, d).heap, LineMade(ts, d).node)
  <2>1. LinesAfter(ts, d) = ReduceInto(LinesBefore(ts, d).node, LineMade(ts, d))
    BY <1>7, <1>12, NextLine
  <2>2. QED
    BY <1>11, <2>1 DEF ReduceInto
<1>14. r = LinesAfter(ts, d)
  BY <1>2, <1>4, <1>5, <1>9, <1>13
<1>15. Covers(p, q, r.node, ts, b, N) /\ Holds(r.heap, q, ts, d)
  <2>1. IsLines(p, q, r, ts, b, N)
    BY <1>6, <1>8, <1>9, <1>12, <1>14 DEF c, d, IsLines
  <2>2. QED
    BY <2>1, MadeLines DEF d
<1>16. QED
  BY <1>1, <1>15 DEF Means, b, p, d, r, q

\* options : options option
LEMMA NextLineMeans ==
    ASSUME NEW h, NEW s, NEW u, NEW ts, NEW m, NEW n, NEW N, NEW t, t = 21, NEW rhs,
           Meets(h, s, u, ts, m, n, N, t, rhs)
    PROVE  Means(h, s, u, ts, m, n, N, t, rhs)
<1> DEFINE a == m[n - 2]
<1> DEFINE b == m[n - 1]
<1> DEFINE p == s[n - 2].state
<1> DEFINE x == s[n - 1].state
<1> DEFINE v == s[n - 1].value
<1> DEFINE c == DocumentUpTo(ts, b)
<1> DEFINE d == DocumentUpTo(ts, N)
<1>1. Size(t) = 2 /\ LeftSide(t) = 14 /\ p \in {8, 13} /\ x \in {16, 18}
  BY RuleMeets DEF Shape
<1>2. /\ Marks(s, m, ts, n, N, t) /\ Holds(h, t, ts, d)
      /\ n \in Nat /\ DOMAIN s = 1 .. n /\ Size(t) \in 1 .. n - 1
      /\ rhs[1] = v /\ rhs[2] = s[n].value
  <2>1. /\ Marks(s, m, ts, n, N, t) /\ Holds(h, t, ts, d) /\ rhs[Size(t)] = s[n].value
        /\ n \in Nat /\ DOMAIN s = 1 .. n /\ Size(t) \in 1 .. n - 1
        /\ Size(t) > 1 => rhs[Size(t) - 1] = s[n - 1].value
    BY RuleMeets
  <2>2. QED
    BY <1>1, <2>1
<1>3. /\ Sized(ts) /\ N \in Nat /\ b \in Nat
      /\ Covers(p, x, v, ts, a, b)
      /\ Covers(x, t, s[n].value, ts, b, N)
  BY <1>1, <1>2, SMTT(30) DEF Marks
<1>4. v # NoNode
  <2>1. n - 1 \in DOMAIN s
    BY <1>1, <1>2
  <2>2. s[n - 1].state \in NodeStates
    BY <1>1 DEF NodeStates
  <2>3. QED
    BY <2>1, <2>2, WaitingNode
<1> DEFINE r == RuleAction(At(yydefact, t), h, u, rhs)
<1>5. r = ReduceNext(h, rhs[1], rhs[2])
  <2>1. At(yydefact, t) = 13
    BY RuleMeets, RuleOf
  <2>2. QED
    BY <2>1, RuleActions
<1>6. h = LineMade(ts, d).heap
  BY <1>2, HoldsLine
<1> DEFINE q == Goto(p, 14)
<1>7. q \in {16, 18}
  BY <1>1, GotoFacts
<1>8. d \in Documents(ts)
  BY <1>3, DocumentTyped DEF Documents, DocumentGood
<1>9. p # 0
  BY <1>1
<1> HIDE DEF a, b, p, x, v, c, d, r, q
<1>10. OneLine(c, d) /\ s[n].value = LineMade(ts, d).node
  <2>1. t \in {17, 21} /\ Covers(x, t, s[n].value, ts, b, N)
    BY <1>3
  <2>2. QED
    BY <2>1, CoversNode DEF c, d
<1>11. Continues(DocumentUpTo(ts, a), c) /\ v = LinesAfter(ts, c).node /\ ts[a + 1].kind \in {"OPTION", "LIST"}
  <2>1. x \in {16, 18} /\ Covers(p, x, v, ts, a, b)
    BY <1>1, <1>3
  <2>2. QED
    BY <2>1, CoversNode DEF c
<1>12. LinesBefore(ts, d).node = v
  BY <1>10, <1>11, LinesBeforeLine
<1>13. d # <<>> /\ Last(d).lines # <<>> /\ Continues(DocumentUpTo(ts, a), d)
  BY <1>10, <1>11 DEF OneLine, Continues
<1>14. LinesAfter(ts, d) = ReduceNext(LineMade(ts, d).heap, v, LineMade(ts, d).node)
  <2>1. LinesAfter(ts, d) = ReduceInto(LinesBefore(ts, d).node, LineMade(ts, d))
    BY <1>8, <1>13, NextLine
  <2>2. QED
    BY <1>4, <1>12, <2>1 DEF ReduceInto
<1>15. r = LinesAfter(ts, d)
  BY <1>2, <1>5, <1>6, <1>10, <1>14
<1>16. Covers(p, q, r.node, ts, a, N) /\ Holds(r.heap, q, ts, d)
  <2>1. IsLines(p, q, r, ts, a, N)
    BY <1>7, <1>9, <1>11, <1>13, <1>15 DEF d, IsLines
  <2>2. QED
    BY <2>1, MadeLines DEF d
<1>17. QED
  BY <1>1, <1>16 DEF Means, a, p, d, r, q

\* r is the section from token a + 1 to b, for an entry of state q on p.
IsMade(p, q, r, ts, a, b) ==
    LET d == DocumentUpTo(ts, b)
    IN  /\ q \in {6, 7, 12} /\ r = SectionMade(ts, d) /\ d # <<>> /\ Front(d) = DocumentUpTo(ts, a)
        /\ p = 0 => PackageOf(ts) = NoString

LEMMA MadeOne ==
    ASSUME NEW p, NEW q, NEW r, NEW ts, NEW a, NEW b, IsMade(p, q, r, ts, a, b)
    PROVE  Covers(p, q, r.node, ts, a, b) /\ Holds(r.heap, q, ts, DocumentUpTo(ts, b))
<1>1. Covers(p, q, r.node, ts, a, b)
  BY DEF Covers, IsMade
<1>2. q \in {6, 7, 12} /\ r.heap = SectionMade(ts, DocumentUpTo(ts, b)).heap
  BY DEF IsMade
<1>3. Holds(r.heap, q, ts, DocumentUpTo(ts, b))
  BY <1>2, HoldsSection
<1>4. QED
  BY <1>1, <1>3

\* r is the list of the sections up to token b.
IsAll(p, q, r, ts, b) ==
    LET d == DocumentUpTo(ts, b)
    IN  /\ q \in {5, 11} /\ r = After(ts, d) /\ d # <<>>
        /\ p = 0 => PackageOf(ts) = NoString

LEMMA MadeAll ==
    ASSUME NEW p, NEW q, NEW r, NEW ts, NEW a, NEW b, IsAll(p, q, r, ts, b)
    PROVE  Covers(p, q, r.node, ts, a, b) /\ Holds(r.heap, q, ts, DocumentUpTo(ts, b))
<1>1. Covers(p, q, r.node, ts, a, b)
  BY DEF Covers, IsAll
<1>2. q \in {5, 11} /\ r.heap = After(ts, DocumentUpTo(ts, b)).heap
  BY DEF IsAll
<1>3. Holds(r.heap, q, ts, DocumentUpTo(ts, b))
  BY <1>2, HoldsAfter
<1>4. QED
  BY <1>1, <1>3

LEMMA SectionIsReduced ==
    ASSUME NEW ts, NEW d
    PROVE  SectionMade(ts, d) = Reduced(SectionMade(ts, d).heap, SectionMade(ts, d).node)
<1> DEFINE g == LinesAfter(ts, d).heap
<1> DEFINE e == LinesAfter(ts, d).node
<1> DEFINE type == Last(d).type
<1> DEFINE name == Last(d).name
<1>1. SectionMade(ts, d) = ReduceConfig(g, type, name, e)
  BY SectionIsConfig
<1> HIDE DEF g, e, type, name
<1>2. \E f, k : ReduceConfig(g, type, name, e) = Reduced(f, k)
  BY DEF ReduceConfig
<1>3. QED
  BY <1>1, <1>2 DEF Reduced

\* line : config
LEMMA LineOfConfigMeans ==
    ASSUME NEW h, NEW s, NEW u, NEW ts, NEW m, NEW n, NEW N, NEW t, t = 7, NEW rhs,
           Meets(h, s, u, ts, m, n, N, t, rhs)
    PROVE  Means(h, s, u, ts, m, n, N, t, rhs)
<1> DEFINE b == m[n - 1]
<1> DEFINE p == s[n - 1].state
<1> DEFINE d == DocumentUpTo(ts, N)
<1>1. Size(t) = 1 /\ LeftSide(t) = 12 /\ p \in {0, 4, 5, 11}
  BY RuleMeets DEF Shape
<1>2. Marks(s, m, ts, n, N, t) /\ Holds(h, t, ts, d) /\ rhs[1] = s[n].value
  <2>1. Marks(s, m, ts, n, N, t) /\ Holds(h, t, ts, d) /\ rhs[Size(t)] = s[n].value
    BY RuleMeets
  <2>2. QED
    BY <1>1, <2>1
<1>3. Covers(p, t, s[n].value, ts, b, N)
  BY <1>1, <1>2, SMTT(30) DEF Marks
<1> DEFINE r == RuleAction(At(yydefact, t), h, u, rhs)
<1>4. r = Reduced(h, rhs[1])
  <2>1. At(yydefact, t) = 7
    BY RuleMeets, RuleOf
  <2>2. QED
    BY <2>1, RuleActions
<1>5. h = SectionMade(ts, d).heap
  BY <1>2, HoldsSection
<1> DEFINE q == Goto(p, 12)
<1>6. q \in {6, 7, 12}
  BY <1>1, GotoFacts
<1> HIDE DEF b, p, d, r, q
<1>7. s[n].value = SectionMade(ts, d).node /\ d # <<>> /\ Front(d) = DocumentUpTo(ts, b)
  <2>1. t \in {6, 7, 12} /\ Covers(p, t, s[n].value, ts, b, N)
    BY <1>3
  <2>2. QED
    BY <2>1, CoversNode DEF d
<1>8. p = 0 => PackageOf(ts) = NoString
  BY <1>3, CoversNode
<1>9. r = SectionMade(ts, d)
  <2>1. SectionMade(ts, d) = Reduced(SectionMade(ts, d).heap, SectionMade(ts, d).node)
    BY SectionIsReduced
  <2>2. QED
    BY <1>2, <1>4, <1>5, <1>7, <2>1
<1>10. Covers(p, q, r.node, ts, b, N) /\ Holds(r.heap, q, ts, d)
  <2>1. IsMade(p, q, r, ts, b, N)
    BY <1>6, <1>7, <1>8, <1>9 DEF IsMade, d
  <2>2. QED
    BY <2>1, MadeOne DEF d
<1>11. QED
  BY <1>1, <1>10 DEF Means, b, p, d, r, q

\* lines : line
LEMMA FirstSectionMeans ==
    ASSUME NEW h, NEW s, NEW u, NEW ts, NEW m, NEW n, NEW N, NEW t, t = 6, NEW rhs,
           Meets(h, s, u, ts, m, n, N, t, rhs)
    PROVE  Means(h, s, u, ts, m, n, N, t, rhs)
<1> DEFINE b == m[n - 1]
<1> DEFINE p == s[n - 1].state
<1> DEFINE c == DocumentUpTo(ts, b)
<1> DEFINE d == DocumentUpTo(ts, N)
<1>1. Size(t) = 1 /\ LeftSide(t) = 11 /\ p \in {0, 4}
  BY RuleMeets DEF Shape
<1>2. Marks(s, m, ts, n, N, t) /\ Holds(h, t, ts, d) /\ rhs[1] = s[n].value
  <2>1. Marks(s, m, ts, n, N, t) /\ Holds(h, t, ts, d) /\ rhs[Size(t)] = s[n].value
    BY RuleMeets
  <2>2. QED
    BY <1>1, <2>1
<1>3. /\ Sized(ts) /\ N \in Nat
      /\ Covers(p, t, s[n].value, ts, b, N)
      /\ Stands(p, ts, b)
  BY <1>1, <1>2, SMTT(30) DEF Marks
<1> DEFINE r == RuleAction(At(yydefact, t), h, u, rhs)
<1>4. r = ReduceFirst(h, rhs[1])
  <2>1. At(yydefact, t) = 5
    BY RuleMeets, RuleOf
  <2>2. QED
    BY <2>1, RuleActions
<1>5. h = SectionMade(ts, d).heap
  BY <1>2, HoldsSection
<1> DEFINE q == Goto(p, 11)
<1>6. q \in {5, 11}
  BY <1>1, GotoFacts
<1>7. d \in Documents(ts)
  BY <1>3, DocumentTyped DEF Documents, DocumentGood
<1> HIDE DEF b, p, c, d, r, q
<1>8. s[n].value = SectionMade(ts, d).node /\ d # <<>> /\ Front(d) = c
  <2>1. t \in {6, 7, 12} /\ Covers(p, t, s[n].value, ts, b, N)
    BY <1>3
  <2>2. QED
    BY <2>1, CoversNode DEF c, d
<1>9. p = 0 => PackageOf(ts) = NoString
  BY <1>3, CoversNode
<1>10. c = <<>>
  <2>1. CASE p = 0
    <3>1. b = 0
      BY <1>3, <2>1 DEF Stands
    <3>2. QED
      BY <3>1, DocumentNext DEF c
  <2>2. CASE p = 4
    <3>1. PICK below, v : \E a \in Nat : Covers(below, p, v, ts, a, b)
      BY <1>3, <2>2 DEF Stands
    <3>2. PICK a \in Nat : Covers(below, p, v, ts, a, b)
      BY <3>1
    <3>3. QED
      BY <2>2, <3>2, CoversNode DEF c
  <2>3. QED
    BY <1>1, <2>1, <2>2
<1>11. Before(ts, d).node = NoNode
  <2>1. Before(ts, d) = After(ts, c)
    BY <1>8 DEF Before, After
  <2>2. QED
    BY <1>10, <2>1, NoSections
<1>12. After(ts, d) = ReduceFirst(SectionMade(ts, d).heap, SectionMade(ts, d).node)
  <2>1. After(ts, d) = ReduceInto(Before(ts, d).node, SectionMade(ts, d))
    BY <1>7, <1>8, NextSection
  <2>2. QED
    BY <1>11, <2>1 DEF ReduceInto
<1>13. r = After(ts, d)
  BY <1>2, <1>4, <1>5, <1>8, <1>12
<1>14. Covers(p, q, r.node, ts, b, N) /\ Holds(r.heap, q, ts, d)
  <2>1. IsAll(p, q, r, ts, N)
    BY <1>6, <1>8, <1>9, <1>13 DEF IsAll, d
  <2>2. QED
    BY <2>1, MadeAll DEF d
<1>15. QED
  BY <1>1, <1>14 DEF Means, b, p, d, r, q

\* lines : lines line
LEMMA NextSectionMeans ==
    ASSUME NEW h, NEW s, NEW u, NEW ts, NEW m, NEW n, NEW N, NEW t, t = 12, NEW rhs,
           Meets(h, s, u, ts, m, n, N, t, rhs)
    PROVE  Means(h, s, u, ts, m, n, N, t, rhs)
<1> DEFINE a == m[n - 2]
<1> DEFINE b == m[n - 1]
<1> DEFINE p == s[n - 2].state
<1> DEFINE x == s[n - 1].state
<1> DEFINE v == s[n - 1].value
<1> DEFINE c == DocumentUpTo(ts, b)
<1> DEFINE d == DocumentUpTo(ts, N)
<1>1. Size(t) = 2 /\ LeftSide(t) = 11 /\ p \in {0, 4} /\ x \in {5, 11}
  BY RuleMeets DEF Shape
<1>2. /\ Marks(s, m, ts, n, N, t) /\ Holds(h, t, ts, d)
      /\ n \in Nat /\ DOMAIN s = 1 .. n /\ Size(t) \in 1 .. n - 1
      /\ rhs[1] = v /\ rhs[2] = s[n].value
  <2>1. /\ Marks(s, m, ts, n, N, t) /\ Holds(h, t, ts, d) /\ rhs[Size(t)] = s[n].value
        /\ n \in Nat /\ DOMAIN s = 1 .. n /\ Size(t) \in 1 .. n - 1
        /\ Size(t) > 1 => rhs[Size(t) - 1] = s[n - 1].value
    BY RuleMeets
  <2>2. QED
    BY <1>1, <2>1
<1>3. /\ Sized(ts) /\ N \in Nat
      /\ Covers(p, x, v, ts, a, b)
      /\ Covers(x, t, s[n].value, ts, b, N)
  BY <1>1, <1>2, SMTT(30) DEF Marks
<1>4. v # NoNode
  <2>1. n - 1 \in DOMAIN s
    BY <1>1, <1>2
  <2>2. s[n - 1].state \in NodeStates
    BY <1>1 DEF NodeStates
  <2>3. QED
    BY <2>1, <2>2, WaitingNode
<1> DEFINE r == RuleAction(At(yydefact, t), h, u, rhs)
<1>5. r = ReduceNext(h, rhs[1], rhs[2])
  <2>1. At(yydefact, t) = 6
    BY RuleMeets, RuleOf
  <2>2. QED
    BY <2>1, RuleActions
<1>6. h = SectionMade(ts, d).heap
  BY <1>2, HoldsSection
<1> DEFINE q == Goto(p, 11)
<1>7. q \in {5, 11}
  BY <1>1, GotoFacts
<1>8. d \in Documents(ts)
  BY <1>3, DocumentTyped DEF Documents, DocumentGood
<1> HIDE DEF a, b, p, x, v, c, d, r, q
<1>9. s[n].value = SectionMade(ts, d).node /\ d # <<>> /\ Front(d) = c
  <2>1. t \in {6, 7, 12} /\ Covers(x, t, s[n].value, ts, b, N)
    BY <1>3
  <2>2. QED
    BY <2>1, CoversNode DEF c, d
<1>10. v = After(ts, c).node /\ (p = 0 => PackageOf(ts) = NoString)
  <2>1. x \in {5, 11} /\ Covers(p, x, v, ts, a, b)
    BY <1>1, <1>3
  <2>2. v = After(ts, c).node
    BY <2>1, CoversNode DEF c
  <2>3. x \notin {2, 3, 4}
    BY <2>1
  <2>4. p = 0 => PackageOf(ts) = NoString
    BY <2>1, <2>3, CoversNode
  <2>5. QED
    BY <2>2, <2>4
<1>11. Before(ts, d).node = v
  BY <1>9, <1>10 DEF Before, After
<1>12. After(ts, d) = ReduceNext(SectionMade(ts, d).heap, v, SectionMade(ts, d).node)
  <2>1. After(ts, d) = ReduceInto(Before(ts, d).node, SectionMade(ts, d))
    BY <1>8, <1>9, NextSection
  <2>2. QED
    BY <1>4, <1>11, <2>1 DEF ReduceInto
<1>13. r = After(ts, d)
  BY <1>2, <1>5, <1>6, <1>9, <1>12
<1>14. Covers(p, q, r.node, ts, a, N) /\ Holds(r.heap, q, ts, d)
  <2>1. IsAll(p, q, r, ts, N)
    BY <1>7, <1>9, <1>10, <1>13 DEF IsAll, d
  <2>2. QED
    BY <2>1, MadeAll DEF d
<1>15. QED
  BY <1>1, <1>14 DEF Means, a, p, d, r, q

\* The root of the AST.
LEMMA MadeRoot ==
    ASSUME NEW v, NEW ts, NEW a, NEW b, NEW d, d # <<>>, NEW h,
           h = ReduceRoot(After(ts, d).heap, Start(ts).node, After(ts, d).node).heap
    PROVE  Covers(0, 3, v, ts, a, b) /\ Holds(h, 3, ts, d)
<1>1. Covers(0, 3, v, ts, a, b)
  BY DEF Covers
<1>2. Holds(h, 3, ts, d)
  BY DEF Holds
<1>3. QED
  BY <1>1, <1>2

\* root : lines
LEMMA RootMeans ==
    ASSUME NEW h, NEW s, NEW u, NEW ts, NEW m, NEW n, NEW N, NEW t, t = 5, NEW rhs,
           Meets(h, s, u, ts, m, n, N, t, rhs)
    PROVE  Means(h, s, u, ts, m, n, N, t, rhs)
<1> DEFINE b == m[n - 1]
<1> DEFINE p == s[n - 1].state
<1> DEFINE d == DocumentUpTo(ts, N)
<1>1. Size(t) = 1 /\ LeftSide(t) = 9 /\ p = 0
  <2>1. t \in States /\ At(yydefact, t) # 0 /\ t # YYFINAL /\ p \in At(Beneath, t)
    BY RuleApplies DEF Meets
  <2>2. Size(t) = 1 /\ LeftSide(t) = 9
    BY <2>1, RuleFacts
  <2>3. QED
    BY <2>1, <2>2 DEF At, Beneath
<1>2. Marks(s, m, ts, n, N, t) /\ Holds(h, t, ts, d) /\ rhs[1] = s[n].value
  <2>1. Marks(s, m, ts, n, N, t) /\ Holds(h, t, ts, d) /\ rhs[Size(t)] = s[n].value
    BY RuleMeets
  <2>2. QED
    BY <1>1, <2>1
<1>3. Covers(p, t, s[n].value, ts, b, N)
  BY <1>1, <1>2, SMTT(30) DEF Marks
<1> DEFINE r == RuleAction(At(yydefact, t), h, u, rhs)
<1>4. r = ReduceRoot(h, NoNode, rhs[1])
  <2>1. At(yydefact, t) = 2
    BY RuleMeets, RuleOf
  <2>2. QED
    BY <2>1, RuleActions
<1>5. h = After(ts, d).heap
  BY <1>2, HoldsAfter
<1>6. Goto(p, 9) = 3
  BY <1>1, GotoFacts
<1> HIDE DEF b, p, d, r
<1>7. s[n].value = After(ts, d).node /\ d # <<>>
  <2>1. t \in {5, 11} /\ Covers(p, t, s[n].value, ts, b, N)
    BY <1>3
  <2>2. QED
    BY <2>1, CoversNode DEF d
<1>8. Start(ts).node = NoNode
  <2>1. p = 0 /\ t \notin {2, 3, 4}
    BY <1>1
  <2>2. PackageOf(ts) = NoString
    BY <1>3, <2>1, CoversNode
  <2>3. QED
    BY <2>2 DEF Start, Reduced
<1>9. r = ReduceRoot(After(ts, d).heap, Start(ts).node, After(ts, d).node)
  BY <1>2, <1>4, <1>5, <1>7, <1>8
<1>10. Covers(p, 3, r.node, ts, b, N) /\ Holds(r.heap, 3, ts, d)
  BY <1>1, <1>7, <1>9, MadeRoot
<1>11. QED
  BY <1>1, <1>6, <1>10 DEF Means, b, p, d, r

\* root : package lines
LEMMA PackagedRootMeans ==
    ASSUME NEW h, NEW s, NEW u, NEW ts, NEW m, NEW n, NEW N, NEW t, t = 11, NEW rhs,
           Meets(h, s, u, ts, m, n, N, t, rhs)
    PROVE  Means(h, s, u, ts, m, n, N, t, rhs)
<1> DEFINE a == m[n - 2]
<1> DEFINE b == m[n - 1]
<1> DEFINE p == s[n - 2].state
<1> DEFINE x == s[n - 1].state
<1> DEFINE d == DocumentUpTo(ts, N)
<1>1. Size(t) = 2 /\ LeftSide(t) = 9 /\ x = 4 /\ p = 0
  <2>1. /\ t \in States /\ At(yydefact, t) # 0 /\ t # YYFINAL /\ x \in At(Beneath, t)
        /\ Size(t) > 1 => p \in At(Beneath, x)
    BY RuleApplies DEF Meets
  <2>2. Size(t) = 2 /\ LeftSide(t) = 9
    BY <2>1, RuleFacts
  <2>3. x = 4
    BY <2>1 DEF At, Beneath
  <2>4. p \in At(Beneath, 4)
    BY <2>1, <2>2, <2>3
  <2>5. p = 0
    BY <2>4 DEF At, Beneath
  <2>6. QED
    BY <2>2, <2>3, <2>5
<1>2. /\ Marks(s, m, ts, n, N, t) /\ Holds(h, t, ts, d)
      /\ rhs[1] = s[n - 1].value /\ rhs[2] = s[n].value
  <2>1. /\ Marks(s, m, ts, n, N, t) /\ Holds(h, t, ts, d) /\ rhs[Size(t)] = s[n].value
        /\ Size(t) > 1 => rhs[Size(t) - 1] = s[n - 1].value
    BY RuleMeets
  <2>2. QED
    BY <1>1, <2>1
<1>3. Covers(p, x, s[n - 1].value, ts, a, b) /\ Covers(x, t, s[n].value, ts, b, N)
  BY <1>1, <1>2, SMTT(30) DEF Marks
<1> DEFINE r == RuleAction(At(yydefact, t), h, u, rhs)
<1>4. r = ReduceRoot(h, rhs[1], rhs[2])
  <2>1. At(yydefact, t) = 3
    BY RuleMeets, RuleOf
  <2>2. QED
    BY <2>1, RuleActions
<1>5. h = After(ts, d).heap
  BY <1>2, HoldsAfter
<1>6. Goto(p, 9) = 3
  BY <1>1, GotoFacts
<1> HIDE DEF a, b, p, x, d, r
<1>7. s[n].value = After(ts, d).node /\ d # <<>>
  <2>1. t \in {5, 11} /\ Covers(x, t, s[n].value, ts, b, N)
    BY <1>3
  <2>2. QED
    BY <2>1, CoversNode DEF d
<1>8. s[n - 1].value = Start(ts).node
  BY <1>1, <1>3, CoversNode
<1>9. r = ReduceRoot(After(ts, d).heap, Start(ts).node, After(ts, d).node)
  BY <1>2, <1>4, <1>5, <1>7, <1>8
<1>10. Covers(p, 3, r.node, ts, a, N) /\ Holds(r.heap, 3, ts, d)
  BY <1>1, <1>7, <1>9, MadeRoot
<1>11. QED
  BY <1>1, <1>6, <1>10 DEF Means, a, p, d, r

\* Every rule.
LEMMA RuleMeans ==
    ASSUME NEW h, NEW s, NEW u, NEW ts, NEW m, NEW n, NEW N, NEW t, NEW rhs,
           Meets(h, s, u, ts, m, n, N, t, rhs)
    PROVE  Means(h, s, u, ts, m, n, N, t, rhs)
<1>1. t \in States /\ At(yydefact, t) # 0 /\ t # YYFINAL
  BY RuleApplies DEF Meets
<1>2. t \in {5, 6, 7, 8, 9, 11, 12, 13, 16, 17, 18, 20, 21, 22, 23}
  BY <1>1, RuleFacts
<1>3. t = 5 => Means(h, s, u, ts, m, n, N, t, rhs)
  BY RootMeans
<1>4. t = 6 => Means(h, s, u, ts, m, n, N, t, rhs)
  BY FirstSectionMeans
<1>5. t = 7 => Means(h, s, u, ts, m, n, N, t, rhs)
  BY LineOfConfigMeans
<1>6. t = 8 => Means(h, s, u, ts, m, n, N, t, rhs)
  BY BareSectionMeans
<1>7. t = 9 => Means(h, s, u, ts, m, n, N, t, rhs)
  BY PackageLineMeans
<1>8. t = 11 => Means(h, s, u, ts, m, n, N, t, rhs)
  BY PackagedRootMeans
<1>9. t = 12 => Means(h, s, u, ts, m, n, N, t, rhs)
  BY NextSectionMeans
<1>10. t = 13 => Means(h, s, u, ts, m, n, N, t, rhs)
  BY BareNamedMeans
<1>11. t = 16 => Means(h, s, u, ts, m, n, N, t, rhs)
  BY SectionMeans
<1>12. t = 17 => Means(h, s, u, ts, m, n, N, t, rhs)
  BY FirstLineMeans
<1>13. t = 18 => Means(h, s, u, ts, m, n, N, t, rhs)
  BY NamedMeans
<1>14. t = 20 => Means(h, s, u, ts, m, n, N, t, rhs)
  BY ListMeans
<1>15. t = 21 => Means(h, s, u, ts, m, n, N, t, rhs)
  BY NextLineMeans
<1>16. t = 22 => Means(h, s, u, ts, m, n, N, t, rhs)
  BY OptionMeans
<1>17. t = 23 => Means(h, s, u, ts, m, n, N, t, rhs)
  BY ItemMeans
<1>18. QED
  BY <1>2, <1>3, <1>4, <1>5, <1>6, <1>7, <1>8, <1>9, <1>10, <1>11, <1>12, <1>13, <1>14, <1>15,
     <1>16, <1>17

-----------------------------------------------------------------------------
(***************************************************************************)
(* The heap is what the abstract parser has made so far of any file that   *)
(* goes on with the tokens that have been read.                            *)
(***************************************************************************)

\* Heap h and stack s are what there is after n tokens of the file ts.
Understood(h, s, ts, n) ==
    \E m : Marked(s, m, ts, n) /\ Holds(h, s[Len(s)].state, ts, DocumentUpTo(ts, n))

MeaningInv ==
    /\ phase = "parsing" =>
       /\ yychar = "VALUE" => yylval = Len(tokens)
       /\ \A ts : Prolongs(ts, tokens) => Understood(heap, stack, ts, Taken)
    /\ phase = "accepted" => heap = ParseFile(PackageOf(tokens), DocumentOf(tokens))

\* A stack with a new entry on top of the first entries of another.
LEMMA MarkedAlso ==
    ASSUME NEW s, NEW t, Len(s) \in Nat, NEW left \in 1 .. Len(s), Len(t) = left + 1,
           \A k \in 1 .. left : t[k] = s[k],
           NEW m, NEW ts, NEW n, Marked(s, m, ts, n),
           NEW N \in Nat, Covers(s[left].state, t[left + 1].state, t[left + 1].value, ts, m[left], N)
    PROVE  \E w : Marked(t, w, ts, N)
<1> DEFINE w == [k \in 1 .. left + 1 |-> IF k = left + 1 THEN N ELSE m[k]]
<1>1. left \in Nat /\ left >= 1 /\ left <= Len(s)
  OBVIOUS
<1>2. /\ \A k \in 1 .. Len(s) : m[k] \in Nat
      /\ m[1] = 0
      /\ \A k \in 2 .. Len(s) : Covers(s[k - 1].state, s[k].state, s[k].value, ts, m[k - 1], m[k])
  BY DEF Marked
<1>3. w \in [1 .. Len(t) -> Nat]
  <2>1. \A k \in 1 .. left + 1 : k = left + 1 \/ k \in 1 .. Len(s)
    BY <1>1
  <2>2. QED
    BY <1>2, <2>1
<1>4. /\ w[left + 1] = N
      /\ \A k \in 1 .. left : w[k] = m[k]
  BY <1>1
<1>5. w[1] = 0 /\ w[Len(t)] = N
  BY <1>1, <1>2, <1>4
<1> HIDE DEF w
<1>6. ASSUME NEW k \in 2 .. Len(t)
      PROVE  Covers(t[k - 1].state, t[k].state, t[k].value, ts, w[k - 1], w[k])
  <2>1. CASE k = left + 1
    <3>1. k - 1 = left /\ left \in 1 .. left
      BY <1>1, <2>1
    <3>2. t[k - 1] = s[left] /\ w[k - 1] = m[left] /\ w[k] = N
      BY <1>4, <2>1, <3>1
    <3>3. QED
      BY <2>1, <3>2
  <2>2. CASE k # left + 1
    <3>1. k \in 1 .. left /\ k - 1 \in 1 .. left /\ k \in 2 .. Len(s)
      BY <1>1, <2>2
    <3>2. t[k - 1] = s[k - 1] /\ t[k] = s[k] /\ w[k - 1] = m[k - 1] /\ w[k] = m[k]
      BY <1>4, <3>1
    <3>3. QED
      BY <1>2, <3>1, <3>2
  <2>3. QED
    BY <2>1, <2>2
<1>7. QED
  BY <1>3, <1>5, <1>6 DEF Marked

LEMMA MeaningInit == Init => MeaningInv
<1> SUFFICES ASSUME Init PROVE MeaningInv
  OBVIOUS
<1>1. /\ tokens = <<>> /\ stack = << Item(0, 0) >> /\ yychar = "YYEMPTY" /\ heap = <<>> /\ phase = "parsing"
  BY DEF Init
<1>2. Len(stack) = 1 /\ stack[1].state = 0 /\ Taken = 0
  BY <1>1 DEF Item, Taken
<1>3. ASSUME NEW ts PROVE Understood(heap, stack, ts, 0)
  <2> DEFINE w == [k \in 1 .. 1 |-> 0]
  <2>1. w \in [1 .. Len(stack) -> Nat] /\ w[1] = 0 /\ w[Len(stack)] = 0
    BY <1>2
  <2>2. \A k \in 2 .. Len(stack) : FALSE
    BY <1>2
  <2>3. Marked(stack, w, ts, 0)
    BY <2>1, <2>2 DEF Marked
  <2>4. Holds(heap, 0, ts, DocumentUpTo(ts, 0))
    BY <1>1 DEF Holds
  <2>5. QED
    BY <1>2, <2>3, <2>4 DEF Understood
<1>4. QED
  BY <1>1, <1>2, <1>3 DEF MeaningInv

LEMMA MeaningYylex ==
    ASSUME TextsInv, MeaningInv, Yylex
    PROVE  MeaningInv'
<1>1. PICK t \in Reader!NextTokens(tokens) :
         /\ tokens' = Append(tokens, t)
         /\ yychar' = t.kind
         /\ yylval' = IF t.kind = "VALUE" THEN Len(tokens) + 1 ELSE yylval
  BY DEF Yylex
<1>2. UNCHANGED <<stack, heap, phase>> /\ yychar = "YYEMPTY" /\ phase = "parsing"
  BY DEF Yylex, Decided, Parsing
<1> DEFINE n == Len(tokens)
<1>3. /\ n \in Nat /\ Len(tokens') = n + 1
      /\ \A i \in 1 .. n : tokens'[i] = tokens[i]
  BY <1>1, TokensTyped, AppendProperties
<1>4. yychar' # "YYEMPTY"
  BY <1>1, NextText
<1>5. Taken' = n /\ Taken = n
  BY <1>2, <1>3, <1>4 DEF Taken
<1>6. yychar' = "VALUE" => yylval' = Len(tokens')
  BY <1>1, <1>3
<1> HIDE DEF n
<1>7. ASSUME NEW ts, Prolongs(ts, tokens') PROVE Prolongs(ts, tokens)
  <2>1. Sized(ts) /\ n + 1 <= Len(ts) /\ \A i \in 1 .. n + 1 : ts[i] = tokens'[i]
    BY <1>3, <1>7 DEF Prolongs
  <2>2. Len(ts) \in Nat
    BY <2>1 DEF Sized
  <2>3. n <= Len(ts) /\ \A i \in 1 .. n : i \in 1 .. n + 1
    BY <1>3, <2>1, <2>2
  <2>4. \A i \in 1 .. n : ts[i] = tokens[i]
    BY <1>3, <2>1, <2>3
  <2>5. QED
    BY <1>3, <2>1, <2>3, <2>4 DEF Prolongs, n
<1>8. ASSUME NEW ts, Prolongs(ts, tokens') PROVE Understood(heap', stack', ts, n)
  <2>1. Understood(heap, stack, ts, n)
    BY <1>2, <1>5, <1>7, <1>8 DEF MeaningInv
  <2>2. QED
    BY <1>2, <2>1
<1>9. QED
  BY <1>2, <1>5, <1>6, <1>8 DEF MeaningInv

\* What the top of the stack stands for.
LEMMA TopStands ==
    ASSUME StringsInv, NEW m, NEW ts, NEW n, Marked(stack, m, ts, n),
           Holds(heap, stack[Len(stack)].state, ts, DocumentUpTo(ts, n))
    PROVE  OnTop(heap, Top, ts, n) /\ Holds(heap, Top, ts, DocumentUpTo(ts, n)) /\ m[Len(stack)] = n
<1>1. PICK V : stack \in Seq(Items(V))
  BY StringsTyped
<1>2. Path(stack) /\ Len(stack) \in 1 .. Len(stack)
  BY StringsTyped
<1>3. Top = stack[Len(stack)].state /\ m[Len(stack)] = n
  BY DEF Top, Last, Marked
<1>4. Stands(Top, ts, n)
  BY <1>1, <1>2, <1>3, EntriesStand
<1>5. QED
  BY <1>3, <1>4 DEF OnTop, Stands

LEMMA MeaningShift ==
    ASSUME StringsInv, TextsInv, MeaningInv, Shift
    PROVE  MeaningInv'
<1> DEFINE q == ShiftTo(Top, YYTRANSLATE[yychar])
<1> DEFINE n == Taken
<1> DEFINE top == Len(stack)
<1>1. /\ UNCHANGED <<tokens, yylval, heap, phase>> /\ phase = "parsing" /\ yychar' = "YYEMPTY"
      /\ yychar # "YYEMPTY"
  BY DEF Shift, Shifts, Parsing
<1>2. /\ top \in Nat /\ top \in 1 .. top /\ Len(stack') = top + 1 /\ stack'[top + 1] = Item(q, yylval)
      /\ \A k \in 1 .. top : stack'[k] = stack[k]
      /\ yychar \in TokenKinds /\ q \in States /\ At(yystos, q) = YYTRANSLATE[yychar]
      /\ Top \in States
  BY ShiftedStack, StringsTyped DEF Top, Last
<1>3. Top \in At(Beneath, q)
  BY ShiftFacts DEF StringsInv
<1>4. n \in Nat /\ Len(tokens) = n + 1 /\ tokens[n + 1].kind = yychar
  BY <1>1, TakenFacts
<1>5. Taken' = n + 1
  BY <1>1, <1>4 DEF Taken
<1>6. yychar = "VALUE" => yylval = n + 1
  BY <1>1, <1>4 DEF MeaningInv
<1>7. Top = stack[top].state
  BY DEF Top, Last
<1>8. \A ts : Prolongs(ts, tokens) => Understood(heap, stack, ts, n)
  BY <1>1 DEF MeaningInv
<1> HIDE DEF n, q, top
<1>9. ASSUME NEW ts, Prolongs(ts, tokens) PROVE Understood(heap', stack', ts, n + 1)
  <2>1. PICK m : Marked(stack, m, ts, n) /\ Holds(heap, stack[top].state, ts, DocumentUpTo(ts, n))
    BY <1>8, <1>9 DEF Understood, top
  <2>2. OnTop(heap, Top, ts, n) /\ m[top] = n
    BY <2>1, TopStands DEF top
  <2>3. Sized(ts) /\ n + 1 <= Len(ts) /\ ts[n + 1] = tokens[n + 1]
    <3>1. n + 1 \in 1 .. n + 1
      BY <1>4
    <3>2. QED
      BY <1>4, <1>9, <3>1 DEF Prolongs
  <2>4. ts[n + 1].kind = yychar
    BY <1>4, <2>3
  <2>5. Pushed(heap, Top, q, yylval, ts, n)
    BY <1>2, <1>3, <1>4, <1>6, <2>2, <2>3, <2>4, ShiftMeans
  <2>6. Covers(stack[top].state, q, yylval, ts, m[top], n + 1) /\ Holds(heap, q, ts, DocumentUpTo(ts, n + 1))
    BY <1>7, <2>2, <2>5 DEF Pushed
  <2>7. stack'[top + 1].state = q /\ stack'[top + 1].value = yylval
    BY <1>2 DEF Item
  <2>8. PICK w : Marked(stack', w, ts, n + 1)
    <3>1. n + 1 \in Nat /\ top \in 1 .. Len(stack) /\ Len(stack) \in Nat
      BY <1>2, <1>4 DEF top
    <3>2. Covers(stack[top].state, stack'[top + 1].state, stack'[top + 1].value, ts, m[top], n + 1)
      BY <2>6, <2>7
    <3>3. QED
      BY <1>2, <2>1, <3>1, <3>2, MarkedAlso
  <2>9. Holds(heap', stack'[Len(stack')].state, ts, DocumentUpTo(ts, n + 1))
    BY <1>1, <1>2, <2>6, <2>7
  <2>10. QED
    BY <2>8, <2>9 DEF Understood
<1>10. QED
  BY <1>1, <1>5, <1>9 DEF MeaningInv

LEMMA MeaningReduce ==
    ASSUME StringsInv, TextsInv, AstInv, MeaningInv, Reduce
    PROVE  MeaningInv'
<1> DEFINE top == Len(stack)
<1> DEFINE left == top - Size(Top)
<1> DEFINE q == Goto(stack[left].state, LeftSide(Top))
<1> DEFINE n == Taken
<1>1. UNCHANGED <<tokens, yychar, yylval, phase>> /\ phase = "parsing"
  BY DEF Reduce, Parsing
<1>2. /\ Top \in States /\ top \in Nat /\ left \in 1 .. top /\ Len(stack') = left + 1
      /\ \A k \in 1 .. left : stack'[k] = stack[k]
  BY ReducedStack
<1>3. PICK rhs :
        /\ \A j \in 1 .. Size(Top) : rhs[j] = stack[left + j].value
        /\ LET r == RuleAction(At(yydefact, Top), heap, tokens, rhs)
           IN  heap' = r.heap /\ stack'[left + 1] = Item(q, r.node)
  BY ReducedStack
<1> DEFINE r == RuleAction(At(yydefact, Top), heap, tokens, rhs)
<1>4. heap' = r.heap /\ stack'[left + 1].state = q /\ stack'[left + 1].value = r.node
  BY <1>3 DEF Item
<1>5. Applies(heap, stack, tokens, top, Top, rhs)
  BY <1>3, ReduceApplies
<1>6. Taken' = n /\ n \in Nat
  BY <1>1, TakenFacts DEF Taken
<1>7. Top = stack[top].state
  BY DEF Top, Last
<1>8. \A ts : Prolongs(ts, tokens) => Understood(heap, stack, ts, n)
  BY <1>1 DEF MeaningInv
<1>9. \A k \in DOMAIN stack : IsValue(stack[k].state) => stack[k].value \in 1 .. Len(tokens)
  BY StringsTyped DEF StringsInv
<1>10. Top \in {8, 20} => Len(tokens) = n + 1 /\ tokens[n + 1].kind # "VALUE"
  <2>1. HAVE Top \in {8, 20}
  <2>2. ~IsDefault(Top)
    BY <2>1, NeedsLookahead
  <2>3. yychar # "YYEMPTY" /\ ShiftTo(Top, YYTRANSLATE[yychar]) = 0
    BY <2>2 DEF Reduce, Decided, Shifts
  <2>4. yychar \in TokenKinds
    BY <2>3 DEF StringsInv, StackInv, Symbols
  <2>5. yychar \notin At(Takes, Top)
    BY <1>2, <2>3, <2>4, NotShifted
  <2>6. "VALUE" \in At(Takes, 8) /\ "VALUE" \in At(Takes, 20)
    BY DEF At, Takes
  <2>7. yychar # "VALUE"
    BY <2>1, <2>5, <2>6
  <2>8. QED
    BY <1>1, <2>3, <2>7, TakenFacts
<1> HIDE DEF top, q, n, r
<1>11. ASSUME NEW ts, Prolongs(ts, tokens) PROVE Understood(heap', stack', ts, n)
  <2>1. PICK m : Marked(stack, m, ts, n) /\ Holds(heap, stack[top].state, ts, DocumentUpTo(ts, n))
    BY <1>8, <1>11 DEF Understood, top
  <2>2. Top \in {8, 20} => ts[n + 1].kind # "VALUE"
    <3>1. HAVE Top \in {8, 20}
    <3>2. n + 1 \in 1 .. Len(tokens) /\ tokens[n + 1].kind # "VALUE"
      BY <1>6, <1>10, <3>1
    <3>3. QED
      BY <1>11, <3>2 DEF Prolongs
  <2>3. Meets(heap, stack, tokens, ts, m, top, n, Top, rhs)
    BY <1>5, <1>7, <1>9, <1>11, <2>1, <2>2 DEF Meets
  <2>4. Means(heap, stack, tokens, ts, m, top, n, Top, rhs)
    BY <2>3, RuleMeans
  <2>5. Covers(stack[left].state, q, r.node, ts, m[left], n) /\ Holds(r.heap, q, ts, DocumentUpTo(ts, n))
    BY <2>4 DEF Means, q, r
  <2> HIDE DEF left
  <2>6. PICK w : Marked(stack', w, ts, n)
    <3>1. left \in 1 .. Len(stack) /\ Len(stack) \in Nat
      BY <1>2 DEF top
    <3>2. Covers(stack[left].state, stack'[left + 1].state, stack'[left + 1].value, ts, m[left], n)
      BY <1>4, <2>5
    <3>3. QED
      BY <1>2, <1>6, <2>1, <3>1, <3>2, MarkedAlso
  <2>7. Holds(heap', stack'[Len(stack')].state, ts, DocumentUpTo(ts, n))
    BY <1>2, <1>4, <2>5
  <2>8. QED
    BY <2>6, <2>7 DEF Understood
<1>12. yychar' = "VALUE" => yylval' = Len(tokens')
  BY <1>1 DEF MeaningInv
<1>13. QED
  BY <1>1, <1>6, <1>11, <1>12 DEF MeaningInv

-----------------------------------------------------------------------------
(***************************************************************************)
(* The operators of the abstract parser are those of the parser.           *)
(***************************************************************************)

LEMMA ReaderNodes ==
    /\ Reader!NoNode = NoNode
    /\ \A h, kind, name, value : Reader!AstNodeNew(h, kind, name, value) = AstNodeNew(h, kind, name, value)
    /\ \A h : Reader!Newest(h) = Newest(h) /\ Reader!Whole(h) = Whole(h)
    /\ \A h, node : Reader!Reduced(h, node) = Reduced(h, node)
<1>1. Reader!NoNode = NoNode
  BY DEF Reader!NoNode, NoNode
<1>2. \A h, kind, name, value : Reader!AstNodeNew(h, kind, name, value) = AstNodeNew(h, kind, name, value)
  BY DEF Reader!AstNodeNew, AstNodeNew, Reader!NewNode, NewNode, Reader!Pool, Pool
<1>3. \A h : Reader!Newest(h) = Newest(h) /\ Reader!Whole(h) = Whole(h)
  BY DEF Reader!Newest, Newest, Reader!Whole, Whole
<1>4. \A h, node : Reader!Reduced(h, node) = Reduced(h, node)
  BY DEF Reader!Reduced, Reduced
<1>5. QED
  BY <1>1, <1>2, <1>3, <1>4

LEMMA ReaderAdd == \A h, p, n : Reader!AstNodeAdd(h, p, n) = AstNodeAdd(h, p, n)
<1>1. ASSUME NEW h, NEW p, NEW n PROVE Reader!AstNodeAdd(h, p, n) = AstNodeAdd(h, p, n)
  BY DEF Reader!AstNodeAdd, AstNodeAdd, Reader!Kids, Kids
<1>2. QED
  BY <1>1

LEMMA ReaderMove == \A h, d, s : Reader!AstNodeMove(h, d, s) = AstNodeMove(h, d, s)
<1>1. ASSUME NEW h, NEW d, NEW s PROVE Reader!AstNodeMove(h, d, s) = AstNodeMove(h, d, s)
  BY DEF Reader!AstNodeMove, AstNodeMove, Reader!KidSet, KidSet
<1>2. QED
  BY <1>1

LEMMA ReaderMerge == \A h, n : Reader!AstNodeMerge(h, n) = AstNodeMerge(h, n)
<1>1. ASSUME NEW h, NEW n PROVE Reader!AstNodeMerge(h, n) = AstNodeMerge(h, n)
  BY DEF Reader!AstNodeMerge, AstNodeMerge, Reader!Kids, Kids, Reader!Twins, Twins, Reader!Heir, Heir,
         Reader!Inherited, Inherited, Reader!NewParent, NewParent, Reader!Emptied, Emptied,
         Reader!FlattenSeq, FlattenSeq, Reader!KidSet, KidSet, Reader!Range, Range, Reader!NoNode, NoNode
<1>2. QED
  BY <1>1

LEMMA ReaderNames ==
    ASSUME NEW h, NEW c
    PROVE  Reader!UnnamedSectionNameSet(h, c) = UnnamedSectionNameSet(h, c)
BY DEF Reader!UnnamedSectionNameSet, UnnamedSectionNameSet, Reader!NamedTypes, NamedTypes,
       Reader!KidSet, KidSet, Reader!Deleted, Deleted, Reader!NoNode, NoNode, Reader!Waiting, Waiting,
       Reader!WaitingAt, WaitingAt, Reader!NameAt, NameAt, Reader!UnnamedName, UnnamedName,
       Reader!Cardinality, Cardinality

LEMMA ReaderFirst == \A h, n : Reader!ReduceFirst(h, n) = ReduceFirst(h, n)
<1>1. ASSUME NEW h, NEW n PROVE Reader!ReduceFirst(h, n) = ReduceFirst(h, n)
  BY ReaderNodes, ReaderAdd DEF Reader!ReduceFirst, ReduceFirst, Reader!Wrap, Wrap
<1>2. QED
  BY <1>1

LEMMA ReaderInto == \A list, r : Reader!ReduceInto(list, r) = ReduceInto(list, r)
<1>1. ASSUME NEW list, NEW r PROVE Reader!ReduceInto(list, r) = ReduceInto(list, r)
  BY ReaderNodes, ReaderAdd, ReaderFirst
     DEF Reader!ReduceInto, ReduceInto, Reader!ReduceNext, ReduceNext
<1>2. QED
  BY <1>1

LEMMA ReaderLine == \A h, l : Reader!ReduceLine(h, l) = ReduceLine(h, l)
<1>1. ASSUME NEW h, NEW l PROVE Reader!ReduceLine(h, l) = ReduceLine(h, l)
  BY ReaderNodes, ReaderAdd
     DEF Reader!ReduceLine, ReduceLine, Reader!ReduceOption, ReduceOption, Reader!ReduceList, ReduceList
<1>2. QED
  BY <1>1

LEMMA ReaderConfig ==
    \A h, type, name, options :
        Reader!ReduceConfig(h, type, name, options) = ReduceConfig(h, type, name, options)
<1>1. ASSUME NEW h, NEW type, NEW name, NEW options
      PROVE  Reader!ReduceConfig(h, type, name, options) = ReduceConfig(h, type, name, options)
  BY ReaderNodes, ReaderAdd, ReaderMove, ReaderMerge DEF Reader!ReduceConfig, ReduceConfig
<1>2. QED
  BY <1>1

LEMMA ReaderRoot ==
    \A h, package, lines : Reader!ReduceRoot(h, package, lines) = ReduceRoot(h, package, lines)
<1>1. ASSUME NEW h, NEW package, NEW lines
      PROVE  Reader!ReduceRoot(h, package, lines) = ReduceRoot(h, package, lines)
  BY ReaderNodes, ReaderAdd, ReaderMove, ReaderMerge, ReaderNames
     DEF Reader!ReduceRoot, ReduceRoot, Reader!AST_NODE_ROOT_NAME, AST_NODE_ROOT_NAME,
         Reader!AST_NODE_CONFIG_NAME, AST_NODE_CONFIG_NAME
<1>2. QED
  BY <1>1

LEMMA ReaderPackage == \A h, name : Reader!ReducePackage(h, name) = ReducePackage(h, name)
<1>1. ASSUME NEW h, NEW name PROVE Reader!ReducePackage(h, name) = ReducePackage(h, name)
  BY ReaderNodes DEF Reader!ReducePackage, ReducePackage, Reader!AST_NODE_PACKAGE_NAME, AST_NODE_PACKAGE_NAME
<1>2. QED
  BY <1>1

\* Two functions that are defined alike.
LEMMA ReaderOptions ==
    ASSUME NEW h, NEW lines
    PROVE  Reader!ReduceOptions(h, lines) = ReduceOptions(h, lines)
<1> DEFINE P(f) == f = [i \in 0 .. Len(lines) |->
                          IF i = 0 THEN Reader!Reduced(h, Reader!NoNode)
                          ELSE Reader!ReduceInto(f[i - 1].node, Reader!ReduceLine(f[i - 1].heap, lines[i]))]
<1> DEFINE Q(f) == f = [i \in 0 .. Len(lines) |->
                          IF i = 0 THEN Reduced(h, NoNode)
                          ELSE ReduceInto(f[i - 1].node, ReduceLine(f[i - 1].heap, lines[i]))]
<1>1. \A f : P(f) <=> Q(f)
  BY ReaderNodes, ReaderInto, ReaderLine
<1>2. Reader!ReduceOptions(h, lines) = (CHOOSE f : P(f))[Len(lines)]
  BY DEF Reader!ReduceOptions
<1>3. ReduceOptions(h, lines) = (CHOOSE f : Q(f))[Len(lines)]
  BY DEF ReduceOptions
<1> HIDE DEF P, Q
<1>4. (CHOOSE f : P(f)) = (CHOOSE f : Q(f))
  BY <1>1
<1>5. QED
  BY <1>2, <1>3, <1>4

LEMMA ReaderSection == \A h, s : Reader!ReduceSection(h, s) = ReduceSection(h, s)
BY ReaderOptions, ReaderConfig DEF Reader!ReduceSection, ReduceSection

\* So are these.
LEMMA ReaderLines ==
    ASSUME NEW h, NEW document
    PROVE  Reader!ReduceLines(h, document) = ReduceLines(h, document)
<1> DEFINE P(f) == f = [i \in 0 .. Len(document) |->
                          IF i = 0 THEN Reader!Reduced(h, Reader!NoNode)
                          ELSE Reader!ReduceInto(f[i - 1].node, Reader!ReduceSection(f[i - 1].heap, document[i]))]
<1> DEFINE Q(f) == f = [i \in 0 .. Len(document) |->
                          IF i = 0 THEN Reduced(h, NoNode)
                          ELSE ReduceInto(f[i - 1].node, ReduceSection(f[i - 1].heap, document[i]))]
<1>1. \A f : P(f) <=> Q(f)
  BY ReaderNodes, ReaderInto, ReaderSection
<1>2. Reader!ReduceLines(h, document) = (CHOOSE f : P(f))[Len(document)]
  BY DEF Reader!ReduceLines
<1>3. ReduceLines(h, document) = (CHOOSE f : Q(f))[Len(document)]
  BY DEF ReduceLines
<1> HIDE DEF P, Q
<1>4. (CHOOSE f : P(f)) = (CHOOSE f : Q(f))
  BY <1>1
<1>5. QED
  BY <1>2, <1>3, <1>4

LEMMA ReaderCreate == Reader!AstCreate = AstCreate
BY ReaderNodes, ReaderAdd DEF Reader!AstCreate, AstCreate, Reader!AST_NODE_ROOT_NAME, AST_NODE_ROOT_NAME,
   Reader!AST_NODE_CONFIG_NAME, AST_NODE_CONFIG_NAME

LEMMA ReaderParseFile ==
    ASSUME NEW package, NEW document
    PROVE  Reader!ParseFile(package, document) = ParseFile(package, document)
BY ReaderNodes, ReaderPackage, ReaderLines, ReaderCreate, ReaderRoot DEF Reader!ParseFile, ParseFile

LEMMA ReaderDocument ==
    ASSUME NEW ts
    PROVE  Reader!DocumentOf(ts) = DocumentOf(ts) /\ Reader!PackageOf(ts) = PackageOf(ts)
<1>1. Reader!DocumentOf(ts) = DocumentOf(ts)
  BY DEF Reader!DocumentOf, DocumentOf, Reader!DocumentUpTo, DocumentUpTo, Reader!Extended, Extended,
         Reader!Section, Section, Reader!Word, Word, Reader!LineAt, LineAt, Reader!Line, Line
<1>2. Reader!PackageOf(ts) = PackageOf(ts)
  BY DEF Reader!PackageOf, PackageOf
<1>3. QED
  BY <1>1, <1>2

\* The AST of a file that is accepted.
LEMMA MeaningAccept ==
    ASSUME StringsInv, TextsInv, GrammarInv, MeaningInv, Accept
    PROVE  heap = ParseFile(PackageOf(tokens), DocumentOf(tokens))
<1>1. phase = "parsing" /\ Top = 10
  BY DEF Accept, YYFINAL
<1>2. Taken = Len(tokens)
  <2>1. yychar = "YYEMPTY"
    BY <1>1 DEF GrammarInv, YYFINAL
  <2>2. QED
    BY <1>1, <2>1, TakenFacts
<1>3. Prolongs(tokens, tokens)
  BY TokensTyped DEF Prolongs, Sized
<1> DEFINE d == DocumentUpTo(tokens, Len(tokens))
<1>4. Holds(heap, 10, tokens, d)
  <2>1. PICK m : Marked(stack, m, tokens, Taken) /\ Holds(heap, stack[Len(stack)].state, tokens, DocumentUpTo(tokens, Taken))
    BY <1>1, <1>3 DEF MeaningInv, Understood
  <2>2. Top = stack[Len(stack)].state
    BY DEF Top, Last
  <2>3. QED
    BY <1>1, <1>2, <2>1, <2>2
<1>5. d # <<>> /\ heap = ReduceRoot(After(tokens, d).heap, Start(tokens).node, After(tokens, d).node).heap
  BY <1>4 DEF Holds
<1>6. d = DocumentOf(tokens)
  BY DEF DocumentOf
<1> HIDE DEF d
<1>7. QED
  BY <1>5, <1>6 DEF ParseFile, Start, After

LEMMA MeaningNext ==
    ASSUME StringsInv, TextsInv, AstInv, GrammarInv, MeaningInv, [Next]_parserVars
    PROVE  MeaningInv'
<1>1. CASE Yylex
  BY <1>1, MeaningYylex
<1>2. CASE Shift
  BY <1>2, MeaningShift
<1>3. CASE Reduce
  BY <1>3, MeaningReduce
<1>4. CASE SyntaxError
  BY <1>4 DEF SyntaxError, MeaningInv
<1>5. CASE Pop
  BY <1>5 DEF Pop, MeaningInv
<1>6. CASE Abort
  BY <1>6 DEF Abort, MeaningInv
<1>7. CASE Accept
  <2>1. heap = ParseFile(PackageOf(tokens), DocumentOf(tokens))
    BY <1>7, MeaningAccept
  <2>2. UNCHANGED <<tokens, heap>> /\ phase' = "accepted"
    BY <1>7 DEF Accept
  <2>3. QED
    BY <2>1, <2>2 DEF MeaningInv
<1>8. CASE Returned \/ UNCHANGED parserVars
  <2>1. UNCHANGED <<tokens, stack, yychar, yylval, heap, phase>>
    BY <1>8 DEF Returned, parserVars
  <2>2. Taken' = Taken
    BY <2>1 DEF Taken
  <2>3. QED
    BY <2>1, <2>2 DEF MeaningInv
<1>9. QED
  BY <1>1, <1>2, <1>3, <1>4, <1>5, <1>6, <1>7, <1>8 DEF Next, ParserNext

ReadingInv == StringsInv /\ TextsInv /\ AstInv /\ GrammarInv /\ MeaningInv

LEMMA ReadingInvariant == ParserSpec => []ReadingInv
<1>1. Init => ReadingInv
  BY StringsInit, TextsInit, AstInit, GrammarInit, MeaningInit DEF ReadingInv
<1>2. ReadingInv /\ [Next]_parserVars => ReadingInv'
  BY StringsNext, TextsNext, AstNext, GrammarNext, MeaningNext DEF ReadingInv
<1>3. QED
  BY <1>1, <1>2, PTL DEF ParserSpec

\* A step of the parser is one of the abstract parser, or leaves alone what that shows.
LEMMA ReadingStep ==
    ASSUME ReadingInv, [Next]_parserVars
    PROVE  [Reader!ReaderNext]_(Reader!readerVars)
<1> DEFINE reading == phase \in {"parsing", "erring"}
<1>1. /\ StringsInv /\ TextsInv /\ AstInv /\ GrammarInv /\ MeaningInv
  BY DEF ReadingInv
<1>2. /\ reading => Result = Reader!Reading
      /\ reading' => Result' = Reader!Reading
  BY DEF Result, Reader!Reading
<1>3. UNCHANGED tokens /\ reading /\ reading' => UNCHANGED Reader!readerVars
  BY <1>2 DEF Reader!readerVars
<1>4. CASE Yylex
  <2>1. reading /\ reading' /\ \E t \in Reader!NextTokens(tokens) : tokens' = Append(tokens, t)
    BY <1>4 DEF Yylex, Parsing
  <2>2. Viable(tokens) /\ ~Ended(tokens)
    BY <1>1, <1>4, ReadsOnlyViable
  <2>3. Reader!Viable(tokens) /\ ~Reader!Ended(tokens)
    BY <2>2, ReaderGrammar
  <2>4. Reader!ReadToken
    BY <1>2, <2>1, <2>3 DEF Reader!ReadToken
  <2>5. QED
    BY <2>4 DEF Reader!ReaderNext
<1>5. CASE Shift
  BY <1>3, <1>5 DEF Shift, Parsing
<1>6. CASE Reduce
  BY <1>3, <1>6 DEF Reduce, Parsing
<1>7. CASE SyntaxError
  BY <1>3, <1>7 DEF SyntaxError, Parsing
<1>8. CASE Pop
  BY <1>3, <1>8 DEF Pop
<1>9. CASE Abort
  <2>1. phase = "erring" /\ phase' = "aborted" /\ UNCHANGED tokens
    BY <1>9 DEF Abort
  <2>2. ~Reader!Viable(tokens)
    BY <1>1, <2>1, ReaderGrammar DEF GrammarInv
  <2>3. Result' = Reader!Rejected
    BY <2>1 DEF Result, Reader!Rejected
  <2>4. Reader!Reject
    BY <1>2, <2>1, <2>2, <2>3 DEF Reader!Reject
  <2>5. QED
    BY <2>4 DEF Reader!ReaderNext
<1>10. CASE Accept
  <2>1. phase = "parsing" /\ phase' = "accepted" /\ UNCHANGED <<tokens, heap>>
    BY <1>10 DEF Accept
  <2>2. Reader!Grammatical(tokens)
    BY <1>1, <1>10, AcceptsGrammatical, ReaderGrammar
  <2>3. heap = Reader!ParseFile(Reader!PackageOf(tokens), Reader!DocumentOf(tokens))
    BY <1>1, <1>10, MeaningAccept, ReaderParseFile, ReaderDocument
  <2>4. Result' = Reader!Accepted(heap)
    BY <2>1 DEF Result, Reader!Accepted
  <2>5. Reader!Accept
    BY <1>2, <2>1, <2>2, <2>3, <2>4 DEF Reader!Accept
  <2>6. QED
    BY <2>5 DEF Reader!ReaderNext
<1>11. CASE Returned \/ UNCHANGED parserVars
  <2>1. UNCHANGED <<tokens, heap, phase>>
    BY <1>11 DEF Returned, parserVars
  <2>2. QED
    BY <2>1 DEF Reader!readerVars, Result
<1>12. QED
  BY <1>4, <1>5, <1>6, <1>7, <1>8, <1>9, <1>10, <1>11 DEF Next, ParserNext

\* The automaton reads files as the abstract parser does: it stops at the first token
\* that cannot be part of a file, accepts the files and nothing else, and returns the AST
\* that the semantic actions make of a file in order.
THEOREM ParserImplementsReader == ParserSpec => ReadsAsPromised
<1>1. Init => Reader!ReaderInit
  BY DEF Init, Reader!ReaderInit, Result, Reader!Reading
<1>2. ReadingInv /\ [Next]_parserVars => [Reader!ReaderNext]_(Reader!readerVars)
  BY ReadingStep
<1>3. QED
  BY <1>1, <1>2, ReadingInvariant, PTL DEF ParserSpec, ReadsAsPromised, Reader!ReaderSpec
=============================================================================
