# A TLA+ specification of uci2

uci2 is a C library that reads a UCI configuration file into an abstract
syntax tree (AST), lets a program read and edit the tree, and writes it back.
The modules here model all of that: the lexer, the automaton bison generates,
the semantic actions that build the tree, the functions that edit it, the
iterator over it, the text that is written, and the file it is written to. TLC
checks them on small instances, and TLAPS proves the core facts for any instance.

## 1. The system

### Components

| component | source | state | operations |
|---|---|---|---|
| AST | `src/src/ast.c`, `ast.h` | a pool that owns all nodes; each node has a kind, a name, a value, a parent pointer, an array of children with a count, a counter of unnamed sections | new, add, move, merge, name the unnamed sections, destroy |
| lexer | `uci2.l`, from which flex makes `lexer.c` | the scanned string and a place in it, two start conditions | nine rules: words, quoted words, keywords, comments, white space |
| grammar | `uci2.y` | none | 15 rules with semantic actions that build the AST bottom up |
| parser | `parser.c`, which bison makes of the grammar | a stack of states and values, a lookahead, the value of the last word | shift, reduce, accept, error |
| configuration files | `uci2.c` | files below `/etc/config` | `uci2_config_parse`, `uci2_ast_sync`, `uci2_config_remove`, `uci2_ast_create` |
| node API | `uci2.c` | none of its own: it works on the AST | find a node; add, name, retype, set, remove sections, options, lists and list elements |
| iterator | `uci2.c` | a node and two offsets into arrays of children | new, next, destroy |
| helpers | `uci2.c`, `utils/` | none | string to boolean, error descriptions, version, allocation, debug output |

### How they interact

The library is single-threaded and has no callbacks and no locks. Inside of a
process everything meets in the AST: `uci2_config_parse` reads a file into
memory and calls `yyparse`, which calls `yylex` for tokens; the semantic actions
build the AST, the node API edits it in place, iterators keep offsets into its
arrays across edits, and `uci2_ast_sync` walks it and writes it. Processes meet
in the files, which nothing protects.

A node is never freed before the AST is; *deleting* a
node clears its parent pointer and leaves it in the arrays that hold it, and
every loop has to skip it by itself. Between the config node and its sections
there is a level of *section type* nodes that clients never see: a section that
is added or retyped first gets a type node of its own, and `ast_node_merge`
then joins the type nodes with one name.

### What is hard

* Long sequences of legal calls. Merging moves nodes between arrays, leaves
  emptied arrays behind and resets counters; deleted nodes stay in the way;
  assertions hold or fail depending on what happened many calls before.
* Iterators: the arrays they walk over are moved, emptied, extended and left
  stale between two steps.
* Failures half way: the functions that add a node create it, set its
  attributes one by one, and remove it again when one is refused.
* Syntax errors: wherever one stops the parser, strings are on its stack, in its
  lookahead and in nodes, and each must be freed once.
* Text: values are written in quotes and nothing is escaped; keywords are
  keywords wherever they stand; one rule of the lexer matches nothing at all.
* Files: truncated before they are written, written in many steps, read by
  other processes meanwhile, results of the last calls ignored.

### What makes each component correct

* AST: it is a tree of nodes of the right kinds; each node is in one array
  only; the parent pointers and the arrays agree; type nodes are merged.
* Lexer: it advances, lines do not influence each other, and what was written is
  read back.
* Grammar and parser: exactly the configuration files are accepted, the first wrong
  token stops the parser, every string has one owner, and the AST of a file means
  what the file means: no section, option or list element is lost, and the
  order is kept.
* Node API: names stay distinct; a failed call changes nothing that is
  written; what was deleted stays deleted; a search finds a node if and only if
  it is there; no assertion and no `abort()` is reached.
* Iterator: it reads inside arrays, returns what stays exactly once, and ends.
* Files: reading what was written gives the document that was written, also
  after a crash; calls return whatever other processes do.

## 2. The modules

| module | what it holds |
|---|---|
| `UciAst` | the heap: a sequence of node records, a node being its position in the pool; every operation of `ast.c` as an operator from heap to heap; what makes a heap well-formed |
| `UciDocument` | extends `UciAst`: a file as a sequence of sections with lines; the semantic actions of the grammar, `uci2_ast_create`, and the document `uci2_ast_sync` writes |
| `UciNodes` | extends `UciDocument`: the node API as a state machine with the variables `heap` and `err`; one operator per function, one action per function that changes the AST |
| `UciNodesProps` | its properties |
| `UciIterator` | extends `UciNodes`: an iterator next to the node API, with its properties |
| `UciGrammar` | extends `UciDocument`: tokens, which sequences of them are files or may become files, and the document of a file |
| `UciReader` | extends `UciGrammar`: the abstract specification of `yyparse`: reads tokens until they are a file or can no longer become one |
| `UciParser` | extends `UciGrammar`: `yyparse` with the tables of bison; implements `UciReader` |
| `UciParserProps` | its properties, with the meaning of a file stated without nodes |
| `UciText` | extends `UciGrammar`: texts, the rules of the lexer, and what `uci2_ast_sync` writes |
| `UciLexer` | extends `UciText`: `yylex` on one text, with its properties |
| `UciConfigFile` | extends `UciText`: processes that parse, write and remove one file, with their properties |
| `MCSections`, `MCOptions`, `MCIterator`, `MCLexer`, `MCConfigFile` | the instances TLC checks |
| `UciAstProofs` | facts about sequences and their concatenation; the operators of `UciAst` keep a well-formed heap well-formed and an orderly one orderly, and a heap that the parser is building what it should be |
| `UciNodesProofs` | the theorems about `Spec` of `UciNodes` |
| `UciIteratorProofs` | the theorems about `IterSpec` |
| `UciParserProofs` | the theorems about `ParserSpec` |
| `UciReaderProofs` | `ParserSpec` implements the abstract reader |
| `UciTextProofs` | what is written is a text; a match of the lexer takes at least one symbol |
| `UciLexerProofs`, `UciConfigFileProofs` | the theorems about `LexerSpec` and `FileSpec` |

The levels compose downwards by extension: `UciConfigFile` reads a text with `Lex`
and writes one with `Render`, both of `UciText`; the tokens of `Lex` are those of
`UciGrammar`, from which `UciParser` builds the heap of `UciAst`; the heap is what
`UciNodes` and `UciIterator` work on. What a level takes from the one below is
checked there: `MCParser` shows that `Grammatical` and `DocumentOf`, which the
file level uses for a whole parse, are what the automaton does.

### How state and actions correspond to the code

The AST and the node API:

* `heap[n]` is the node `ast->pool->children[n - 1]`. Its fields are those of
  `struct ast_node_s`; `children` is the whole allocated array and `number` is
  `children_number`, because `ast_node_merge` resets the count and leaves the
  array. A NULL parent pointer, which marks a deleted node, is `NoNode`, and the
  pool is `Pool`. Strings are model values; the name of an unnamed section
  (`"@type[3]"`) is a pair of a type and a number.
* `ast_node_merge` and `unnamed_section_name_set` are loops in the code. In
  `UciAst` they are stated by what each node ends up as: which child of the
  node is the *heir* of a name, who inherits what in which order, which number a
  waiting section gets. The arms of their `CASE` expressions are disjoint when
  a node has no child that is also its grandchild, which holds in every heap
  whose nodes are layered by kind (`Layered`, proved).
* A function of the library is an operator that returns the heap, the error
  code and `*out`. Its checks come in the order of the code, so that the error
  code is the one the code returns; a NULL `out` argument is answered like any
  other NULL argument and is not modelled by itself. `err = "ABORTED"` stands for
  a process that is gone: a failed assertion, `abort()`, or NULL passed to
  `strcmp`.
* `Handles` are the nodes a client can get hold of. A client calls any function
  with any handle, deleted ones included, and any name, NULL included. It may
  hold nodes of one AST only.
* An iterator is the record of its node and its two offsets. `Reads` is the
  set of places that one call of `uci2_node_iterator_next` may visit, and `Before` the
  order of its loops, which read an entry before they compare the offset with
  the count. What the code finds beyond the end of an array is undefined:
  `IteratorNext` is the set of all that a call may then do, which is one outcome as
  long as it reads inside of the arrays.
* `seen` and `awaited` are history variables of the iterator: what it has returned of the
  children that count, and the children that were there when it was created and that it
  still has to return. A section that the iterator finds beyond the count of a type node,
  where a merge has left it, is returned but not in `seen` (`Counted`).

The parser and the lexer:

* The tables `yypact`, `yydefact`, `yypgoto`, `yydefgoto`, `yytable`, `yycheck`,
  `yystos`, `yyr1` and `yyr2` are those of `parser.c`. `stack` is `yyss` and `yyvs`
  side by side; `yychar` and `yylval` are the variables of that name. An action is
  the way of `yyparse` from one of its labels to the next: `Yylex`, `Shift`, `Reduce`,
  `SyntaxError`, `Pop`, `Abort`, `Accept`.
* A string is the place of its token in the file, so that two words with the same
  letters are told apart. `kept` and `freed` are history variables: the strings that
  are stored in nodes, and those that were given to `free`. `Abort` contains the
  destruction of the AST by `uci2_config_parse`.
* A text is a sequence of symbols. The keywords are symbols of their own, which
  keeps texts short; what a word made of a keyword and other letters does is still
  decided by the longest match.
* `Scan` is one turn of the loop of `yylex`: the lengths that the nine rules match, the
  first of the longest, the token it returns and the start condition it leaves. The
  tables of flex are abstracted to these rules.

The file:

* A process is where it is in one of the three functions: `open`, `size` and `read` of
  `uci2_config_parse`, `writing` of `uci2_ast_sync`; `uci2_config_remove` is one step.
  Every system call is a step of its own. `fprintf` into the buffer of stdio is no
  step: nobody else sees it.
* stdio writes a buffer at a time, and one write may take only a part of it.
  `FlushStart` says in which flush a symbol is written; the last one happens in
  `fflush`, whose result is ignored.
* A file is an inode, so that a file that is removed lives on for those who have it
  open. Every writer keeps its own offset, and a write behind the end of a file
  leaves a hole of NUL bytes, at which `yy_scan_string` stops reading.

## 3. Properties and runs

Runs that pass:

| run | instance | shows |
|---|---|---|
| `MCSections` | two types, one section name, three ASTs to start from, one of them with a list, up to 9 nodes: every call | `TypeOK`, `Layered`, `HeldOnce`, `ParentHolds`: the AST stays a tree of layered nodes. `TypesMerged`: one type node per name that has sections. `SyncedIsParsedBack`: writing, parsing and writing again gives the same document. `FailedCallWritesNothing`: a call that fails changes nothing that is written. `DeletedLineStaysDeleted`: not even a merge brings back a line |
| `MCOptions` | a section without lines, and parsed sections with several lines for one name, whose nodes the parser merged; two types, two names, two values, up to 8 nodes: every call of a client that retypes no section | `OptionNamesDistinct`: live options and lists of a section have different names. `SectionNamesDistinct`: so have live sections of one type. `DeletedStaysDeleted`: what was removed stays removed. `NodeGetSound`: `uci2_node_get` finds nothing but what it was asked for. `AttributesPresent`: live nodes can be read. `SyncedIsParsedBack` and `FailedCallWritesNothing` as above |
| `MCIterator` | an iterator next to calls that extend each kind of array, remove nodes and retype sections, up to 12 nodes | `ReadsInsideUnlessRevived`: the iterator reads stale entries but none outside of an array, with one exception. `IterTypeOK`. `NothingMissed`: every child that stays is returned. `InOrder`: lines come in order and none of them twice. `SectionsOnce`: nor does a section come twice among those its type node counts, wherever merges take it |
| `MCLoop` | a loop over an iterator whose body removes nodes | `LoopEnds` |
| `MCParser` | every sequence of tokens with up to four lines, two types, one section name, two option names and two values, with words, keywords and stray characters in every place, and package lines in between | `ReadsAsPromised`: the automaton implements `UciReader`. `StringsOwnedOnce`, `NothingLeftBehind`: every string has one owner, and after an error all are freed. `StackBounded`: the stack stays small. `ParserReturns`. `ParsedIsWellFormed`, `ParsedAsMeant`, `UnnamedAreNumbered`: the AST means what the file means, stated without adding, moving and merging. `ParserTypeOK` |
| `MCLexer` | every text of up to four symbols; every document with an arbitrary word of up to three symbols in any place a word can stand | `EveryMatchAdvances`: the empty match is never picked. `LinesAreIndependent`: no quote, comment or start condition reaches over the end of a line. `WrittenIsRead`: which documents are read back as they were written, and that all others are not. `LexerTypeOK` |
| `MCConfigFile` | two processes, two documents, up to three calls, one fault, a buffer of 8 symbols: the text of one document, of 5 symbols, fits into it, that of the other, of 16, takes two flushes | `UndisturbedReadsLast`: a parse that nobody disturbs returns what the last undisturbed sync wrote. `FilesAreBeginnings`, `TornFileIsCut`: what is left after a crash or a failed write, and what is then read. `NoneMeansFlushed`: what `UE_NONE` says. `CallsReturn`. `FileTypeOK` |

`NothingMissed` lets go of the sections when one is retyped: it moves to another
type node, which the iterator may have passed.

`uci2_node_iterator_next` reads an entry before it compares its offset with the
count (`uci2.c:980`), and a type node that a merge emptied keeps its old array. Whether the
iterator looks into such an array depends on the AST and on what was removed:

* A section that it finds there hangs below another type node now, and may be returned in
  both places. A parse and the removal of one section are enough: when sections have the types
  A, B and A and the second is removed, the loop passes from the deleted section into the
  type node that the parser made for the third and emptied, and returns the third again. So
  `SectionsOnce` is about the sections that the type node counts when they are returned; it
  has no other exception. What could still go wrong is that a merge appends to an heir what
  the iterator has already returned elsewhere, or that an offset is set back. TLC checks it
  with several sections of one type, next to calls that merge; if `seen` recorded the
  sections that are not `Counted`, too, TLC would refute it with the example above.
* When the emptied type node gets sections again, the array is cut to the new count while
  the offset stays where it was. That is the exception of `ReadsInsideUnlessRevived`:
  the run `MCOutside` shows a read beyond the array.

`SectionNamesDistinct` and `DeletedStaysDeleted` are properties of a client that retypes
no section (`SpecKeepTypes`, which has all other calls): retyping joins two type nodes
without comparing the names of their sections, and brings deleted ones back (`MCResurrected`).

`MCConfigFile` also evaluates `WordsAreLetters`: that the documents it writes are
read back, and that every beginning of their texts that is a file is the document
without its end. These are the hypotheses of two theorems about the file.

`NoneMeansFlushed` is as weak as the code is: a write that fails in the last flush, which
for a small file is the only one, is not reported (`uci2.c:413`). `TornFileIsCut`
says what a reader then gets: half a file is often a valid file, and lacks an end.

Runs that TLC refutes, each with one property that the documentation or an
assertion states:

| run | property | what happens |
|---|---|---|
| `MCResurrected` | `DeletedStaysDeleted` | a removed section comes back: retyping merges its type node into another one, and `ast_node_add` sets the parent pointer of all children |
| `MCAsserts` | `AssertionsHold` | a name that was refused leaves a deleted type node behind; when the first type node of that name has been renamed, the next `uci2_node_section_add` of the type hands its own new section to the deleted node and fails an assertion of `ast.c` in the same call |
| `MCNodeGet` | `NodeGetReturns` | a node that could not be named is compared with `strcmp` |
| `MCNotFound` | `NodeGetComplete` | a deleted option hides the live one of the same name |
| `MCOutside` | `ReadsInsideArrays` | a client that only retypes sections while it walks over them: the type node the iterator stands in is emptied by one call; the next renames the type node that took its sections over, so that the third gives the emptied one a section again; the iterator reads beyond its array |

Two more things the model shows are not stated as properties, because nothing in
the repository says otherwise: `uci2_node_section_type_set` sets the type of all
sections that share the type node, and a live section below a deleted type node
is found by `uci2_node_get` but not written by `uci2_ast_sync`.

### Refinement

`Reader == INSTANCE UciReader WITH result <- Result` in `UciParser` maps the state of
the parser to that of an ideal reader: the tokens read so far and what has been
returned. `ReadsAsPromised` says that every behaviour of the automaton is one of the
reader. It covers both directions of accepting, and the point where the parser
stops: a token that cannot be part of a file is the last one that is read. The AST
that the automaton builds bottom up, rule by rule and with one lookahead, is the
one that the semantic actions make of the whole document in order. TLC checks this for
files of up to four lines, and the theorem `ParserImplementsReader` says it of every file.

### Bounds

`MaxNodes` bounds the nodes that a heap may grow to by calls (a parsed AST may
start with as many), `MaxIndex` the counter of unnamed sections. Adding a section takes two nodes, adding
a line one. Two sections of two types and a third one are enough for every case
of a merge: a first and a second twin, a deleted twin, an emptied twin, a
section that moves twice; they need two nodes for root and config and six for the
sections, and a parsed AST has one sentinel more. The refuted properties
are refuted within the bounds under which the others hold. For lines, three
are enough for a name that is taken, a name that was removed and added again,
and one that is left over after a failed call. Eight nodes let `MCOptions` add one
section besides those it starts with; that adding several numbers them differently is shown by
the theorem `SectionNamesStayDistinct`, for any number of them.

`MaxLines` bounds the lines of a file of which TLC looks at every sequence of tokens.
Four are enough for two sections of one type around one of another, for a name with
three lines, and for an error in every state of the automaton; the grammar is
left-recursive, so more lines bring no new states.

Four symbols of text are enough for an open quote in front of a newline and a keyword
behind it, and for a comment between two lines; three symbols for a word that starts and
ends with a quote and holds something.

In `MCConfigFile` the longer text takes two flushes, so that a write can fail in one that is
reported and in one that is not. Three calls are a writer, another one or a remover, and a
reader; with `MaxFaults = 1` one of them fails or dies.

Clients use neither the placeholder nor a name of the form `@type[3]` as the name of a
section; the model's sets of names hold none.

The types are interchangeable in `MCSections`, the
option names and the values in `MCOptions`: every operator and every property treats
them alike, and these runs check safety only. TLC may then identify states that
differ by a permutation of them; where an initial AST names a type, its histories
stand for those of the AST with the types exchanged.

Deadlock is checked in `MCParser`, where only a parser that has returned may stop. It is not
checked elsewhere: with the heap at its bound and every handle deleted a
client may have no call left that changes anything, an aborted process
makes none, a lexer that has returned the end of a text is not called again, and
processes stop when their calls are used up.

### Fairness

Nothing in the library happens by itself, so that fairness is assumed only where code
is running that has not returned:

* `LoopSpec` is the loop `while (uci2_node_iterator_next(...) == UE_NONE)` that
  every client of the iterator has (`src/tests/test_uci2.c`): weak fairness on the call of
  the iterator says that the body of the loop comes to an end, so that the loop
  calls the iterator again. The body removes nodes. A body that adds one for each
  node it gets may go on forever, and the model says so when its actions are added.
* `ParserSpec` has `RunsOn`: a parser that has not returned takes another step.
* `FileSpec` has `GoesOn(p)` for every process: the system lets a process that is
  inside of a call go on. Nothing says that a process ever makes another call.

`RunsOn` and `GoesOn` are weak fairness written out as `[]<>done \/ []<><<A>>_v`, which is the
same where `A` is enabled as long as the code is not done. It is: `MCParser` checks that
the parser does not deadlock, and every place inside a call has a step of its own.

## 4. Proofs

All theorems hold for any values of the constants that satisfy the assumptions:
`NamesAssumption` (NULL is no string, the placeholder is
not the name of a numbered section), `InitialAstsAssumption` (the client
starts from an AST as the parser makes it: well-formed, orderly and numbered, which is
what the theorems `ParsedAstIsWellFormed` and `ParsedStaysWellFormed` say of every parsed
AST), `LexerAssumption` and
`DocumentsAssumption` (texts are made of the symbols, documents have texts for words),
`NulAssumption` (NUL is no symbol of a text), `BufferAssumption` (a buffer is not empty).

### The AST and the node API

`UciNodesProofs` proves three groups of theorems, each from an inductive invariant of
its own that extends the one before.

* `SoundState`, that is `WellFormed(heap)` with `err \in Errors`: `TypeCorrect`, `LayersHold`,
  `NodesHeldOnce`, `ParentsHold`, `DeletedLinesStayDeleted`, `NodeGetStaysSound`. The four parts of
  `WellFormed`, `TypedAst`, `LayeredAst`, `DisjointChildren` and `ParentsAgree`, are not
  inductive one by one. That a merge leaves nodes of the right type needs to
  know that the children of a config node are section type nodes, so that no node is both a
  twin and among the children of one; that the layers hold needs to know that the
  arrays are arrays of nodes; that no node is held twice after a merge needs to
  know that the arrays it joins shared none; and that parents hold their children
  needs to know which array each child came from.
* `OrderlyState`, which adds `Orderly(heap)`: `SpecIsOrderly`, `TypesStayMergedBelow`,
  `OptionNamesStayDistinct`, `AttributesStayPresent`. Merged types, distinct lines and
  attributes that are there cannot be shown one by one either: between
  `ast_node_new` and the last setter of a call a node lacks its name, and the same setter
  may refuse it, upon which the node is removed. So the lemmas speak of `OrderlyBut`,
  a heap that is orderly except for the nodes a call is still working on, and of what
  each function leaves on either way out. A name is only set after a search of the
  siblings, which finds the first of that name, deleted or not; that is why no two
  live lines share one.
* `Tidy`, which adds `Numbered(heap)` and `SectionsDistinct(heap)`, for a client that
  retypes no section: `DeletedNodesStayDeleted`, `SectionNamesStayDistinct`. The counter of a
  type is ahead of the numbers it has given, so that the name of a new section is none of the
  old ones. The theorem asks for what the code does not check: that clients
  give no section a name of the form `@...`, and that the file did not have a name twice.

The lemmas below them:

* What a node inherits is a concatenation of arrays. The lemma `FlattenFacts` in
  `UciAstProofs` says what it holds, and that it holds each entry once when the arrays do;
  it is a fact of the library's `FlattenSeq`, proved from the definition of the fold behind it.
* `UciAstProofs` then proves for each operator of `UciAst` that it keeps the nodes of a heap
  typed and layered, then that it keeps their links. Naming,
  setting a value and numbering leave the arrays as they are (`SameArray`),
  removing clears a parent pointer, adding extends one array by a node that no
  array held (`AddedIsLinked`). For `ast_node_merge`, `HeirFacts` says which twin
  inherits, `MergedNodes` what each node ends up as, `InheritedEntries` from which array
  each entry comes; `MergedIsSound` and `MergedIsLinked` draw the conclusions.
* `UciNodesProofs` has one lemma per function of the node API for each of the three
  invariants, and `NextIsSound` and `NextIsOrderly` put them together.

### The iterator

`UciIteratorProofs` proves all properties of the iterator for `IterSpec`: any number of calls
of the whole node API between any two steps. `ArraysSpecIsIterSpec` says that
the client TLC checks is one of these. The invariant is `IterState`:

* `OrderlyState`, because the order of the children of a config node and the
  arrays below it change by merges only;
* `OffsetsOK`: the offset `i` is inside of the array or at its end, and where `j` is not 0, the type
  node at `i` either has a child `j` or was deleted. This gives `IterTypeCorrect` and `ReadsStayInside`;
* `Awaits`: every child that is still to come has a place that is not `Before` the offsets.
  Calls of the client delete nodes, append to arrays or, when they merge, move
  sections to an heir, and the theorem `NothingIsMissed` needs to know that none of it moves a
  child that is awaited to a place the iterator has passed;
* `Returned`: what was returned is in one of the arrays, behind the offsets, and no child is in
  `seen` twice; lines and list elements are in `seen` in the order of their places. This gives
  `LinesComeInOrder` and `SectionsComeOnce`. For the sections it needs that a merge either
  leaves a section in its place or moves it to a type node that is earlier among the children
  of the config node (`MovesBack`, `MergeMovesBack`), because the heir is the first of its
  name: what is behind the offsets stays there. And as no node is in two arrays
  (`DisjointChildren`), the place the iterator reads next holds none of it (`PlaceIsUnique`).

### The parser

`UciParserProofs` proves six theorems about files of any length.

* `StackStaysSmall` (`ParserSpec => []StackBounded`). The invariant is that the stack is a
  *path*: each state lies on one that may lie beneath it (`Beneath`), and no higher than
  its `Height`. Both are tables that were computed from those of bison; `ShiftIsEdge` and
  `GotoIsEdge` check them against `yytable`, `yycheck`, `yypgoto` and `yydefgoto`. That a
  reduction pops no more than there is, and what it then finds on top, needs the path
  (`ReducePath`).
* `StringsHaveOneOwner` (`[]StringsOwnedOnce`). Counting does not go through a step, so the
  invariant says of each place whether it owns a string (`Owns`), and that one does
  (`Single`). A shift moves the string of the lookahead to the stack, and a reduction moves those
  of its right-hand side to nodes: that the symbols that are words are just those that the
  action stores is `RuleStrings`, which needs the path again to know which states are
  popped.
* `StringsEndWell` (`[]NothingLeftBehind`). An accepted file leaves the root and the end of
  the file on the stack (`FinalStack`), which hold no string.
* `ParsedAstIsWellFormed` and `ParsedStaysWellFormed` (`[]ParsedIsWellFormed`). Before there is a
  root the heap is a forest, which no part of `WellFormed` describes: sections are below a
  sentinel that will be empty one day, and nodes without a parent are in use. The
  invariant `AstInv` says of it that
  + the nodes on the stack are just those that wait for a parent (`Waits`); no two entries name
    the same, and the state an entry was pushed with says what kind of node it names
    and what is below it (`StandsFor`);
  + all others are linked and of the right kinds (`Built`), and each was made with
    its attributes, a section with its lines merged (`Made`);
  + once the root is made, or the file accepted, the AST is complete (`ParsedHeap`).

  `TextsInv` joins it: a word of the file is of the kind that its place calls for, so that the
  texts an action takes are names and types. Each function of `ast.c` keeps a forest so
  (`NewIsBuilt`, `AddIsBuilt`, `MoveIsBuilt`, `LinesAreBuilt` in `UciAstProofs`), each action
  takes some nodes that wait and yields one (`Yields`), and each rule finds them on the stack
  where `Beneath` says they are (`RuleSucceeds`, `RootRule`). `PlantedIsParsed` is the merge of
  the types and the numbering below the new root.

  That the counters of the types are ahead of the names (`Numbered`) is proved for files in
  which no section has a name of the form `@type[n]`, which is the hypothesis of
  `ParsedStaysWellFormed`. `unnamed_section_name_set` does not look at the names that are
  there, so that a file that gives such a name itself may have it twice.
* `ParserTypeCorrect` (`[]ParserTypeOK`), from the same invariants.

### The parser implements the reader

`ParserImplementsReader` (`ParserSpec => ReadsAsPromised`) in `UciReaderProofs` is the
refinement theorem, for files of any length: the initial state of the parser maps to that of
the reader, and every step to a step of the reader or to a stutter (`ReadingStep`). `Yylex` is a
`ReadToken`, the parser's `Accept` is that of the reader, `Abort` is its `Reject`, and
`Shift`, `Reduce`, `SyntaxError` and `Pop` change nothing the reader sees. Two invariants are behind it, next to those of
`UciParserProofs`; together they are `ReadingInv`.

* `GrammarInv` is about which files are accepted. The state on top of the stack says how
  the tokens that were shifted end (`Reads`): the keyword they belong to and the number of words
  after it, or a line that is complete. So what a state shifts (`Takes`) is what `Fits` there
  (`ShiftFits`), and a lookahead for which the table has nothing is a token
  that fits nowhere (`ErrorMisfits`). The difficulty is that the states that need a lookahead
  to reduce, and those that reduce without one, know different things of it: `Reads` says of
  each which lookaheads did not come, and `ReduceReads` that a reduction hands this on.
* `MeaningInv` is about the AST. The parser makes nodes as rules are reduced, and the reader
  makes all at once out of the document when the file has ended. The invariant lays *marks* on the
  stack (`Marked`): each entry stands for the tokens between the mark below it and its own,
  and was pushed for a word, a line, some lines, a section or some sections
  (`Covers`); the heap is what `ReduceLines` and `ReduceOptions`, the actions of the document,
  have made of the tokens up to the top mark (`Holds`). The document is itself a
  recursion over the tokens (`DocumentUpTo`), and `DocumentNext`, `SectionsNext` and
  `OptionsNext` unfold its last step and those of the actions.

  A line ends where the next token is no word, and the text of a word counts only
  where it is; but the parser has read one token at most beyond what it reduces. The invariant
  therefore speaks of every file that goes on with the tokens that have been
  read (`Prolongs`, `Understood`): the heap is what the abstract parser makes of each of them. One that
  speaks of the tokens alone is not inductive, because their last line may still grow.
  When the file is accepted, it is the only one that goes on so (`MeaningAccept`).

Each rule of the grammar is one lemma (`OptionMeans` to `PackagedRootMeans`), put together in `RuleMeans`.
The module `UciReader` is an instance, so that its operators are other ones than those of the
same name in `UciParser` for the provers; `ReaderNodes` to `ReaderDocument` show that they agree.
`DocumentOf` and the actions over a document are recursive functions; that each has a value in every place
is proved by induction over a set of numbers (`SetInduction`), which needs no operator as a parameter.

### The lexer

`LexerAdvances` (`LexerSpec => []EveryMatchAdvances`) and `LexerIsTyped` (`[]LexerTypeOK`) in
`UciLexerProofs`. A match never reaches over the end of the text (`MatchesFacts`), a
newline is taken by the first rule and every other symbol at least by the last, so that the
longest match takes something (`ScanAdvances`). That a document that was written is a
text is `RenderIsText`.

### The file

`UciConfigFileProofs` proves, for any number of processes, calls and faults, and documents of
any size: `FileIsTyped` (`FileSpec => []FileTypeOK`), `TornFilesAreBeginnings`
(`[]FilesAreBeginnings`), `NoneSaysFlushed` (`[]NoneMeansFlushed`), `ParseReturnsTheLastSync`
(`[]UndisturbedReadsLast`) and `TornFilesAreCut` (`[]TornFileIsCut`).

The file of a writer holds exactly what it has written (`HoldsBeginning`): for a
writer that nobody has disturbed (`FileInv`), and for every writer as long as no two
syncs have overlapped, because there is only one then (`SerialInv`). `WriteGoesOn` says
that a write at the offset where the last one stopped extends the beginning of the text.
`KnownInv` adds what a process that nobody has disturbed knows: the file it has opened is
still the one the path leads to, has the size that it was told, and what was read is
its beginning, which is the text of the document that is `settled`.

The last two theorems have a hypothesis each: that the documents that are written can be read
back (`ReadBack`), and that a beginning of their texts, where it is a file, is a
document without its end (`Tearable`). Both speak of the recursive `Lex` of one text and
of no behaviour; for the documents of `MCConfigFile`, TLC evaluates them, and
`WrittenIsRead` of `MCLexer` says which documents can be read back.

### Only model-checked

What a recursive definition computes for every input, which is a proof by
induction over data that the provers cannot do: the document of an AST
(`SyncedIsParsedBack`, `FailedCallWritesNothing`), the AST of a file (`ParsedAsMeant`,
`UnnamedAreNumbered`), the tokens of a text (`WrittenIsRead`,
`LinesAreIndependent`). Liveness: `LoopEnds`, `ParserReturns`, `CallsReturn`.

## 5. Not modelled, and what comes next

Not modelled:

* `uci2_string_to_boolean`, the error descriptions and the version: tables without state.
* `utils/memory.c` and `debug.h`: running out of memory aborts the process in every
  allocation function, so that no caller sees it.
* `ast_destroy` as an action: no call is made on an AST after it. The strings it frees
  after a syntax error are in `Abort`.
* The text of error messages (`yysyntax_error`), the growth of the parser's stack (dead code,
  see `StackBounded`), and what flex does for files and several buffers, which a scanned
  string never needs.
* Characters: letters are alike. The 1024-byte buffer for the name of an unnamed
  section and the cut of paths at `PATH_MAX` are left out with them.
* Files that are no regular files; what a machine loses when its power fails, with or
  without the `fsync` that `uci2_ast_sync` calls.
* Several ASTs in one process, which share nothing.

What could come next: `UciStore`, an abstract specification without arrays and type nodes (a
sequence of typed sections with named lines), implemented by `UciNodes` as long as no section
is retyped, with `Document` as refinement mapping.
