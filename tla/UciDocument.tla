---------------------------- MODULE UciDocument ----------------------------
(***************************************************************************)
(* The two ends of an AST: the grammar of src/src/uci2.y that builds one    *)
(* from a configuration file, and uci2_ast_sync of src/src/uci2.c that      *)
(* writes one back.  A file is abstracted to its document: the sequence of  *)
(* its config sections, each with its option and list lines in order.       *)
(* Every semantic action of the grammar is an operator from a heap to the   *)
(* heap it leaves behind and the node it stores in $$.                      *)
(***************************************************************************)
EXTENDS UciAst

Line(kind, name, value) == [kind |-> kind, name |-> name, value |-> value]

\* kind is "option" or "list"; a list line may have no value.
Lines == [kind : {"option"}, name : OptionNames, value : Values]
         \cup [kind : {"list"}, name : OptionNames, value : Values \cup {NoString}]

\* name is NoString in the config line of an unnamed section.
Section(type, name, lines) == [type |-> type, name |-> name, lines |-> lines]

\* What an action of the grammar leaves behind: the heap and $$.
Reduced(h, node) == [heap |-> h, node |-> node]

-----------------------------------------------------------------------------
(***************************************************************************)
(* The rules of the grammar, from the leaves to the root.                  *)
(***************************************************************************)

\* h itself, written so that TLC evaluates it once and not at each use.
Whole(h) == SubSeq(h, 1, Len(h))

\* Store node in $$ under a fresh node of the given kind.
Wrap(h, kind, node) ==
    LET created == AstNodeNew(h, kind, NoString, NoString)
    IN  Reduced(AstNodeAdd(created, Newest(created), node), Newest(created))

\* option : OPTION VALUE VALUE
ReduceOption(h, name, value) ==
    LET created == AstNodeNew(h, "ANT_OPTION", name, value)
    IN  Reduced(created, Newest(created))

\* Mutant: a list line with an element is taken for one without.
BareList(h, name, value) ==
    LET list == AstNodeNew(h, "ANT_LIST", name, NoString)
    IN  Reduced(list, Newest(list))

\* option : LIST VALUE | LIST VALUE VALUE
ReduceList(h, name, value) ==
    LET list == AstNodeNew(h, "ANT_LIST", name, NoString)
        item == AstNodeNew(list, "ANT_LIST_ITEM", value, NoString)
    IN  IF value = NoString THEN Reduced(list, Newest(list))
        ELSE Reduced(AstNodeAdd(item, Newest(list), Newest(item)), Newest(list))

\* options : option, lines : line
ReduceFirst(h, node) == Wrap(h, "ANT_SENTINEL", node)

\* options : options option, lines : lines line
ReduceNext(h, sentinel, node) == Reduced(AstNodeAdd(h, sentinel, node), sentinel)

\* Mutant: a section without lines loses its name.
NamelessConfig(h, type, name, options) ==
    LET typed == AstNodeNew(h, "ANT_SECTION_TYPE", type, NoString)
        named == AstNodeNew(typed, "ANT_SECTION_NAME",
                            IF name = NoString \/ options = NoNode THEN Placeholder ELSE name,
                            NoString)
        added == AstNodeAdd(named, Newest(typed), Newest(named))
    IN  IF options = NoNode THEN Reduced(added, Newest(typed))
        ELSE Reduced(Whole(AstNodeMerge(AstNodeMove(added, Newest(named), options),
                                        Newest(named))),
                     Newest(typed))

\* config : CONFIG VALUE | CONFIG VALUE VALUE | CONFIG VALUE options
\*        | CONFIG VALUE VALUE options; options is NoNode when there are none.
ReduceConfig(h, type, name, options) ==
    LET typed == AstNodeNew(h, "ANT_SECTION_TYPE", type, NoString)
        named == AstNodeNew(typed, "ANT_SECTION_NAME",
                            IF name = NoString THEN Placeholder ELSE name, NoString)
        added == AstNodeAdd(named, Newest(typed), Newest(named))
    IN  IF options = NoNode THEN Reduced(added, Newest(typed))
        ELSE Reduced(Whole(AstNodeMerge(AstNodeMove(added, Newest(named), options),
                                        Newest(named))),
                     Newest(typed))

\* package : PACKAGE VALUE
ReducePackage(h, name) ==
    LET created == AstNodeNew(h, "ANT_PACKAGE", AST_NODE_PACKAGE_NAME, name)
    IN  Reduced(created, Newest(created))

\* root : lines | package lines; package is NoNode when there is none.
ReduceRoot(h, package, lines) ==
    LET root     == AstNodeNew(h, "ANT_ROOT", AST_NODE_ROOT_NAME, NoString)
        packaged == IF package = NoNode THEN root
                    ELSE AstNodeAdd(root, Newest(root), package)
        config   == AstNodeNew(packaged, "ANT_CONFIG", AST_NODE_CONFIG_NAME, NoString)
        added    == AstNodeAdd(config, Newest(root), Newest(config))
        merged   == AstNodeMerge(AstNodeMove(added, Newest(config), lines),
                                 Newest(config))
        numbered == UnnamedSectionNameSet(Whole(merged), Newest(config))
    IN  Reduced(Whole(numbered), Newest(root))

-----------------------------------------------------------------------------
(***************************************************************************)
(* The order in which the parser reduces a document: the lines of a section *)
(* before its config line, the sections in order, the root last.            *)
(***************************************************************************)

ReduceLine(h, line) ==
    IF line.kind = "option" THEN ReduceOption(h, line.name, line.value)
    ELSE ReduceList(h, line.name, line.value)

\* Add what was just reduced to the list that is being built.
ReduceInto(list, r) ==
    IF list = NoNode THEN ReduceFirst(r.heap, r.node)
    ELSE ReduceNext(r.heap, list, r.node)

ReduceOptions(h, lines) ==
    LET after[i \in 0 .. Len(lines)] ==
            IF i = 0 THEN Reduced(h, NoNode)
            ELSE LET r == after[i - 1]
                 IN  ReduceInto(r.node, ReduceLine(r.heap, lines[i]))
    IN  after[Len(lines)]

ReduceSection(h, section) ==
    LET options == ReduceOptions(h, section.lines)
    IN  ReduceConfig(options.heap, section.type, section.name, options.node)

ReduceLines(h, document) ==
    LET after[i \in 0 .. Len(document)] ==
            IF i = 0 THEN Reduced(h, NoNode)
            ELSE LET r == after[i - 1]
                 IN  ReduceInto(r.node, ReduceSection(r.heap, document[i]))
    IN  after[Len(document)]

\* uci2_ast_create: the AST of an empty file.
AstCreate ==
    LET root   == AstNodeNew(<<>>, "ANT_ROOT", AST_NODE_ROOT_NAME, NoString)
        config == AstNodeNew(root, "ANT_CONFIG", AST_NODE_CONFIG_NAME, NoString)
    IN  AstNodeAdd(config, Newest(root), Newest(config))

\* What uci2_config_parse returns for a file that it can parse, which has a
\* section or is empty; package is NoString when there is no package line.
ParseFile(package, document) ==
    LET top   == IF package = NoString THEN Reduced(<<>>, NoNode) ELSE ReducePackage(<<>>, package)
        lines == ReduceLines(top.heap, document)
    IN  IF document = <<>> THEN AstCreate
        ELSE ReduceRoot(lines.heap, top.node, lines.node).heap

Parse(document) == ParseFile(NoString, document)

-----------------------------------------------------------------------------
(***************************************************************************)
(* uci2_ast_sync: the document it writes.                                   *)
(***************************************************************************)

\* ast->root.
Root(h) == CHOOSE n \in DOMAIN h : h[n].kind = "ANT_ROOT"

\* The first live config node below the root, or NoNode.
ConfigNode(h) ==
    LET kids == Kids(h, Root(h))
        at   == SelectInSeq(kids, LAMBDA n : ~Deleted(h, n) /\ h[n].kind = "ANT_CONFIG")
    IN  IF at = 0 THEN NoNode ELSE kids[at]

\* The children of n that are neither deleted nor nameless, in order.
Written(h, n) ==
    SelectSeq(Kids(h, n), LAMBDA m : ~Deleted(h, m) /\ h[m].name # NoString)

SeqMap(Op(_), s) == [i \in DOMAIN s |-> Op(s[i])]

\* An option with its value, a list with a line for each element, or the name
\* of a list without any.
LinesOf(h, n) ==
    LET items == Written(h, n)
    IN  CASE h[n].kind = "ANT_OPTION" /\ h[n].value = NoString -> <<>>
          [] h[n].kind = "ANT_OPTION" /\ h[n].value # NoString ->
                << Line("option", h[n].name, h[n].value) >>
          [] h[n].kind = "ANT_LIST" /\ items = <<>> ->
                << Line("list", h[n].name, NoString) >>
          [] h[n].kind = "ANT_LIST" /\ items # <<>> ->
                SeqMap(LAMBDA e : Line("list", h[n].name, h[e].name), items)

SectionOf(h, t, s) ==
    Section(h[t].name,
            IF h[s].name \in AtNames THEN NoString ELSE h[s].name,
            FlattenSeq(SeqMap(LAMBDA n : LinesOf(h, n), Written(h, s))))

\* The document written below config node c.
Sync(h, c) ==
    FlattenSeq(SeqMap(LAMBDA t : SeqMap(LAMBDA s : SectionOf(h, t, s), Written(h, t)),
                      Written(h, c)))

=============================================================================
