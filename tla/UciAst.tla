------------------------------- MODULE UciAst -------------------------------
(***************************************************************************)
(* The abstract syntax tree of src/src/ast.c: the node pool of one AST as  *)
(* a sequence of node records, and every operation of ast.c as an operator *)
(* from a heap to the heap the operation leaves behind.                    *)
(*                                                                         *)
(* A node is its position in ast->pool->children, the order in which       *)
(* ast_node_new created it, so a heap only ever grows.  What the C code    *)
(* asserts is a precondition here; the callers decide what happens when an *)
(* assertion fails.                                                        *)
(***************************************************************************)
EXTENDS Integers, Sequences, FiniteSets, SequencesExt

CONSTANTS
    TypeNames,      \* the UCI section types a file or a caller may use
    SectionNames,   \* the UCI section names
    OptionNames,    \* the UCI option and list names
    Values,         \* the UCI option values and list elements
    NoString,       \* a NULL char pointer
    Placeholder     \* UNNAMED_SECTION_NAME_PLACEHOLDER, "@<type>[<N>]"

\* The parent of a node that has none: a NULL ast_node_t pointer.
NoNode == 0

\* The parent of a node that is only in the pool.
Pool == -1

NodeKinds == {"ANT_SENTINEL", "ANT_ROOT", "ANT_CONFIG", "ANT_PACKAGE",
              "ANT_SECTION_TYPE", "ANT_SECTION_NAME", "ANT_OPTION",
              "ANT_LIST", "ANT_LIST_ITEM"}

\* "@type[index]", the name of an unnamed section.
UnnamedName(type, index) == <<type, index>>

UnnamedNames == TypeNames \X Nat

\* The strings that start with '@'.
AtNames == UnnamedNames \cup {Placeholder}

\* The names of the root, config and package nodes.
AST_NODE_ROOT_NAME    == "/"
AST_NODE_CONFIG_NAME  == "@C"
AST_NODE_PACKAGE_NAME == "@P"

Strings == {AST_NODE_ROOT_NAME, AST_NODE_CONFIG_NAME, AST_NODE_PACKAGE_NAME}
           \cup TypeNames \cup SectionNames \cup OptionNames \cup Values
           \cup AtNames

ASSUME NamesAssumption ==
    /\ NoString \notin Strings
    /\ Placeholder \notin UnnamedNames

(***************************************************************************)
(* struct ast_node_s.  children is the whole allocated array and number    *)
(* the children_number entries of it that count: ast_node_merge resets the *)
(* count of a node it empties and leaves its array behind.                 *)
(***************************************************************************)
AstNode(Node) ==
    [kind     : NodeKinds,
     name     : Strings \cup {NoString},
     value    : Strings \cup {NoString},
     parent   : Node \cup {NoNode, Pool},
     children : Seq(Node),
     number   : Nat,
     unnamed  : Nat]

\* The children children[0..children_number-1] of node n.
Kids(h, n) == SubSeq(h[n].children, 1, h[n].number)

KidSet(h, n) == {h[n].children[k] : k \in 1 .. h[n].number}

\* uci2_node_remove marks a node as deleted by clearing its parent pointer.
Deleted(h, n) == h[n].parent = NoNode

\* The node created by ast_node_new(ast, kind, name, value).
NewNode(kind, name, value) ==
    [kind |-> kind, name |-> name, value |-> value, parent |-> Pool,
     children |-> <<>>, number |-> 0, unnamed |-> 0]

AstNodeNew(h, kind, name, value) == Append(h, NewNode(kind, name, value))

\* The node the last ast_node_new returned.
Newest(h) == Len(h)

\* xrealloc sizes the array to the new count, so stale entries are cut off.
AstNodeAdd(h, parent, node) ==
    [h EXCEPT ![node].parent     = parent,
              ![parent].children = Append(Kids(h, parent), node),
              ![parent].number   = @ + 1]

\* Mutant: the source keeps its children.
AstNodeMoveShared(h, destination, source) ==
    [[m \in DOMAIN h |-> IF m \in KidSet(h, source)
                         THEN [h[m] EXCEPT !.parent = destination] ELSE h[m]]
        EXCEPT ![destination].children = h[source].children,
               ![destination].number   = h[source].number,
               ![destination].unnamed  = h[source].unnamed]

AstNodeMove(h, destination, source) ==
    [[m \in DOMAIN h |-> IF m \in KidSet(h, source)
                         THEN [h[m] EXCEPT !.parent = destination] ELSE h[m]]
        EXCEPT ![destination].children = h[source].children,
               ![destination].number   = h[source].number,
               ![destination].unnamed  = h[source].unnamed,
               ![source].children      = <<>>,
               ![source].number        = 0,
               ![source].unnamed       = 0]

-----------------------------------------------------------------------------
(***************************************************************************)
(* ast_node_merge.  The guard that should skip children (NULL, deleted, of *)
(* another type, nameless) joins its conditions with && and so never skips *)
(* one: of all the children with one name, dead or alive and whatever      *)
(* their type, the first takes over the children of the others in order.   *)
(* The others are cleared and marked as deleted.                           *)
(***************************************************************************)

\* Mutant: the last of the nodes with one name takes over from the others.
LastHeir(h, kids, m) ==
    IF h[m].name = NoString THEN m
    ELSE kids[CHOOSE i \in DOMAIN kids :
                 /\ h[kids[i]].name = h[m].name
                 /\ \A j \in i + 1 .. Len(kids) : h[kids[j]].name # h[m].name]

\* The first of the nodes in kids that has the name of m.
Heir(h, kids, m) ==
    IF h[m].name = NoString THEN m
    ELSE kids[CHOOSE i \in DOMAIN kids :
                 /\ h[kids[i]].name = h[m].name
                 /\ \A j \in 1 .. i - 1 : h[kids[j]].name # h[m].name]

\* The nodes of kids that another one with the same name comes before.
Twins(h, kids) == {m \in Range(kids) : Heir(h, kids, m) # m}

\* What node m takes over, in the order it does.
Inherited(h, kids, m) ==
    FlattenSeq([j \in DOMAIN kids |->
        IF kids[j] \in Twins(h, kids) /\ Heir(h, kids, kids[j]) = m
        THEN Kids(h, kids[j]) ELSE <<>>])

\* The node that becomes the parent of a node a twin had among its children.
NewParent(h, kids, m) ==
    Heir(h, kids, CHOOSE t \in Twins(h, kids) : m \in KidSet(h, t))

\* A node that was emptied: deleted, and nothing in its array counts.
Emptied(r) == [r EXCEPT !.parent = NoNode, !.number = 0, !.unnamed = 0]

AstNodeMerge(h, node) ==
    LET kids  == Kids(h, node)
        twins == Twins(h, kids)
    IN  [m \in DOMAIN h |->
            CASE m \in twins -> Emptied(h[m])
              [] m \in Range(kids) \ twins /\ Inherited(h, kids, m) # <<>> ->
                    LET all == Kids(h, m) \o Inherited(h, kids, m)
                    IN  [h[m] EXCEPT !.children = all, !.number = Len(all)]
              [] \E t \in twins : m \in KidSet(h, t) ->
                    [h[m] EXCEPT !.parent = NewParent(h, kids, m)]
              [] OTHER -> h[m]]

-----------------------------------------------------------------------------
(***************************************************************************)
(* unnamed_section_name_set.  Every live section that still carries the    *)
(* placeholder is named "@type[index]", the index being the counter of its *)
(* type node, which goes up by one for each of them and never down.        *)
(***************************************************************************)

NamedTypes(h, config) ==
    {t \in KidSet(h, config) : ~Deleted(h, t) /\ h[t].name # NoString}

Waiting(h, s) ==
    /\ ~Deleted(h, s)
    /\ h[s].kind = "ANT_SECTION_NAME"
    /\ h[s].name = Placeholder

\* The positions of the children of type node t that wait for a name.
WaitingAt(h, t) == {k \in 1 .. h[t].number : Waiting(h, h[t].children[k])}

\* Mutants: numbering starts again at 0; a section's place in the array counts.
NameFromZero(h, t, k) ==
    UnnamedName(h[t].name, Cardinality({i \in WaitingAt(h, t) : i < k}))
NameByPlace(h, t, k) == UnnamedName(h[t].name, k - 1)

\* The name the k-th child of type node t gets.
NameAt(h, t, k) ==
    UnnamedName(h[t].name,
                h[t].unnamed + Cardinality({i \in WaitingAt(h, t) : i < k}))

UnnamedSectionNameSet(h, config) ==
    LET types == NamedTypes(h, config)
    IN  [m \in DOMAIN h |->
            CASE m \in types ->
                    [h[m] EXCEPT !.unnamed = @ + Cardinality(WaitingAt(h, m))]
              [] \E t \in types : \E k \in WaitingAt(h, t) : h[t].children[k] = m ->
                    LET t == CHOOSE t \in types : m \in KidSet(h, t)
                        k == CHOOSE k \in WaitingAt(h, t) : h[t].children[k] = m
                    IN  [h[m] EXCEPT !.name = NameAt(h, t, k)]
              [] OTHER -> h[m]]

-----------------------------------------------------------------------------
(***************************************************************************)
(* What makes a heap a tree of nodes.                                      *)
(***************************************************************************)

\* Children are nodes of the same AST, no count exceeds the array that was
\* allocated for it, and a section type has the name of one.
TypedAst(h) ==
    /\ h \in Seq(AstNode(DOMAIN h))
    /\ \A n \in DOMAIN h :
          /\ h[n].number <= Len(h[n].children)
          /\ h[n].kind = "ANT_SECTION_TYPE" => h[n].name \in TypeNames \cup {NoString}

\* The kinds a child of a node may have, by the kind of the node.  A sentinel
\* is empty as soon as the parser is done with it; an option has list items
\* below it where a file has a list with the name of an option.
ChildKinds(kind) ==
    CASE kind = "ANT_ROOT"         -> {"ANT_PACKAGE", "ANT_CONFIG"}
      [] kind = "ANT_CONFIG"       -> {"ANT_SECTION_TYPE"}
      [] kind = "ANT_SECTION_TYPE" -> {"ANT_SECTION_NAME"}
      [] kind = "ANT_SECTION_NAME" -> {"ANT_OPTION", "ANT_LIST"}
      [] kind = "ANT_OPTION"       -> {"ANT_LIST_ITEM"}
      [] kind = "ANT_LIST"         -> {"ANT_LIST_ITEM"}
      [] OTHER                     -> {}

\* The root and the sentinels are in the pool and nowhere else.
PoolKinds == {"ANT_ROOT", "ANT_SENTINEL"}

LayeredAst(h) ==
    \A n \in DOMAIN h :
        /\ \A m \in KidSet(h, n) : h[m].kind \in ChildKinds(h[n].kind)
        /\ h[n].parent \in DOMAIN h => h[n].kind \in ChildKinds(h[h[n].parent].kind)
        /\ h[n].parent = Pool => h[n].kind \in PoolKinds

\* No node is in two places.
DisjointChildren(h) ==
    \A n, p \in DOMAIN h : \A k \in 1 .. h[n].number, l \in 1 .. h[p].number :
        h[n].children[k] = h[p].children[l] => n = p /\ k = l

\* A node is among the children of the node its parent pointer names.
ParentsAgree(h) ==
    \A n \in DOMAIN h : h[n].parent \in DOMAIN h => n \in KidSet(h, h[n].parent)

WellFormed(h) ==
    /\ TypedAst(h)
    /\ LayeredAst(h)
    /\ DisjointChildren(h)
    /\ ParentsAgree(h)

-----------------------------------------------------------------------------
(***************************************************************************)
(* What the functions of the library keep of such a tree besides.          *)
(***************************************************************************)

LineKinds == {"ANT_OPTION", "ANT_LIST", "ANT_LIST_ITEM"}

\* There is ast->root.
Rooted(h) == \E n \in DOMAIN h : h[n].kind = "ANT_ROOT"

\* Section types and sections have names, also when they are deleted; a line that
\* is not deleted has what it is written with.
Attributed(h) ==
    \A n \in DOMAIN h :
        /\ h[n].kind \in {"ANT_SECTION_TYPE", "ANT_SECTION_NAME"} => h[n].name # NoString
        /\ h[n].kind \in LineKinds /\ ~Deleted(h, n) => h[n].name # NoString
        /\ h[n].kind = "ANT_OPTION" /\ ~Deleted(h, n) => h[n].value # NoString

\* Of the section types with one name, all but the first are deleted and empty.
MergedBelow(h, c) ==
    \A i, j \in 1 .. h[c].number :
        LET s == h[c].children[i]
            t == h[c].children[j]
        IN  i < j /\ h[s].name = h[t].name => Deleted(h, t) /\ h[t].number = 0

Merged(h) == \A c \in DOMAIN h : h[c].kind = "ANT_CONFIG" => MergedBelow(h, c)

\* Lines of one section that are not deleted have different names.
LinesDistinct(h) ==
    \A s \in DOMAIN h : h[s].kind = "ANT_SECTION_NAME" =>
        \A m, n \in KidSet(h, s) :
            ~Deleted(h, m) /\ ~Deleted(h, n) /\ h[m].name = h[n].name => m = n

\* A section type was created for a section, and keeps its array when it is emptied.
ArraysKept(h) ==
    \A t \in DOMAIN h : h[t].kind = "ANT_SECTION_TYPE" =>
        /\ h[t].children # <<>>
        /\ ~Deleted(h, t) => h[t].number > 0

Orderly(h) ==
    /\ Rooted(h)
    /\ Attributed(h)
    /\ Merged(h)
    /\ LinesDistinct(h)
    /\ ArraysKept(h)

\* No section below a section type waits for a name, and the counter of the type
\* is ahead of the indices it has given.
Numbered(h) ==
    \A t \in DOMAIN h : h[t].kind = "ANT_SECTION_TYPE" /\ ~Deleted(h, t) =>
        \A s \in KidSet(h, t) :
            /\ ~Waiting(h, s)
            /\ ~Deleted(h, s) /\ h[s].name \in UnnamedNames /\ h[s].name[1] = h[t].name
                  => h[s].name[2] < h[t].unnamed

\* Sections of one type that are not deleted have different names.
SectionsDistinct(h) ==
    \A t \in DOMAIN h : h[t].kind = "ANT_SECTION_TYPE" /\ ~Deleted(h, t) =>
        \A m, n \in KidSet(h, t) :
            ~Deleted(h, m) /\ ~Deleted(h, n) /\ h[m].name = h[n].name => m = n

=============================================================================
