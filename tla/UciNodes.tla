------------------------------ MODULE UciNodes ------------------------------
(***************************************************************************)
(* The node API of src/src/uci2.c as a state machine.  Its state is the    *)
(* AST and the error code of the last call; a client makes one call after  *)
(* another, with any node it can get hold of and with any of the names.    *)
(*                                                                         *)
(* Each function of the library is an operator from a heap and arguments   *)
(* to a result: the heap it leaves behind, its return value and *out.      *)
(* Each function that changes the AST is one action.  NoNode and NoString  *)
(* stand for NULL arguments, a NULL out pointer included, since every NULL *)
(* argument is answered in the same way before anything is touched.        *)
(***************************************************************************)
EXTENDS UciDocument

CONSTANTS
    InitialAsts,    \* the ASTs the client may start from
    MaxNodes,       \* bound: the nodes a heap may grow to by calls that add some
    MaxIndex        \* bound: the value a counter of unnamed sections may reach

\* The AST of a file is orderly and numbered: see ParsedIsWellFormed in UciParserProps.
ASSUME InitialAstsAssumption ==
    \A h \in InitialAsts : WellFormed(h) /\ Orderly(h) /\ Numbered(h)

VARIABLES
    heap,           \* the nodes of the AST
    err             \* what the last call returned

vars == <<heap, err>>

\* ABORTED is no error code: an assertion failed, the code called abort(), or
\* it passed NULL to strcmp, and the process is gone.
Errors == {"UE_NONE", "UE_INVALID_ARGUMENT", "UE_NODE_NOT_FOUND",
           "UE_NODE_TYPE_MISMATCH", "UE_NODE_DUPLICATE",
           "UE_NODE_ATTRIBUTE_MISSING", "UE_ITERATOR_END", "ABORTED"}

Result(h, error, node) == [heap |-> h, err |-> error, out |-> node]
Success(h, node)       == Result(h, "UE_NONE", node)
Failure(h, error)      == Result(h, error, NoNode)

\* Go on with Step from where r got to, unless r failed.
Then(r, Step(_)) == IF r.err = "UE_NONE" THEN Step(r.heap) ELSE r

-----------------------------------------------------------------------------
(***************************************************************************)
(* Checking arguments.                                                     *)
(***************************************************************************)

\* The switch of uci2_node_type_get; any other kind of node runs into abort().
PublicType ==
    [kind \in {"ANT_CONFIG", "ANT_SECTION_NAME", "ANT_OPTION", "ANT_LIST", "ANT_LIST_ITEM"} |->
        CASE kind = "ANT_CONFIG"       -> "UNT_ROOT"
          [] kind = "ANT_SECTION_NAME" -> "UNT_SECTION"
          [] kind = "ANT_OPTION"       -> "UNT_OPTION"
          [] kind = "ANT_LIST"         -> "UNT_LIST"
          [] kind = "ANT_LIST_ITEM"    -> "UNT_LIST_ELEMENT"]

NodeTypeError(h, n) ==
    IF n = NoNode THEN "UE_INVALID_ARGUMENT"
    ELSE IF Deleted(h, n) THEN "UE_NODE_NOT_FOUND"
    ELSE IF h[n].kind \notin DOMAIN PublicType THEN "ABORTED"
    ELSE "UE_NONE"

\* Why node n is refused where a live node of the given type is wanted.
HandleError(h, n, type) ==
    LET error == NodeTypeError(h, n)
    IN  IF error # "UE_NONE" THEN error
        ELSE IF PublicType[h[n].kind] # type THEN "UE_NODE_TYPE_MISMATCH"
        ELSE "UE_NONE"

\* The checks of the functions that also take strings: none may be NULL.
CallError(h, n, strings, type) ==
    IF NoString \in strings THEN "UE_INVALID_ARGUMENT" ELSE HandleError(h, n, type)

\* The checks of a getter: the attribute comes before the type of the node.
GetterError(h, n, attribute(_), type) ==
    IF n # NoNode /\ ~Deleted(h, n) /\ attribute(n) = NoString
    THEN "UE_NODE_ATTRIBUTE_MISSING" ELSE HandleError(h, n, type)

\* Mutant: an option and a list may share a name.
NameTakenInKind(h, n, name) ==
    \E m \in KidSet(h, h[n].parent) :
        ~Deleted(h, m) /\ h[m].name = name /\ h[m].kind = h[n].kind

\* A live sibling of n, or n itself, has the name.
NameTaken(h, n, name) ==
    \E m \in KidSet(h, h[n].parent) : ~Deleted(h, m) /\ h[m].name = name

-----------------------------------------------------------------------------
(***************************************************************************)
(* Functions that only read.                                               *)
(***************************************************************************)

SectionTypeGetError(h, n) ==
    GetterError(h, n, LAMBDA m : h[h[m].parent].name, "UNT_SECTION")
SectionNameGetError(h, n)      == GetterError(h, n, LAMBDA m : h[m].name, "UNT_SECTION")
OptionNameGetError(h, n)       == GetterError(h, n, LAMBDA m : h[m].name, "UNT_OPTION")
OptionValueGetError(h, n)      == GetterError(h, n, LAMBDA m : h[m].value, "UNT_OPTION")
ListNameGetError(h, n)         == GetterError(h, n, LAMBDA m : h[m].name, "UNT_LIST")
ListElementValueGetError(h, n) == GetterError(h, n, LAMBDA m : h[m].name, "UNT_LIST_ELEMENT")

\* What a loop over the children of n that compares names with strcmp stops
\* at: the first child with the name, dead or alive.  NoNode when there is
\* none; a child without a name on the way there is a NULL argument of strcmp.
Search(h, n, name) ==
    LET kids == Kids(h, n)
        stop == SelectInSeq(kids, LAMBDA m : h[m].name \in {name, NoString})
    IN  IF stop = 0 THEN Failure(h, "UE_NODE_NOT_FOUND")
        ELSE IF h[kids[stop]].name = NoString THEN Failure(h, "ABORTED")
        ELSE Success(h, kids[stop])

\* The loop over all sections: leaving the inner loop at a match does not leave
\* the outer one, so that the match in the last section type wins.
SearchSections(h, config, name) ==
    LET found == SeqMap(LAMBDA t : Search(h, t, name), Kids(h, config))
        last  == SelectLastInSeq(found, LAMBDA r : r.err = "UE_NONE")
    IN  IF \E r \in Range(found) : r.err = "ABORTED" THEN Failure(h, "ABORTED")
        ELSE IF last = 0 THEN Failure(h, "UE_NODE_NOT_FOUND")
        ELSE found[last]

\* Mutant: any match counts.
IfAny(r) == r

\* The match counts only if it is not deleted.
IfLive(r) ==
    IF r.err = "UE_NONE" /\ Deleted(r.heap, r.out)
    THEN Failure(r.heap, "UE_NODE_NOT_FOUND") ELSE r

NodeGet(h, section, option) ==
    LET config == ConfigNode(h)
        found  == IfLive(SearchSections(h, config, section))
    IN  IF section = NoString /\ option # NoString THEN Failure(h, "UE_INVALID_ARGUMENT")
        ELSE IF config = NoNode THEN Failure(h, "UE_NODE_NOT_FOUND")
        ELSE IF section = NoString THEN Success(h, config)
        ELSE IF option = NoString THEN found
        ELSE Then(found, LAMBDA g : IfLive(Search(g, found.out, option)))

-----------------------------------------------------------------------------
(***************************************************************************)
(* Functions that change the AST.                                          *)
(***************************************************************************)

\* Mutants: the last child of the parent is put in the place of the removed one,
\* but still counted in its own; the parent counts one child less; the array of the
\* node is freed, and its children are still counted.
Replaced(h, n) ==
    IF n = NoNode \/ Deleted(h, n) THEN h
    ELSE LET holder == h[n].parent
             kids   == Kids(h, holder)
             k      == CHOOSE i \in DOMAIN kids : kids[i] = n
         IN  [h EXCEPT ![n].parent = NoNode, ![holder].children[k] = Last(kids)]
Uncounted(h, n) ==
    IF n = NoNode \/ Deleted(h, n) THEN h
    ELSE [h EXCEPT ![n].parent = NoNode, ![h[n].parent].number = @ - 1]
ArrayFreed(h, n) ==
    IF n = NoNode THEN h ELSE [h EXCEPT ![n].parent = NoNode, ![n].children = <<>>]

NodeRemove(h, n) == IF n = NoNode THEN h ELSE [h EXCEPT ![n].parent = NoNode]

\* Mutant: the node that could not be completed stays.
OrKeep(r, n) == r

\* error_out of the four functions that add a node.
OrRemove(r, n) ==
    IF r.err \in {"UE_NONE", "ABORTED"} THEN r
    ELSE [r EXCEPT !.heap = NodeRemove(@, n)]

\* ast_node_merge and unnamed_section_name_set assert that their argument is
\* neither NULL nor deleted.
Asserted(h, n, Step(_)) ==
    IF n = NoNode \/ Deleted(h, n) THEN Failure(h, "ABORTED") ELSE Success(Step(h), NoNode)

\* Mutant: the type node is renamed, but neither merged nor its section numbered.
TypeRenamed(h, n, type) ==
    LET error == CallError(h, n, {type}, "UNT_SECTION")
    IN  IF error # "UE_NONE" THEN Failure(h, error)
        ELSE Success([h EXCEPT ![h[n].parent].name = type], NoNode)

\* Mutant: the section takes its children over once more, the deleted ones too.
ChildrenTakenOver(h, n, type) ==
    LET error == CallError(h, n, {type}, "UNT_SECTION")
    IN  IF error # "UE_NONE" THEN Failure(h, error)
        ELSE Success([m \in DOMAIN h |-> IF m \in KidSet(h, n)
                                         THEN [h[m] EXCEPT !.parent = n] ELSE h[m]], NoNode)

\* Only a section without a name, or with one that starts with '@', is renamed.
SectionTypeSet(h, n, type) ==
    LET error   == CallError(h, n, {type}, "UNT_SECTION")
        t       == h[n].parent
        retyped == [h EXCEPT ![t].name = type]
        merged  == Asserted(retyped, h[t].parent,
                            LAMBDA g : AstNodeMerge(g, h[t].parent))
        Rename(g) == LET config == g[g[n].parent].parent
                     IN  Asserted([g EXCEPT ![n].name = Placeholder], config,
                                  LAMBDA f : UnnamedSectionNameSet(f, config))
    IN  IF error # "UE_NONE" THEN Failure(h, error)
        ELSE IF h[n].name \in AtNames \cup {NoString} THEN Then(merged, Rename)
        ELSE merged

\* Mutant: the name is set before it is looked for.
NameSetFirst(h, n, name, type) ==
    LET error == CallError(h, n, {name}, type)
        named == [h EXCEPT ![n].name = name]
    IN  IF error # "UE_NONE" THEN Failure(h, error)
        ELSE IF NameTaken(h, n, name) THEN Failure(named, "UE_NODE_DUPLICATE")
        ELSE Success(named, NoNode)

\* The three functions that name a section, an option or a list.
NameSet(h, n, name, type) ==
    LET error == CallError(h, n, {name}, type)
    IN  IF error # "UE_NONE" THEN Failure(h, error)
        ELSE IF NameTaken(h, n, name) THEN Failure(h, "UE_NODE_DUPLICATE")
        ELSE Success([h EXCEPT ![n].name = name], NoNode)

SectionNameSet(h, n, name) == NameSet(h, n, name, "UNT_SECTION")
OptionNameSet(h, n, name)  == NameSet(h, n, name, "UNT_OPTION")
ListNameSet(h, n, name)    == NameSet(h, n, name, "UNT_LIST")

OptionValueSet(h, n, value) ==
    LET error == CallError(h, n, {value}, "UNT_OPTION")
    IN  IF error # "UE_NONE" THEN Failure(h, error)
        ELSE Success([h EXCEPT ![n].value = value], NoNode)

\* The value of a list element is kept in its name.
ListElementValueSet(h, n, value) ==
    LET error == CallError(h, n, {value}, "UNT_LIST_ELEMENT")
    IN  IF error # "UE_NONE" THEN Failure(h, error)
        ELSE Success([h EXCEPT ![n].name = value], NoNode)

\* uci2_node_add with its arguments checked: a nameless node below parent.
AddChild(h, parent, kind) ==
    LET created == AstNodeNew(h, kind, NoString, NoString)
    IN  AstNodeAdd(created, parent, Newest(created))

\* Mutant: a section hangs below the config node.
WithoutType(h, parent, kind) == AddChild(h, parent, kind)

\* A section hangs below a type node of its own until its type is set.
NodeAdd(h, parent, kind) ==
    IF kind = "ANT_SECTION_NAME"
    THEN LET typed == AddChild(h, parent, "ANT_SECTION_TYPE")
         IN  AddChild(typed, Newest(typed), kind)
    ELSE AddChild(h, parent, kind)

\* What the functions that add a node have in common: check, add, set the
\* attributes, and remove the node again if one of them is refused.
AddNode(h, parent, strings, kind, parentType, SetAttributes(_, _)) ==
    LET error == CallError(h, parent, strings, parentType)
        added == NodeAdd(h, parent, kind)
        node  == Newest(added)
        set   == SetAttributes(added, node)
    IN  IF error # "UE_NONE" THEN Failure(h, error)
        ELSE OrRemove([set EXCEPT !.out = node], node)

SectionAdd(h, parent, type, name) ==
    AddNode(h, parent, {type}, "ANT_SECTION_NAME", "UNT_ROOT",
            LAMBDA g, n : IF name = NoString THEN SectionTypeSet(g, n, type)
                          ELSE Then(SectionTypeSet(g, n, type),
                                    LAMBDA f : SectionNameSet(f, n, name)))

OptionAdd(h, parent, name, value) ==
    AddNode(h, parent, {name, value}, "ANT_OPTION", "UNT_SECTION",
            LAMBDA g, n : Then(OptionNameSet(g, n, name),
                               LAMBDA f : OptionValueSet(f, n, value)))

ListAdd(h, parent, name) ==
    AddNode(h, parent, {name}, "ANT_LIST", "UNT_SECTION",
            LAMBDA g, n : ListNameSet(g, n, name))

ListElementAdd(h, parent, value) ==
    AddNode(h, parent, {value}, "ANT_LIST_ITEM", "UNT_LIST",
            LAMBDA g, n : ListElementValueSet(g, n, value))

-----------------------------------------------------------------------------
(***************************************************************************)
(* The state machine.                                                      *)
(***************************************************************************)

\* The nodes a client can hold: uci2_node_get, the functions that add a node
\* and the iterator never hand out any other.
Handles == {n \in DOMAIN heap : heap[n].kind \in DOMAIN PublicType} \cup {NoNode}

\* A heap may be changed in place whatever its length.
WithinBounds(h) ==
    /\ Len(h) <= MaxNodes \/ Len(h) = Len(heap)
    /\ \A n \in DOMAIN h : h[n].unnamed <= MaxIndex

\* One call: the library computes r from the heap the call found.
Call(r) ==
    /\ err # "ABORTED"
    /\ WithinBounds(r.heap)
    /\ err' = r.err
    /\ heap' = IF r.err = "ABORTED" THEN heap ELSE r.heap

OrNull(names) == names \cup {NoString}

Init == heap \in InitialAsts /\ err = "UE_NONE"

AddSection(n)     == \E type \in OrNull(TypeNames), name \in OrNull(SectionNames) :
                        Call(SectionAdd(heap, n, type, name))
AddOption(n)      == \E name \in OrNull(OptionNames), value \in OrNull(Values) :
                        Call(OptionAdd(heap, n, name, value))
AddList(n)        == \E name \in OrNull(OptionNames) : Call(ListAdd(heap, n, name))
AddListElement(n) == \E value \in OrNull(Values) : Call(ListElementAdd(heap, n, value))

RenameSection(n)  == \E name \in OrNull(SectionNames) : Call(SectionNameSet(heap, n, name))
RenameOption(n)   == \E name \in OrNull(OptionNames) : Call(OptionNameSet(heap, n, name))
RenameList(n)     == \E name \in OrNull(OptionNames) : Call(ListNameSet(heap, n, name))
SetOptionValue(n) == \E value \in OrNull(Values) : Call(OptionValueSet(heap, n, value))
SetListElement(n) == \E value \in OrNull(Values) : Call(ListElementValueSet(heap, n, value))
RetypeSection(n)  == \E type \in OrNull(TypeNames) : Call(SectionTypeSet(heap, n, type))

\* uci2_node_remove returns nothing and cannot fail.
RemoveNode(n) == Call(Success(NodeRemove(heap, n), NoNode))

EditLines(n) ==
    \/ AddOption(n)
    \/ AddList(n)
    \/ AddListElement(n)
    \/ RenameOption(n)
    \/ RenameList(n)
    \/ SetOptionValue(n)
    \/ SetListElement(n)

EditSections(n) ==
    \/ AddSection(n)
    \/ RenameSection(n)

Next ==
    \E n \in Handles : \/ EditLines(n)
                       \/ EditSections(n)
                       \/ RetypeSection(n)
                       \/ RemoveNode(n)

Spec == Init /\ [][Next]_vars

\* A client that leaves the types of the sections alone.
KeepTypes ==
    \E n \in Handles : EditLines(n) \/ EditSections(n) \/ RemoveNode(n)

SpecKeepTypes == Init /\ [][KeepTypes]_vars

\* A client that edits and removes lines in the sections that are there.
KeepSections == \E n \in Handles : EditLines(n) \/ RemoveNode(n)

SpecKeepSections == Init /\ [][KeepSections]_vars

=============================================================================
