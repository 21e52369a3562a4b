--------------------------- MODULE UciNodesProps ---------------------------
(***************************************************************************)
(* What the node API promises, as properties of UciNodes.                  *)
(***************************************************************************)
EXTENDS UciNodes

Node == DOMAIN heap

Live(n) == ~Deleted(heap, n)

\* The document uci2_ast_sync would write now, <<>> when there is no config node.
Document(h) == IF ConfigNode(h) = NoNode THEN <<>> ELSE Sync(h, ConfigNode(h))

-----------------------------------------------------------------------------
(***************************************************************************)
(* Invariants.                                                             *)
(***************************************************************************)

\* The AST is an array of nodes whose children are nodes of the same AST
\* (struct ast_node_s), and no count exceeds the array that was allocated
\* for it, so that no loop over children leaves the array.
TypeOK == TypedAst(heap) /\ err \in Errors

\* A node hangs below nodes of the right kind only, so that none of the
\* abort() calls marked as unreachable in uci2_node_get, uci2_ast_sync and
\* uci2_node_type_get is ever reached.
Layered == LayeredAst(heap)

\* ast_node_merge moves nodes between arrays and never copies them: each node
\* is among the children of at most one node, and there only once.
HeldOnce == DisjointChildren(heap)

\* The parent pointer and the child arrays agree: a node that is not deleted
\* and not only in the pool is among the children of its parent.
ParentHolds == ParentsAgree(heap)

\* Merging keeps one section type node per type: of the type nodes with one
\* name, all but the first are deleted and empty after every call.
TypesMerged == Merged(heap)

\* Options and lists of one section are looked up by name, so two live ones
\* never share it.
OptionNamesDistinct == LinesDistinct(heap)

\* A client that got a node can read it: no live node lacks the attributes its
\* getters ask for, although the functions that add a node create it without
\* any and may fail half way.
AttributesPresent ==
    \A n \in Node : Live(n) =>
        /\ heap[n].kind = "ANT_SECTION_NAME" =>
              /\ SectionTypeGetError(heap, n) = "UE_NONE"
              /\ SectionNameGetError(heap, n) = "UE_NONE"
        /\ heap[n].kind = "ANT_OPTION" =>
              /\ OptionNameGetError(heap, n) = "UE_NONE"
              /\ OptionValueGetError(heap, n) = "UE_NONE"
        /\ heap[n].kind = "ANT_LIST" => ListNameGetError(heap, n) = "UE_NONE"
        /\ heap[n].kind = "ANT_LIST_ITEM" => ListElementValueGetError(heap, n) = "UE_NONE"

\* Sections of one type are told apart by their names: the name check of
\* uci2_node_section_name_set and the counter of unnamed sections keep those of
\* live sections distinct as long as no section is retyped.
SectionNamesDistinct == SectionsDistinct(heap)

\* The names a client may ask for.
SectionQueries == SectionNames \cup {UnnamedName(t, i) : t \in TypeNames, i \in 0 .. MaxIndex}

\* uci2_node_get finds nothing but what it was asked for: a live option or list
\* with the name below a live section with the name.
NodeGetSound ==
    \A section \in SectionQueries, option \in OptionNames :
        LET r == NodeGet(heap, section, option)
        IN  r.err = "UE_NONE" =>
                /\ Live(r.out) /\ heap[r.out].name = option
                /\ heap[r.out].kind \in {"ANT_OPTION", "ANT_LIST"}
                /\ Live(heap[r.out].parent) /\ heap[heap[r.out].parent].name = section

\* What uci2_ast_sync writes, uci2_config_parse reads back: parsing the document
\* and writing it again gives the same document, with no line lost, merged or
\* moved.
SyncedIsParsedBack == Document(Parse(Document(heap))) = Document(heap)

-----------------------------------------------------------------------------
(***************************************************************************)
(* Action properties.                                                      *)
(***************************************************************************)

\* A call that returns an error has changed nothing that uci2_ast_sync would
\* write, however far it got before it failed.
FailedCallWritesNothing ==
    [][err' # "UE_NONE" => heap' = heap \/ Document(heap') = Document(heap)]_vars

\* A deleted option, list or list element stays deleted.
DeletedLineStaysDeleted ==
    [][\A n \in Node :
          heap[n].kind \in {"ANT_OPTION", "ANT_LIST", "ANT_LIST_ITEM"} /\ Deleted(heap, n)
              => Deleted(heap', n)]_vars

\* A deleted node stays deleted: what uci2_node_remove took out of the AST is
\* out of it for as long as the AST lives.
DeletedStaysDeleted ==
    [][\A n \in Node : Deleted(heap, n) => Deleted(heap', n)]_vars

-----------------------------------------------------------------------------
(***************************************************************************)
(* What the documentation says and the code does not do.                   *)
(***************************************************************************)

\* The assertions of ast_node_merge and unnamed_section_name_set hold: no call
\* aborts the process while the config node is there.
AssertionsHold == ConfigNode(heap) # NoNode => err # "ABORTED"

\* uci2_node_get returns one of the errors it is documented to return.
NodeGetReturns ==
    \A section \in SectionQueries, option \in OptionNames :
        NodeGet(heap, section, option).err
            \in {"UE_NONE", "UE_INVALID_ARGUMENT", "UE_NODE_NOT_FOUND"}

\* uci2_node_get finds an option that is there: a live one of a section that
\* uci2_node_get finds itself.
NodeGetComplete ==
    \A section \in SectionQueries, option \in OptionNames :
        LET s == NodeGet(heap, section, NoString)
        IN  (s.err = "UE_NONE"
                /\ \E m \in KidSet(heap, s.out) : Live(m) /\ heap[m].name = option)
            => NodeGet(heap, section, option).err # "UE_NODE_NOT_FOUND"

=============================================================================
