---------------------------- MODULE UciIterator -----------------------------
(***************************************************************************)
(* The iterator of src/src/uci2.c next to the node API: a client that walks *)
(* over the children of a node and changes the AST between two steps.  The *)
(* iterator holds a node and offsets into arrays of children, which the     *)
(* node API may meanwhile extend, empty or leave stale.                     *)
(*                                                                         *)
(* seen and awaited are history variables: what the iterator has returned   *)
(* of the children that count, and the children that were there when it was *)
(* created and that it has neither returned nor seen deleted.  What it      *)
(* finds beyond the count of an emptied section type is not in seen.  seen  *)
(* is cut off where it has more entries than the AST has nodes: by then a   *)
(* node has been returned twice.                                            *)
(***************************************************************************)
EXTENDS UciNodes

VARIABLES
    iter,       \* struct uci2_node_iterator_s, or NoIterator when there is none
    seen,
    awaited

NoIterator == [start |-> NoNode, i |-> 0, j |-> 0]

iterVars == <<iter, seen, awaited>>
allVars  == <<vars, iterVars>>

\* children[k] of node n, counted from 0 as in the code.
Child(h, n, k) == h[n].children[k + 1]

-----------------------------------------------------------------------------
(***************************************************************************)
(* uci2_node_iterator_next.                                                *)
(***************************************************************************)

\* Where the loop that skips section type nodes without children stops.
SkipEmptyTypes(h, it) ==
    LET ahead == {k \in it.i .. h[it.start].number - 1 : h[Child(h, it.start, k)].number # 0}
        next  == IF ahead = {} THEN h[it.start].number ELSE Min(ahead)
    IN  IF next <= it.i THEN it ELSE [it EXCEPT !.i = next, !.j = 0]

\* Mutant: the end of a section type node leads back to its first section.
AdvanceInside(h, it) ==
    IF it.j + 1 >= h[Child(h, it.start, it.i)].number
    THEN [it EXCEPT !.j = 0] ELSE [it EXCEPT !.j = @ + 1]

\* Mutant: the end of the array is noticed one entry late.
AdvanceLate(h, it) ==
    IF it.j + 1 > h[Child(h, it.start, it.i)].number
    THEN [it EXCEPT !.i = @ + 1, !.j = 0] ELSE [it EXCEPT !.j = @ + 1]

\* The offsets after reading children[j] of the i-th section type node.
Advance(h, it) ==
    IF it.j + 1 >= h[Child(h, it.start, it.i)].number
    THEN [it EXCEPT !.i = @ + 1, !.j = 0] ELSE [it EXCEPT !.j = @ + 1]

\* The places the do loop over the sections may read: the rest of the i-th section
\* type node and the ones after it.  The loop reads before it compares the offset
\* with the count, so at least one child of each, also of a node that
\* ast_node_merge emptied.
SectionReads(h, it) ==
    LET FirstRead(i) == IF i = it.i THEN it.j ELSE 0
        Count(i)     == h[Child(h, it.start, i)].number
        LastRead(i)  == IF Count(i) > FirstRead(i) THEN Count(i) - 1 ELSE FirstRead(i)
    IN  UNION {{[it EXCEPT !.i = i, !.j = j] : j \in FirstRead(i) .. LastRead(i)} :
                  i \in it.i .. h[it.start].number - 1}

SectionAt(h, place) == Child(h, Child(h, place.start, place.i), place.j)

\* The places the do loop over options, lists or list elements may read.
ChildReads(h, it) == {[it EXCEPT !.i = i] : i \in it.i .. h[it.start].number - 1}

OverSections(h, it) == h[it.start].kind = "ANT_CONFIG"

Reads(h, it) ==
    IF OverSections(h, it) THEN SectionReads(h, SkipEmptyTypes(h, it)) ELSE ChildReads(h, it)

\* The order the loops go in.
Before(p, q) == p.i < q.i \/ (p.i = q.i /\ p.j < q.j)

NodeAt(h, place) ==
    IF OverSections(h, place) THEN SectionAt(h, place) ELSE Child(h, place.start, place.i)

\* Whether the array of the section type reaches as far as the place.
InArray(h, place) ==
    OverSections(h, place) =>
        place.j < Len(h[Child(h, place.start, place.i)].children)

\* Whether the section type counts the place among its children: the entries after those
\* are what ast_node_merge left in the array when it emptied the type.
Counted(h, place) ==
    OverSections(h, place) => place.j < h[Child(h, place.start, place.i)].number

\* What the loop finds at a place: beyond the array, nothing or any node.
NodesAt(h, place) == IF InArray(h, place) THEN {NodeAt(h, place)} ELSE DOMAIN h

\* The loops stop at the first node that is not deleted.
StopsAt(h, it, place) ==
    /\ \E n \in NodesAt(h, place) : ~Deleted(h, n)
    /\ \A p \in Reads(h, it) : Before(p, place) => \E n \in NodesAt(h, p) : Deleted(h, n)

\* Mutants: the offset goes up twice; it stays where it is.
AfterNext(h, place) ==
    IF OverSections(h, place) THEN Advance(h, place) ELSE [place EXCEPT !.i = @ + 2]
NotAfter(h, place) == IF OverSections(h, place) THEN Advance(h, place) ELSE place

After(h, place) ==
    IF OverSections(h, place) THEN Advance(h, place) ELSE [place EXCEPT !.i = @ + 1]

Outcome(error, node, it, counted) ==
    [err |-> error, out |-> node, iter |-> it, counted |-> counted]

\* What uci2_node_iterator_next may do: stop at a node, come to the end, or be lost
\* beyond an array.
IteratorNext(h, it) ==
    LET error   == NodeTypeError(h, it.start)
        stops   == {p \in Reads(h, it) : StopsAt(h, it, p)}
        found   == UNION {{Outcome("UE_NONE", n, After(h, p), Counted(h, p)) :
                              n \in {m \in NodesAt(h, p) : ~Deleted(h, m)}} : p \in stops}
        atEnd   == Outcome("UE_ITERATOR_END", NoNode,
                           [it EXCEPT !.i = h[it.start].number, !.j = 0], FALSE)
        ended   == \A p \in Reads(h, it) : \E n \in NodesAt(h, p) : Deleted(h, n)
        lost    == \E p \in stops : ~InArray(h, p)
    IN  IF error # "UE_NONE" THEN {Outcome(error, NoNode, it, FALSE)}
        ELSE found \cup (IF ended THEN {atEnd} ELSE {})
                   \cup (IF lost THEN {Outcome("ABORTED", NoNode, it, FALSE)} ELSE {})

\* Nodes of a section type, options, list elements: anything but these is refused.
IteratorNewError(h, n) ==
    LET error == NodeTypeError(h, n)
    IN  IF error # "UE_NONE" THEN error
        ELSE IF PublicType[h[n].kind] \notin {"UNT_ROOT", "UNT_SECTION", "UNT_LIST"}
        THEN "UE_NODE_TYPE_MISMATCH" ELSE "UE_NONE"

\* What an iterator over n is there to return.
LiveChildren(h, n) ==
    {m \in IF h[n].kind = "ANT_CONFIG" THEN UNION {KidSet(h, t) : t \in KidSet(h, n)}
           ELSE KidSet(h, n) : ~Deleted(h, m)}

-----------------------------------------------------------------------------
(***************************************************************************)
(* The state machine.                                                      *)
(***************************************************************************)

IterInit == Init /\ iter = NoIterator /\ seen = <<>> /\ awaited = {}

New(n) ==
    LET error == IteratorNewError(heap, n)
    IN  /\ err # "ABORTED"
        /\ iter = NoIterator
        /\ err' = error
        /\ IF error = "UE_NONE"
           THEN /\ iter' = [start |-> n, i |-> 0, j |-> 0]
                /\ seen' = <<>>
                /\ awaited' = LiveChildren(heap, n)
           ELSE UNCHANGED iterVars
        /\ UNCHANGED heap

Step ==
    \E r \in IteratorNext(heap, iter) :
        /\ err # "ABORTED"
        /\ iter # NoIterator
        /\ err' = r.err
        /\ iter' = r.iter
        /\ seen' = IF r.counted /\ Len(seen) <= Len(heap)
                   THEN Append(seen, r.out) ELSE seen
        /\ awaited' = awaited \ {r.out}
        /\ UNCHANGED heap

Destroy ==
    /\ err # "ABORTED"
    /\ iter # NoIterator
    /\ iter' = NoIterator
    /\ seen' = <<>>
    /\ awaited' = {}
    /\ UNCHANGED vars

\* A call of the node API between two steps of the iterator.
Meanwhile(call) ==
    /\ call
    /\ awaited' = {n \in awaited : ~Deleted(heap', n)}
    /\ UNCHANGED <<iter, seen>>

\* Retyping moves sections to other type nodes, so that an iterator over the
\* sections need not return any that was there when it was created.
RetypeMeanwhile(n) ==
    /\ RetypeSection(n)
    /\ awaited' = IF iter # NoIterator /\ heap[iter.start].kind = "ANT_CONFIG"
                  THEN {} ELSE {m \in awaited : ~Deleted(heap', m)}
    /\ UNCHANGED <<iter, seen>>

Iterate == (\E n \in Handles : New(n)) \/ Step \/ Destroy

IterNext ==
    \/ Iterate
    \/ \E n \in Handles :
          \/ Meanwhile(EditLines(n) \/ EditSections(n) \/ RemoveNode(n))
          \/ RetypeMeanwhile(n)

IterSpec == IterInit /\ [][IterNext]_allVars

\* The calls of a client that extend each kind of array the iterator walks over, or
\* delete entries of it.
EditArrays(n) ==
    \/ AddSection(n)
    \/ AddListElement(n)
    \/ RemoveNode(n)

ArraysNext ==
    \/ Iterate
    \/ \E n \in Handles : Meanwhile(EditArrays(n)) \/ RetypeMeanwhile(n)

ArraysSpec == IterInit /\ [][ArraysNext]_allVars

\* A client that runs uci2_node_iterator_next until it returns an error, as the
\* loops of src/tests/test_uci2.c do, destroys the iterator then, and removes
\* nodes before the loop and in its body.
LoopNext ==
    \/ \E n \in Handles : New(n)
    \/ err = "UE_NONE" /\ Step
    \/ err = "UE_NONE" /\ Meanwhile(\E n \in Handles : RemoveNode(n))
    \/ err # "UE_NONE" /\ Destroy

\* The body of the loop comes to an end, so the loop calls the iterator again.
LoopSpec == IterInit /\ [][LoopNext]_allVars /\ WF_allVars(err = "UE_NONE" /\ Step)

-----------------------------------------------------------------------------
(***************************************************************************)
(* What the iterator promises.                                             *)
(***************************************************************************)

Iterating == iter # NoIterator /\ ~Deleted(heap, iter.start)

\* The iterator's offsets stay usable while the AST changes around it, and its
\* history holds nodes of the AST.
IterTypeOK ==
    /\ iter.start \in DOMAIN heap \cup {NoNode}
    /\ seen \in Seq(DOMAIN heap)
    /\ awaited \subseteq DOMAIN heap
    /\ Iterating => iter.i \in 0 .. heap[iter.start].number

\* The do loop of uci2_node_iterator_next reads before it compares offset and count:
\* what it reads is in the array of the section type, unless the type the iterator
\* stands in was emptied and has got sections again since.
ReadsInsideUnlessRevived ==
    Iterating /\ OverSections(heap, iter) =>
        \A place \in Reads(heap, iter) :
            \/ InArray(heap, place)
            \/ place.i = iter.i /\ Deleted(heap, Child(heap, iter.start, iter.i))

\* An iteration that ends by UE_ITERATOR_END has returned every child that was
\* there when it began and was not deleted meanwhile, whatever was added.
NothingMissed == iter # NoIterator /\ err = "UE_ITERATOR_END" => awaited = {}

\* An iterator over options, lists or list elements returns them in their order
\* in the AST, and none of them twice.
InOrder ==
    Iterating /\ ~OverSections(heap, iter) =>
        \A a, b \in DOMAIN seen : a < b =>
            \E k, l \in 1 .. heap[iter.start].number :
                /\ k < l
                /\ heap[iter.start].children[k] = seen[a]
                /\ heap[iter.start].children[l] = seen[b]

\* The iterator over the sections finds no section twice among those its type counts,
\* although ast_node_merge moves sections from one array to another between two steps:
\* a section it returns again was read beyond the count, in the array of an emptied type.
SectionsOnce ==
    Iterating /\ OverSections(heap, iter) =>
        \A a, b \in DOMAIN seen : a # b => seen[a] # seen[b]

\* The loop while (uci2_node_iterator_next(...) == UE_NONE) ends, also when its
\* body removes nodes, the one it iterates over included.
LoopEnds == (iter # NoIterator) ~> (err # "UE_NONE")

-----------------------------------------------------------------------------
(***************************************************************************)
(* What the documentation says and the code does not do.                   *)
(***************************************************************************)

\* The iterator returns the next node of the AST: it never looks for one beyond an array.
ReadsInsideArrays ==
    Iterating /\ OverSections(heap, iter) =>
        \A place \in Reads(heap, iter) : InArray(heap, place)

=============================================================================
