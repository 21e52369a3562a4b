------------------------- MODULE UciIteratorProofs --------------------------
(***************************************************************************)
(* Theorems about the iterator next to any calls of the node API.          *)
(***************************************************************************)
EXTENDS UciIterator, UciNodesProofs

-----------------------------------------------------------------------------
(***************************************************************************)
(* What the calls of the node API do to the arrays of children.            *)
(***************************************************************************)

\* The section types stay deleted, and no node changes its kind.
TypesStayDeleted(h, g) ==
    /\ DOMAIN h \subseteq DOMAIN g
    /\ \A m \in DOMAIN h :
          /\ g[m].kind = h[m].kind
          /\ h[m].kind = "ANT_SECTION_TYPE" /\ Deleted(h, m) => Deleted(g, m)

\* From h to g every node keeps the children it has, in their places.
ArraysExtend(h, g) ==
    /\ TypesStayDeleted(h, g)
    /\ \A m \in DOMAIN h : /\ h[m].number \in Nat /\ g[m].number \in Nat
                           /\ Extends(h, g, m)

\* From h to g every section type keeps its sections in their places, or they go to
\* section types before it.
MovesBack(h, g) ==
    \A c \in DOMAIN h : h[c].kind = "ANT_CONFIG" =>
        \A k \in 0 .. h[c].number - 1 :
            \/ Extends(h, g, Child(h, c, k))
            \/ \A s \in KidSet(h, Child(h, c, k)) :
                  \E i \in 0 .. k - 1 : s \in KidSet(g, Child(g, c, i))

\* From h to g every node keeps its children but section types, which may be emptied and
\* deleted.
ArraysGrow(h, g) ==
    /\ TypesStayDeleted(h, g)
    /\ \A m \in DOMAIN h : /\ h[m].number \in Nat /\ g[m].number \in Nat
                           /\ \/ Extends(h, g, m)
                              \/ h[m].kind = "ANT_SECTION_TYPE" /\ Deleted(g, m)
    /\ MovesBack(h, g)

\* One step after the other keeps what each of them keeps.
LEMMA ExtendsIsTransitive ==
    ASSUME NEW f, NEW g, NEW h, NEW m, f[m].number \in Nat, g[m].number \in Nat,
           h[m].number \in Nat, Extends(f, g, m), Extends(g, h, m)
    PROVE  Extends(f, h, m)
BY DEF Extends

\* So it does of a whole heap.
LEMMA ArraysExtendTransitive ==
    ASSUME NEW f, NEW g, NEW h, ArraysExtend(f, g), ArraysExtend(g, h)
    PROVE  ArraysExtend(f, h)
<1>1. TypesStayDeleted(f, h)
  BY DEF ArraysExtend, TypesStayDeleted
<1>2. ASSUME NEW m \in DOMAIN f
      PROVE  f[m].number \in Nat /\ h[m].number \in Nat /\ Extends(f, h, m)
  <2>1. m \in DOMAIN g
    BY DEF ArraysExtend, TypesStayDeleted
  <2>2. QED
    BY <2>1, ExtendsIsTransitive DEF ArraysExtend
<1>3. QED
  BY <1>1, <1>2 DEF ArraysExtend

\* The k-th child of a node.
LEMMA ChildFacts ==
    ASSUME NEW h, WellFormed(h), NEW n \in DOMAIN h, NEW k \in 0 .. h[n].number - 1
    PROVE  /\ Child(h, n, k) \in KidSet(h, n)
           /\ Child(h, n, k) \in DOMAIN h
           /\ h[n].kind = "ANT_CONFIG" => h[Child(h, n, k)].kind = "ANT_SECTION_TYPE"
           /\ h[Child(h, n, k)].number \in Nat
           /\ h[Child(h, n, k)].number <= Len(h[Child(h, n, k)].children)
           /\ h[Child(h, n, k)].children \in Seq(DOMAIN h)
<1>1. TypedNode(h, n) /\ LayeredNode(h, n)
  BY WellFormedUnfolds
<1>2. h[n].number \in Nat /\ KidSet(h, n) \subseteq DOMAIN h
  BY <1>1, NodeFields, KidsFacts
<1>3. k + 1 \in 1 .. h[n].number
  BY <1>2
<1>4. Child(h, n, k) \in KidSet(h, n)
  BY <1>3 DEF Child, KidSet
<1> DEFINE t == Child(h, n, k)
<1> HIDE DEF t
<1>5. t \in KidSet(h, n) /\ t \in DOMAIN h
  BY <1>2, <1>4 DEF t
<1>6. h[n].kind = "ANT_CONFIG" => h[t].kind = "ANT_SECTION_TYPE"
  BY <1>1, <1>5 DEF LayeredNode, ChildKinds
<1>7. TypedNode(h, t)
  BY <1>5, WellFormedUnfolds
<1>8. QED
  BY <1>5, <1>6, <1>7, NodeFields DEF t

\* A node that keeps its children keeps them in their places.
LEMMA ExtendsKids ==
    ASSUME NEW h, NEW g, NEW n, h[n].number \in Nat, g[n].number \in Nat, Extends(h, g, n)
    PROVE  /\ KidSet(h, n) \subseteq KidSet(g, n)
           /\ \A k \in 0 .. h[n].number - 1 :
                 k \in 0 .. g[n].number - 1 /\ Child(g, n, k) = Child(h, n, k)
<1>1. \A k \in 1 .. h[n].number : k \in 1 .. g[n].number /\ g[n].children[k] = h[n].children[k]
  BY DEF Extends
<1>2. KidSet(h, n) \subseteq KidSet(g, n)
  BY <1>1 DEF KidSet
<1>3. ASSUME NEW k \in 0 .. h[n].number - 1
      PROVE  k \in 0 .. g[n].number - 1 /\ Child(g, n, k) = Child(h, n, k)
  <2>1. k + 1 \in 1 .. h[n].number
    OBVIOUS
  <2>2. k + 1 \in 1 .. g[n].number /\ g[n].children[k + 1] = h[n].children[k + 1]
    BY <1>1, <2>1
  <2>3. QED
    BY <2>2 DEF Child
<1>4. QED
  BY <1>2, <1>3

\* What keeps all children may also be said to empty no section type.
LEMMA ExtendIsGrow ==
    ASSUME NEW h, WellFormed(h), NEW g, ArraysExtend(h, g) PROVE ArraysGrow(h, g)
<1>1. MovesBack(h, g)
  <2>1. ASSUME NEW c \in DOMAIN h, NEW k \in 0 .. h[c].number - 1
        PROVE  Extends(h, g, Child(h, c, k))
    BY ChildFacts DEF ArraysExtend
  <2>2. QED
    BY <2>1 DEF MovesBack
<1>2. QED
  BY <1>1 DEF ArraysExtend, ArraysGrow

\* A config node keeps its section types in their places.
LEMMA GrowKeepsTypes ==
    ASSUME NEW h, WellFormed(h), NEW g, ArraysGrow(h, g), NEW c \in DOMAIN h,
           h[c].kind = "ANT_CONFIG"
    PROVE  /\ c \in DOMAIN g /\ g[c].kind = "ANT_CONFIG"
           /\ \A k \in 0 .. h[c].number - 1 :
                 /\ k \in 0 .. g[c].number - 1 /\ Child(g, c, k) = Child(h, c, k)
                 /\ Child(h, c, k) \in DOMAIN h /\ Child(h, c, k) \in DOMAIN g
                 /\ h[Child(h, c, k)].number \in Nat /\ g[Child(h, c, k)].number \in Nat
<1>1. /\ h[c].number \in Nat /\ g[c].number \in Nat /\ Extends(h, g, c)
      /\ DOMAIN h \subseteq DOMAIN g /\ g[c].kind = h[c].kind
  BY DEF ArraysGrow, TypesStayDeleted
<1>2. ASSUME NEW k \in 0 .. h[c].number - 1
      PROVE  /\ k \in 0 .. g[c].number - 1 /\ Child(g, c, k) = Child(h, c, k)
             /\ Child(h, c, k) \in DOMAIN h /\ Child(h, c, k) \in DOMAIN g
             /\ h[Child(h, c, k)].number \in Nat /\ g[Child(h, c, k)].number \in Nat
  <2>1. k \in 0 .. g[c].number - 1 /\ Child(g, c, k) = Child(h, c, k)
    BY <1>1, ExtendsKids
  <2>2. Child(h, c, k) \in DOMAIN h
    BY ChildFacts
  <2>3. QED
    BY <1>1, <2>1, <2>2 DEF ArraysGrow
<1>3. QED
  BY <1>1, <1>2

\* Sections that go back in each of two steps go back in both.
LEMMA MovesBackTransitive ==
    ASSUME NEW f, WellFormed(f), NEW g, WellFormed(g), NEW h, ArraysGrow(f, g), ArraysGrow(g, h)
    PROVE  MovesBack(f, h)
<1> SUFFICES ASSUME NEW c \in DOMAIN f, f[c].kind = "ANT_CONFIG",
                    NEW k \in 0 .. f[c].number - 1
             PROVE  \/ Extends(f, h, Child(f, c, k))
                    \/ \A s \in KidSet(f, Child(f, c, k)) :
                          \E i \in 0 .. k - 1 : s \in KidSet(h, Child(h, c, i))
  BY DEF MovesBack
<1>1. c \in DOMAIN g /\ g[c].kind = "ANT_CONFIG"
  BY GrowKeepsTypes
<1> DEFINE t == Child(f, c, k)
<1>2. /\ k \in 0 .. g[c].number - 1 /\ Child(g, c, k) = t /\ t \in DOMAIN f /\ t \in DOMAIN g
      /\ f[t].number \in Nat /\ g[t].number \in Nat /\ h[t].number \in Nat
  <2>1. /\ k \in 0 .. g[c].number - 1 /\ Child(g, c, k) = t /\ t \in DOMAIN f /\ t \in DOMAIN g
        /\ f[t].number \in Nat /\ g[t].number \in Nat
    BY GrowKeepsTypes
  <2>2. QED
    BY <2>1 DEF ArraysGrow
<1>3. /\ MovesBack(f, g) /\ MovesBack(g, h)
      /\ k \in Nat /\ f[c].number \in Nat
  <2>1. f[c].number \in Nat
    BY DEF ArraysGrow
  <2>2. QED
    BY <2>1 DEF ArraysGrow
<1>4. \/ Extends(f, g, t)
      \/ \A s \in KidSet(f, t) : \E i \in 0 .. k - 1 : s \in KidSet(g, Child(g, c, i))
  BY <1>3 DEF MovesBack
<1>5. \/ Extends(g, h, t)
      \/ \A s \in KidSet(g, t) : \E i \in 0 .. k - 1 : s \in KidSet(h, Child(h, c, i))
  BY <1>1, <1>2, <1>3 DEF MovesBack
<1> HIDE DEF t
<1>6. CASE Extends(f, g, t)
  <2>1. CASE Extends(g, h, t)
    BY <1>2, <1>6, <2>1, ExtendsIsTransitive DEF t
  <2>2. CASE \A s \in KidSet(g, t) : \E i \in 0 .. k - 1 : s \in KidSet(h, Child(h, c, i))
    BY <1>2, <1>6, <2>2, ExtendsKids DEF t
  <2>3. QED
    BY <1>5, <2>1, <2>2
<1>7. CASE \A s \in KidSet(f, t) : \E i \in 0 .. k - 1 : s \in KidSet(g, Child(g, c, i))
  <2>1. ASSUME NEW s \in KidSet(f, t)
        PROVE  \E i \in 0 .. k - 1 : s \in KidSet(h, Child(h, c, i))
    <3>1. PICK i \in 0 .. k - 1 : s \in KidSet(g, Child(g, c, i))
      BY <1>7
    <3>2. i \in 0 .. g[c].number - 1 /\ i \in Nat /\ i < k
      <4>1. g[c].number \in Nat /\ k < g[c].number
        BY <1>1, <1>2, <1>3 DEF ArraysGrow
      <4>2. QED
        BY <1>3, <4>1
    <3> DEFINE u == Child(g, c, i)
    <3>3. Child(h, c, i) = u /\ g[u].number \in Nat /\ h[u].number \in Nat
      BY <1>1, <3>2, GrowKeepsTypes
    <3>4. \/ Extends(g, h, u)
          \/ \A x \in KidSet(g, u) : \E j \in 0 .. i - 1 : x \in KidSet(h, Child(h, c, j))
      BY <1>1, <1>3, <3>2 DEF MovesBack
    <3> HIDE DEF u
    <3>5. CASE Extends(g, h, u)
      BY <3>1, <3>3, <3>5, ExtendsKids DEF u
    <3>6. CASE \A x \in KidSet(g, u) : \E j \in 0 .. i - 1 : x \in KidSet(h, Child(h, c, j))
      <4>1. PICK j \in 0 .. i - 1 : s \in KidSet(h, Child(h, c, j))
        BY <3>1, <3>6 DEF u
      <4>2. j \in 0 .. k - 1
        BY <1>3, <3>2
      <4>3. QED
        BY <4>1, <4>2
    <3>7. QED
      BY <3>4, <3>5, <3>6
  <2>2. QED
    BY <2>1 DEF t
<1>8. QED
  BY <1>4, <1>6, <1>7 DEF t

\* And where section types are emptied, they stay deleted.
LEMMA ArraysGrowTransitive ==
    ASSUME NEW f, WellFormed(f), NEW g, WellFormed(g), NEW h, ArraysGrow(f, g), ArraysGrow(g, h)
    PROVE  ArraysGrow(f, h)
<1>1. TypesStayDeleted(f, h)
  BY DEF ArraysGrow, TypesStayDeleted
<1>2. ASSUME NEW m \in DOMAIN f
      PROVE  /\ f[m].number \in Nat /\ h[m].number \in Nat
             /\ Extends(f, h, m) \/ (f[m].kind = "ANT_SECTION_TYPE" /\ Deleted(h, m))
  <2>1. m \in DOMAIN g /\ g[m].kind = f[m].kind
    BY DEF ArraysGrow, TypesStayDeleted
  <2>2. f[m].number \in Nat /\ g[m].number \in Nat /\ h[m].number \in Nat
    BY <2>1 DEF ArraysGrow
  <2>3. CASE Extends(f, g, m) /\ Extends(g, h, m)
    BY <2>2, <2>3, ExtendsIsTransitive
  <2>4. CASE g[m].kind = "ANT_SECTION_TYPE" /\ Deleted(h, m)
    BY <2>1, <2>2, <2>4
  <2>5. CASE f[m].kind = "ANT_SECTION_TYPE" /\ Deleted(g, m)
    <3>1. Deleted(h, m)
      BY <2>1, <2>5 DEF ArraysGrow, TypesStayDeleted
    <3>2. QED
      BY <2>2, <2>5, <3>1
  <2>6. QED
    BY <2>1, <2>3, <2>4, <2>5 DEF ArraysGrow
<1>3. QED
  BY <1>1, <1>2, MovesBackTransitive DEF ArraysGrow

\* Where no array changes, all extend.
LEMMA SameArraysExtend ==
    ASSUME NEW h, WellFormed(h), NEW g, TypesStayDeleted(h, g),
           \A m \in DOMAIN h : SameArray(h, g, m)
    PROVE  ArraysExtend(h, g)
<1>1. ASSUME NEW m \in DOMAIN h
      PROVE  h[m].number \in Nat /\ g[m].number \in Nat /\ Extends(h, g, m)
  <2>1. h[m].number \in Nat
    BY WellFormedUnfolds, NodeFields
  <2>2. QED
    BY <2>1 DEF SameArray, Extends
<1>2. QED
  BY <1>1 DEF ArraysExtend

\* A heap extends itself.
LEMMA ArraysExtendReflexive == ASSUME NEW h, WellFormed(h) PROVE ArraysExtend(h, h)
<1>1. TypesStayDeleted(h, h) /\ \A m \in DOMAIN h : SameArray(h, h, m)
  BY DEF TypesStayDeleted, SameArray
<1>2. QED
  BY <1>1, SameArraysExtend

\* A name and a value change no array, and neither does removing a node.
LEMMA ChangesExtend ==
    ASSUME NEW h, WellFormed(h), NEW n, NEW x, NEW g,
           \/ NameChanges(h, g, n, x)
           \/ ValueChanges(h, g, n, x)
           \/ ParentChanges(h, g, n, NoNode)
    PROVE  ArraysExtend(h, g)
<1>1. TypesStayDeleted(h, g) /\ \A m \in DOMAIN h : SameArray(h, g, m)
  <2>1. CASE NameChanges(h, g, n, x)
    BY <2>1 DEF NameChanges, TypesStayDeleted, Deleted
  <2>2. CASE ValueChanges(h, g, n, x)
    BY <2>2 DEF ValueChanges, TypesStayDeleted, Deleted
  <2>3. CASE ParentChanges(h, g, n, NoNode)
    BY <2>3 DEF ParentChanges, TypesStayDeleted, Deleted
  <2>4. QED
    BY <2>1, <2>2, <2>3
<1>2. QED
  BY <1>1, SameArraysExtend

\* uci2_node_remove leaves the node in the array.
LEMMA NodeRemoveExtends ==
    ASSUME NEW h, WellFormed(h), NEW n \in DOMAIN h \cup {NoNode}, NEW g, g = NodeRemove(h, n)
    PROVE  ArraysExtend(h, g)
<1>1. CASE n = NoNode
  BY <1>1, ArraysExtendReflexive DEF NodeRemove
<1>2. CASE n # NoNode
  <2>1. n \in DOMAIN h /\ g = [h EXCEPT ![n].parent = NoNode]
    BY <1>2 DEF NodeRemove
  <2>2. ParentChanges(h, g, n, NoNode)
    BY <2>1, RemovedDetails
  <2>3. QED
    BY <2>2, ChangesExtend
<1>3. QED
  BY <1>1, <1>2

\* Naming a section, an option or a list.
LEMMA NameSetExtends ==
    ASSUME NEW h, WellFormed(h), NEW n \in DOMAIN h \cup {NoNode}, NEW name,
           NEW type \in {"UNT_SECTION", "UNT_OPTION", "UNT_LIST"},
           NEW r, r = NameSet(h, n, name, type)
    PROVE  ArraysExtend(h, r.heap)
<1> DEFINE error == CallError(h, n, {name}, type)
<1> DEFINE g == [h EXCEPT ![n].name = name]
<1>1. r.heap = h \/ (error = "UE_NONE" /\ r.heap = g)
  BY ResultFacts DEF NameSet
<1>2. CASE error = "UE_NONE"
  <2>1. n \in DOMAIN h
    BY <1>2, HandlePassed
  <2>2. ArraysExtend(h, g)
    BY <2>1, NamedDetails, ChangesExtend
  <2>3. QED
    BY <1>1, <2>2, ArraysExtendReflexive
<1>3. CASE error # "UE_NONE"
  BY <1>1, <1>3, ArraysExtendReflexive
<1>4. QED
  BY <1>2, <1>3

\* Setting the value of an option or a list element.
LEMMA ValueSetExtends ==
    ASSUME NEW h, WellFormed(h), NEW n \in DOMAIN h \cup {NoNode}, NEW value
    PROVE  /\ ArraysExtend(h, OptionValueSet(h, n, value).heap)
           /\ ArraysExtend(h, ListElementValueSet(h, n, value).heap)
<1>1. ASSUME n \in DOMAIN h
      PROVE  /\ ArraysExtend(h, [h EXCEPT ![n].value = value])
             /\ ArraysExtend(h, [h EXCEPT ![n].name = value])
  <2>1. ArraysExtend(h, [h EXCEPT ![n].value = value])
    BY <1>1, ValuedDetails, ChangesExtend
  <2>2. ArraysExtend(h, [h EXCEPT ![n].name = value])
    BY <1>1, NamedDetails, ChangesExtend
  <2>3. QED
    BY <2>1, <2>2
<1>2. ArraysExtend(h, OptionValueSet(h, n, value).heap)
  <2> DEFINE error == CallError(h, n, {value}, "UNT_OPTION")
  <2> DEFINE g == [h EXCEPT ![n].value = value]
  <2>1. \/ OptionValueSet(h, n, value).heap = h
        \/ error = "UE_NONE" /\ OptionValueSet(h, n, value).heap = g
    BY ResultFacts DEF OptionValueSet
  <2>2. error = "UE_NONE" => n \in DOMAIN h
    BY HandlePassed
  <2>3. QED
    BY <1>1, <2>1, <2>2, ArraysExtendReflexive
<1>3. ArraysExtend(h, ListElementValueSet(h, n, value).heap)
  <2> DEFINE error == CallError(h, n, {value}, "UNT_LIST_ELEMENT")
  <2> DEFINE g == [h EXCEPT ![n].name = value]
  <2>1. \/ ListElementValueSet(h, n, value).heap = h
        \/ error = "UE_NONE" /\ ListElementValueSet(h, n, value).heap = g
    BY ResultFacts DEF ListElementValueSet
  <2>2. error = "UE_NONE" => n \in DOMAIN h
    BY HandlePassed
  <2>3. QED
    BY <1>1, <2>1, <2>2, ArraysExtendReflexive
<1>4. QED
  BY <1>2, <1>3

\* A new node below p comes at the end of the array of p.
LEMMA AddsExtends ==
    ASSUME NEW h, WellFormed(h), NEW p \in DOMAIN h, NEW kind, NEW L, NEW g, Adds(h, g, p, kind, L)
    PROVE  ArraysExtend(h, g)
<1>1. TypesStayDeleted(h, g)
  BY DEF Adds, TypesStayDeleted, Deleted
<1>2. ASSUME NEW m \in DOMAIN h
      PROVE  h[m].number \in Nat /\ g[m].number \in Nat /\ Extends(h, g, m)
  <2>1. h[m].number \in Nat
    BY WellFormedUnfolds, NodeFields
  <2>2. CASE m = p
    BY <2>1, <2>2 DEF Adds, Extends
  <2>3. CASE m # p
    BY <2>1, <2>3 DEF Adds, Extends
  <2>4. QED
    BY <2>2, <2>3
<1>3. QED
  BY <1>1, <1>2 DEF ArraysExtend

\* A new line does.
LEMMA NodeAddLineExtends ==
    ASSUME NEW h, WellFormed(h), NEW p \in DOMAIN h,
           h[p].kind \in {"ANT_SECTION_NAME", "ANT_OPTION", "ANT_LIST"},
           NEW kind \in LineKinds, kind \in ChildKinds(h[p].kind),
           NEW g, g = NodeAdd(h, p, kind)
    PROVE  WellFormed(g) /\ ArraysExtend(h, g) /\ Newest(g) \in DOMAIN g
<1>1. kind # "ANT_SECTION_NAME"
  BY DEF LineKinds
<1>2. Adds(h, g, p, kind, Len(h) + 1)
  BY <1>1, AddChildAdds, AddedDetails DEF NodeAdd
<1>3. QED
  BY <1>1, <1>2, NodeAddIsSound, AddsExtends

\* Giving it up leaves it there.
LEMMA AddedExtends ==
    ASSUME NEW h, NEW g, NEW s, SoundResult(g, s), NEW n \in DOMAIN g,
           ArraysExtend(h, s.heap), NEW r, r = OrRemove([s EXCEPT !.out = n], n)
    PROVE  ArraysExtend(h, r.heap)
<1>1. WellFormed(s.heap) /\ n \in DOMAIN s.heap
  BY DEF SoundResult, Keeps
<1>2. r.heap = s.heap \/ r.heap = NodeRemove(s.heap, n)
  BY OrRemoveFacts
<1>3. ArraysExtend(s.heap, r.heap)
  BY <1>1, <1>2, NodeRemoveExtends, ArraysExtendReflexive
<1>4. QED
  BY <1>3, ArraysExtendTransitive

\* Whatever uci2_node_option_add returns, every array keeps the children it has.
LEMMA OptionAddExtends ==
    ASSUME NEW h, WellFormed(h), NEW p \in DOMAIN h \cup {NoNode},
           NEW name \in Strings \cup {NoString}, NEW value \in Strings \cup {NoString},
           NEW r, r = OptionAdd(h, p, name, value)
    PROVE  ArraysExtend(h, r.heap)
<1> DEFINE error == CallError(h, p, {name, value}, "UNT_SECTION")
<1> DEFINE g == NodeAdd(h, p, "ANT_OPTION")
<1> DEFINE n == Newest(g)
<1> DEFINE f == OptionNameSet(g, n, name)
<1> DEFINE e == OptionValueSet(f.heap, n, value)
<1> DEFINE s == IF f.err = "UE_NONE" THEN e ELSE f
<1>1. r = IF error # "UE_NONE" THEN Failure(h, error) ELSE OrRemove([s EXCEPT !.out = n], n)
  BY DEF OptionAdd, AddNode, Then
<1>2. CASE error = "UE_NONE"
  <2>1. /\ p \in DOMAIN h /\ h[p].kind = "ANT_SECTION_NAME"
        /\ "ANT_OPTION" \in ChildKinds(h[p].kind) /\ "ANT_OPTION" \in LineKinds
    BY <1>2, HandlePassed, CallErrorFacts, HandleErrorFacts DEF ChildKinds, LineKinds
  <2> HIDE DEF error, g
  <2>2. WellFormed(g) /\ ArraysExtend(h, g) /\ n \in DOMAIN g
    BY <2>1, NodeAddLineExtends DEF g
  <2> HIDE DEF n
  <2>3. SoundResult(g, f) /\ ArraysExtend(g, f.heap)
    BY <2>2, NameSetIsSound, NameSetExtends DEF OptionNameSet
  <2>4. n \in DOMAIN f.heap /\ WellFormed(f.heap)
    BY <2>2, <2>3 DEF SoundResult, Keeps
  <2> HIDE DEF f
  <2>5. SoundResult(f.heap, e) /\ ArraysExtend(f.heap, e.heap)
    BY <2>4, OptionValueSetIsSound, ValueSetExtends
  <2> HIDE DEF e
  <2>6. SoundResult(g, s) /\ ArraysExtend(h, s.heap)
    BY <2>2, <2>3, <2>5, KeepsIsTransitive, ArraysExtendTransitive DEF SoundResult
  <2> HIDE DEF s
  <2>7. r = OrRemove([s EXCEPT !.out = n], n)
    BY <1>1, <1>2 DEF error
  <2>8. QED
    BY <2>2, <2>6, <2>7, AddedExtends
<1>3. CASE error # "UE_NONE"
  BY <1>1, <1>3, ResultFacts, ArraysExtendReflexive
<1>4. QED
  BY <1>2, <1>3

\* Whatever uci2_node_list_add returns, every array keeps the children it has.
LEMMA ListAddExtends ==
    ASSUME NEW h, WellFormed(h), NEW p \in DOMAIN h \cup {NoNode},
           NEW name \in Strings \cup {NoString}, NEW r, r = ListAdd(h, p, name)
    PROVE  ArraysExtend(h, r.heap)
<1> DEFINE error == CallError(h, p, {name}, "UNT_SECTION")
<1> DEFINE g == NodeAdd(h, p, "ANT_LIST")
<1> DEFINE n == Newest(g)
<1> DEFINE s == ListNameSet(g, n, name)
<1>1. r = IF error # "UE_NONE" THEN Failure(h, error) ELSE OrRemove([s EXCEPT !.out = n], n)
  BY DEF ListAdd, AddNode
<1>2. CASE error = "UE_NONE"
  <2>1. /\ p \in DOMAIN h /\ h[p].kind = "ANT_SECTION_NAME"
        /\ "ANT_LIST" \in ChildKinds(h[p].kind) /\ "ANT_LIST" \in LineKinds
    BY <1>2, HandlePassed, CallErrorFacts, HandleErrorFacts DEF ChildKinds, LineKinds
  <2> HIDE DEF error, g
  <2>2. WellFormed(g) /\ ArraysExtend(h, g) /\ n \in DOMAIN g
    BY <2>1, NodeAddLineExtends DEF g
  <2> HIDE DEF n
  <2>3. SoundResult(g, s) /\ ArraysExtend(g, s.heap)
    BY <2>2, NameSetIsSound, NameSetExtends DEF ListNameSet
  <2> HIDE DEF s
  <2>4. r = OrRemove([s EXCEPT !.out = n], n)
    BY <1>1, <1>2 DEF error
  <2>5. QED
    BY <2>2, <2>3, <2>4, AddedExtends, ArraysExtendTransitive
<1>3. CASE error # "UE_NONE"
  BY <1>1, <1>3, ResultFacts, ArraysExtendReflexive
<1>4. QED
  BY <1>2, <1>3

\* Whatever uci2_node_list_element_add returns, every array keeps the children it has.
LEMMA ListElementAddExtends ==
    ASSUME NEW h, WellFormed(h), NEW p \in DOMAIN h \cup {NoNode},
           NEW value \in Strings \cup {NoString}, NEW r, r = ListElementAdd(h, p, value)
    PROVE  ArraysExtend(h, r.heap)
<1> DEFINE error == CallError(h, p, {value}, "UNT_LIST")
<1> DEFINE g == NodeAdd(h, p, "ANT_LIST_ITEM")
<1> DEFINE n == Newest(g)
<1> DEFINE s == ListElementValueSet(g, n, value)
<1>1. r = IF error # "UE_NONE" THEN Failure(h, error) ELSE OrRemove([s EXCEPT !.out = n], n)
  BY DEF ListElementAdd, AddNode
<1>2. CASE error = "UE_NONE"
  <2>1. /\ p \in DOMAIN h /\ h[p].kind = "ANT_LIST"
        /\ "ANT_LIST_ITEM" \in ChildKinds(h[p].kind) /\ "ANT_LIST_ITEM" \in LineKinds
    BY <1>2, HandlePassed, CallErrorFacts, HandleErrorFacts DEF ChildKinds, LineKinds
  <2> HIDE DEF error, g
  <2>2. WellFormed(g) /\ ArraysExtend(h, g) /\ n \in DOMAIN g
    BY <2>1, NodeAddLineExtends DEF g
  <2> HIDE DEF n
  <2>3. SoundResult(g, s) /\ ArraysExtend(g, s.heap)
    BY <2>2, ListElementValueSetIsSound, ValueSetExtends
  <2> HIDE DEF s
  <2>4. r = OrRemove([s EXCEPT !.out = n], n)
    BY <1>1, <1>2 DEF error
  <2>5. QED
    BY <2>2, <2>3, <2>4, AddedExtends, ArraysExtendTransitive
<1>3. CASE error # "UE_NONE"
  BY <1>1, <1>3, ResultFacts, ArraysExtendReflexive
<1>4. QED
  BY <1>2, <1>3

-----------------------------------------------------------------------------
(***************************************************************************)
(* The merge of section types.                                             *)
(***************************************************************************)

\* What a twin had among its children is then among those of a section type before it.
LEMMA MergeMovesBack ==
    ASSUME NEW h, WellFormed(h), NEW c \in DOMAIN h, h[c].kind = "ANT_CONFIG",
           NEW g, g = AstNodeMerge(h, c),
           NEW e \in DOMAIN h, h[e].kind = "ANT_CONFIG", NEW k \in 0 .. h[e].number - 1,
           Child(h, e, k) \in Twins(h, Kids(h, c)), NEW s \in KidSet(h, Child(h, e, k))
    PROVE  \E i \in 0 .. k - 1 : s \in KidSet(g, Child(g, e, i))
<1> DEFINE kids == Kids(h, c)
<1> DEFINE t == Child(h, e, k)
<1> DEFINE u == Heir(h, kids, t)
<1>1. /\ TypedNode(h, c) /\ h[c].number \in Nat /\ h[e].number \in Nat
      /\ kids \in Seq(DOMAIN h) /\ DOMAIN kids = 1 .. h[c].number
      /\ \A j \in 1 .. h[c].number : kids[j] = h[c].children[j]
      /\ Range(kids) = KidSet(h, c)
  BY WellFormedUnfolds, NodeFields, KidsFacts
<1>2. t \in DOMAIN h /\ t \in Range(kids) /\ u # t
  BY ChildFacts DEF Twins
<1>3. WellFormed(g) /\ DOMAIN g = DOMAIN h /\ g[c].kind = h[c].kind
  BY MergedIsWellFormed
<1>4. DisjointChildren(h)
  BY DEF WellFormed
<1>5. k + 1 \in 1 .. h[e].number /\ t = h[e].children[k + 1]
  BY <1>1 DEF Child
<1> HIDE DEF t, kids
<1>6. PICK j \in 1 .. h[c].number : t = h[c].children[j]
  BY <1>1, <1>2 DEF KidSet
<1>7. e = c /\ k + 1 = j
  <2>1. h[e].children[k + 1] = h[c].children[j]
    BY <1>5, <1>6
  <2>2. k + 1 \in 1 .. h[e].number
    BY <1>5
  <2>3. QED
    BY <1>4, <2>1, <2>2 DEF DisjointChildren
<1>8. j \in DOMAIN kids /\ kids[j] = t
  BY <1>1, <1>6
<1>9. h[t].name # NoString
  <2>1. h[t].name = NoString => u = t
    BY DEF Heir
  <2>2. QED
    BY <1>2, <2>1
<1>10. PICK i \in DOMAIN kids : i <= j /\ u = kids[i]
  <2>1. h[kids[j]].name # NoString
    BY <1>8, <1>9
  <2>2. kids \in Seq(DOMAIN h) /\ j \in DOMAIN kids
    BY <1>1, <1>8
  <2>3. \E i \in DOMAIN kids :
           /\ i <= j
           /\ Heir(h, kids, kids[j]) = kids[i]
           /\ h[kids[i]].name = h[kids[j]].name
           /\ \A l \in 1 .. i - 1 : h[kids[l]].name # h[kids[j]].name
    BY <2>1, <2>2, HeirIsFirst
  <2>4. QED
    BY <1>8, <2>3
<1>11. i \in 1 .. h[c].number /\ i < j /\ u = h[c].children[i]
  <2>1. i \in 1 .. h[c].number /\ u = h[c].children[i]
    BY <1>1, <1>10
  <2>2. i # j
    BY <1>2, <1>8, <1>10
  <2>3. QED
    BY <1>10, <2>1, <2>2
<1>12. Extends(h, g, c)
  <2>1. c \notin KidSet(h, c)
    <3>1. \A m \in KidSet(h, c) : h[m].kind = "ANT_SECTION_TYPE"
      BY WellFormedUnfolds DEF LayeredNode, ChildKinds
    <3>2. QED
      BY <3>1
  <2>2. SameArray(h, g, c)
    BY <2>1, MergedDetails
  <2>3. QED
    BY <1>1, <2>2 DEF SameArray, Extends
<1>13. i - 1 \in 0 .. k - 1 /\ Child(g, e, i - 1) = u
  <2>1. i - 1 \in 0 .. k - 1
    BY <1>7, <1>11
  <2>2. g[c].children[i] = u /\ (i - 1) + 1 = i
    BY <1>11, <1>12 DEF Extends
  <2>3. QED
    BY <1>7, <2>1, <2>2 DEF Child
<1>14. s \in KidSet(g, u)
  <2>1. Orphan(h, kids, s) /\ s \in DOMAIN h
    <3>1. t \in Twins(h, kids) /\ s \in KidSet(h, t)
      BY DEF t, kids
    <3>2. KidSet(h, t) \subseteq DOMAIN h
      BY <1>2, WellFormedUnfolds, KidsFacts
    <3>3. QED
      BY <3>1, <3>2 DEF Orphan
  <2>2. g[s].parent = NewParent(h, kids, s)
    BY <2>1, MergedDetails DEF kids
  <2>3. ASSUME NEW v \in Twins(h, kids), s \in KidSet(h, v)
        PROVE  v = t
    <3>1. v \in DOMAIN h
      <4>1. v \in KidSet(h, c)
        BY <1>1, <2>3 DEF Twins
      <4>2. QED
        BY <1>1, <4>1, KidsFacts
    <3>2. PICK a \in 1 .. h[v].number : s = h[v].children[a]
      BY <2>3 DEF KidSet
    <3>3. PICK b \in 1 .. h[t].number : s = h[t].children[b]
      BY DEF KidSet, t
    <3>4. QED
      BY <1>2, <1>4, <3>1, <3>2, <3>3 DEF DisjointChildren
  <2>4. t \in Twins(h, kids) /\ s \in KidSet(h, t)
    BY DEF t, kids
  <2>5. NewParent(h, kids, s) = u
    <3>1. (CHOOSE v \in Twins(h, kids) : s \in KidSet(h, v)) = t
      BY <2>3, <2>4
    <3>2. QED
      BY <3>1 DEF NewParent
  <2>6. u \in DOMAIN g
    BY <1>1, <1>3, <1>10
  <2>7. QED
    BY <1>3, <2>1, <2>2, <2>5, <2>6 DEF WellFormed, ParentsAgree
<1>15. QED
  BY <1>13, <1>14

\* The merge empties the twins, and deletes them.
LEMMA MergeGrows ==
    ASSUME NEW h, WellFormed(h), NEW c \in DOMAIN h, h[c].kind = "ANT_CONFIG",
           NEW g, g = AstNodeMerge(h, c)
    PROVE  /\ ArraysGrow(h, g)
           /\ \A m \in DOMAIN h : m \notin Twins(h, Kids(h, c)) => Extends(h, g, m)
<1>1. TypesStayDeleted(h, g)
  BY MergedIsWellFormed DEF TypesStayDeleted, Deleted
<1>2. \A m \in DOMAIN h : m \notin Twins(h, Kids(h, c)) => Extends(h, g, m)
  BY MergedDetails
<1>3. ASSUME NEW m \in DOMAIN h
      PROVE  h[m].number \in Nat /\ g[m].number \in Nat
  <2>1. WellFormed(g) /\ DOMAIN g = DOMAIN h
    BY MergedIsWellFormed
  <2>2. QED
    BY <2>1, WellFormedUnfolds, NodeFields
<1>4. ASSUME NEW m \in DOMAIN h, m \in Twins(h, Kids(h, c))
      PROVE  h[m].kind = "ANT_SECTION_TYPE" /\ Deleted(g, m)
  <2>1. m \in KidSet(h, c) /\ Deleted(g, m)
    BY <1>4, MergedDetails DEF Deleted
  <2>2. TypedNode(h, c) /\ LayeredNode(h, c)
    BY WellFormedUnfolds
  <2>3. QED
    BY <2>1, <2>2 DEF LayeredNode, ChildKinds
<1>5. MovesBack(h, g)
  <2>1. ASSUME NEW e \in DOMAIN h, h[e].kind = "ANT_CONFIG", NEW k \in 0 .. h[e].number - 1,
               Child(h, e, k) \in Twins(h, Kids(h, c)), NEW s \in KidSet(h, Child(h, e, k))
        PROVE  \E i \in 0 .. k - 1 : s \in KidSet(g, Child(g, e, i))
    BY <2>1, MergeMovesBack
  <2>2. ASSUME NEW e \in DOMAIN h, h[e].kind = "ANT_CONFIG", NEW k \in 0 .. h[e].number - 1
        PROVE  Child(h, e, k) \in DOMAIN h
    BY <2>2, ChildFacts
  <2>3. QED
    BY <1>2, <2>1, <2>2 DEF MovesBack
<1>6. ArraysGrow(h, g)
  BY <1>1, <1>2, <1>3, <1>4, <1>5 DEF ArraysGrow
<1>7. QED
  BY <1>2, <1>6

\* Naming the unnamed sections changes no array.
LEMMA RenumberedExtends ==
    ASSUME NEW g, WellFormed(g), NEW n \in DOMAIN g, g[n].kind = "ANT_SECTION_NAME",
           g[n].parent # NoNode, NEW r, r = Renumbered(g, n), r.err = "UE_NONE"
    PROVE  ArraysExtend(g, r.heap)
<1> DEFINE u == g[n].parent
<1> DEFINE c == g[u].parent
<1> DEFINE f == [g EXCEPT ![n].name = Placeholder]
<1> DEFINE e == UnnamedSectionNameSet(f, c)
<1>1. c # NoNode /\ r.heap = e
  BY ResultFacts DEF Renumbered, Asserted
<1>2. c \in DOMAIN g /\ g[c].kind = "ANT_CONFIG"
  BY <1>1, ParentKinds
<1>3. Placeholder \in Strings
  BY DEF Strings, AtNames
<1>4. WellFormed(f) /\ NameChanges(g, f, n, Placeholder)
  BY <1>3, NamedIsWellFormed, NamedDetails
<1> HIDE DEF u, c, f
<1>5. c \in DOMAIN f /\ f[c].kind = "ANT_CONFIG"
  BY <1>2, <1>4 DEF NameChanges
<1>6. Numbers(f, e, c)
  BY <1>4, <1>5, NumberedDetails
<1> HIDE DEF e
<1>7. ArraysExtend(g, f)
  BY <1>4, ChangesExtend
<1>8. ArraysExtend(f, e)
  <2>1. TypesStayDeleted(f, e) /\ \A m \in DOMAIN f : SameArray(f, e, m)
    BY <1>6 DEF Numbers, TypesStayDeleted, Deleted
  <2>2. QED
    BY <1>4, <2>1, SameArraysExtend
<1>9. QED
  BY <1>1, <1>7, <1>8, ArraysExtendTransitive

\* Setting the type of a section merges the section types and numbers the section.
LEMMA SectionTypeSetGrows ==
    ASSUME NEW h, WellFormed(h), NEW n \in DOMAIN h \cup {NoNode},
           NEW type \in TypeNames \cup {NoString},
           NEW r, r = SectionTypeSet(h, n, type), r.err # "ABORTED"
    PROVE  ArraysGrow(h, r.heap)
<1> DEFINE error == CallError(h, n, {type}, "UNT_SECTION")
<1> DEFINE t == h[n].parent
<1> DEFINE c == h[t].parent
<1> DEFINE f == [h EXCEPT ![t].name = type]
<1> DEFINE g == AstNodeMerge(f, c)
<1> DEFINE merged == IF c = NoNode \/ Deleted(f, c) THEN Failure(f, "ABORTED")
                     ELSE Success(g, NoNode)
<1>1. r = IF error # "UE_NONE" THEN Failure(h, error)
          ELSE IF h[n].name \in AtNames \cup {NoString}
          THEN IF merged.err = "UE_NONE" THEN Renumbered(merged.heap, n) ELSE merged
          ELSE merged
  BY DEF SectionTypeSet, Asserted, Then, Renumbered
<1>2. CASE error # "UE_NONE"
  BY <1>1, <1>2, ResultFacts, ArraysExtendReflexive, ExtendIsGrow
<1>3. CASE error = "UE_NONE"
  <2>1. /\ n \in DOMAIN h /\ h[n].kind = "ANT_SECTION_NAME" /\ h[n].parent # NoNode
        /\ type \in TypeNames
    BY <1>3, HandlePassed, CallErrorFacts, HandleErrorFacts
  <2>2. t \in DOMAIN h /\ h[t].kind = "ANT_SECTION_TYPE"
    BY <2>1, ParentKinds
  <2>3. WellFormed(f) /\ NameChanges(h, f, t, type)
    <3>1. type \in Strings
      BY <2>1 DEF Strings
    <3>2. QED
      BY <2>1, <2>2, <3>1, NamedIsWellFormed, NamedDetails
  <2> HIDE DEF error, f, g
  <2>4. c # NoNode /\ merged = Success(g, NoNode)
    BY <1>1, <1>3, ResultFacts
  <2>5. c \in DOMAIN f /\ f[c].kind = "ANT_CONFIG"
    BY <2>2, <2>3, <2>4, ParentKinds DEF NameChanges
  <2>6. WellFormed(g) /\ n \in DOMAIN g /\ g[n].kind = "ANT_SECTION_NAME" /\ g[n].parent # NoNode
    <3>1. n \in DOMAIN f /\ f[n].kind = "ANT_SECTION_NAME" /\ f[n].parent # NoNode
      BY <2>1, <2>3 DEF NameChanges
    <3>2. /\ WellFormed(g) /\ DOMAIN g = DOMAIN f /\ g[n].kind = f[n].kind
          /\ g[n].parent = f[n].parent \/ g[n].parent \in DOMAIN f
      BY <2>3, <2>5, <3>1, MergedIsWellFormed DEF g
    <3>3. NoNode \notin DOMAIN f
      BY <2>3, NoNodeIsNoNode
    <3>4. QED
      BY <3>1, <3>2, <3>3
  <2>7. ArraysGrow(h, g)
    <3>1. ArraysExtend(h, f)
      BY <2>3, ChangesExtend
    <3>2. ArraysGrow(f, g)
      BY <2>3, <2>5, MergeGrows DEF g
    <3>3. QED
      BY <2>3, <3>1, <3>2, ExtendIsGrow, ArraysGrowTransitive
  <2>8. merged.err = "UE_NONE" /\ merged.heap = g
    BY <2>4, ResultFacts
  <2> HIDE DEF merged
  <2>9. CASE h[n].name \in AtNames \cup {NoString}
    <3>1. r = Renumbered(g, n)
      BY <1>1, <1>3, <2>8, <2>9
    <3>2. r.err = "UE_NONE"
      BY <3>1, ResultFacts DEF Renumbered, Asserted
    <3>3. ArraysExtend(g, r.heap)
      BY <2>6, <3>1, <3>2, RenumberedExtends
    <3>4. QED
      BY <2>6, <2>7, <3>3, ExtendIsGrow, ArraysGrowTransitive
  <2>10. CASE h[n].name \notin AtNames \cup {NoString}
    BY <1>1, <1>3, <2>7, <2>8, <2>10
  <2>11. QED
    BY <2>9, <2>10
<1>4. QED
  BY <1>2, <1>3

\* Of the section types that were there when a new one came, the merge empties none that
\* has sections.
LEMMA TwinsWereEmpty ==
    ASSUME NEW h, WellFormed(h), Orderly(h), NEW c \in DOMAIN h, h[c].kind = "ANT_CONFIG",
           NEW g, WellFormed(g), NEW t, NEW n, AddsSection(h, g, c, t, n),
           NEW x, NEW f, WellFormed(f), NameChanges(g, f, t, x),
           NEW w \in Twins(f, Kids(f, c)), w \in DOMAIN h
    PROVE  h[w].number = 0
<1>1. /\ t \notin DOMAIN h /\ n \notin DOMAIN h /\ DOMAIN h \subseteq DOMAIN g
      /\ \A m \in DOMAIN h : m # c => g[m] = h[m]
      /\ g[c].kind = h[c].kind
  BY DEF AddsSection
<1>2. /\ DOMAIN f = DOMAIN g /\ f[c].kind = g[c].kind
      /\ \A m \in DOMAIN g : m # t => f[m] = g[m]
  BY <1>1 DEF NameChanges
<1>3. w # c
  <2>1. w \in KidSet(f, c) /\ f[c].kind = "ANT_CONFIG"
    BY <1>1, <1>2, MergedDetails
  <2>2. f[w].kind = "ANT_SECTION_TYPE"
    BY <1>1, <1>2, <2>1, WellFormedUnfolds DEF LayeredNode, ChildKinds
  <2>3. QED
    BY <2>1, <2>2
<1>4. f[w] = h[w]
  BY <1>1, <1>2, <1>3
<1>5. \A s \in KidSet(h, w) : s = n
  <2>1. KidSet(f, w) = KidSet(h, w)
    BY <1>4 DEF KidSet
  <2>2. \A s \in KidSet(f, w) : Orphan(f, Kids(f, c), s)
    BY DEF Orphan
  <2>3. QED
    BY <2>1, <2>2, OnlyNewIsOrphan
<1>6. KidSet(h, w) \subseteq DOMAIN h /\ h[w].number \in Nat
  BY WellFormedUnfolds, KidsFacts, NodeFields
<1>7. 1 \notin 1 .. h[w].number
  BY <1>1, <1>5, <1>6 DEF KidSet
<1>8. QED
  BY <1>6, <1>7

\* So a new section goes to the end of an array, and none is emptied.
LEMMA NewSectionTypeExtends ==
    ASSUME NEW h, WellFormed(h), Orderly(h), NEW c \in DOMAIN h, h[c].kind = "ANT_CONFIG",
           h[c].parent # NoNode, NEW g, WellFormed(g), NEW t, NEW n, AddsSection(h, g, c, t, n),
           NEW type \in TypeNames, CallError(g, n, {type}, "UNT_SECTION") = "UE_NONE",
           NEW r, r = SectionTypeSet(g, n, type), r.err = "UE_NONE"
    PROVE  ArraysExtend(h, r.heap)
<1> DEFINE f == [g EXCEPT ![t].name = type]
<1> DEFINE m == AstNodeMerge(f, c)
<1>1. /\ g[n].parent = t /\ g[t].parent = c /\ g[n].name = NoString
      /\ t \in DOMAIN g /\ n \in DOMAIN g /\ c \in DOMAIN g /\ c # t /\ n # t
      /\ g[n].kind = "ANT_SECTION_NAME" /\ g[t].kind = "ANT_SECTION_TYPE"
      /\ g[c].kind = "ANT_CONFIG"
  BY DEF AddsSection
<1>2. r = LET merged == IF c = NoNode \/ Deleted(f, c) THEN Failure(f, "ABORTED")
                        ELSE Success(m, NoNode)
          IN  IF merged.err = "UE_NONE" THEN Renumbered(merged.heap, n) ELSE merged
  BY <1>1 DEF SectionTypeSet, Asserted, Then, Renumbered
<1> HIDE DEF m
<1>3. r = Renumbered(m, n)
  BY <1>2, ResultFacts
<1>4. WellFormed(f) /\ NameChanges(g, f, t, type)
  <2>1. type \in Strings
    BY DEF Strings
  <2>2. QED
    BY <1>1, <2>1, NamedIsWellFormed, NamedDetails
<1> HIDE DEF f
<1>5. /\ c \in DOMAIN f /\ f[c].kind = "ANT_CONFIG" /\ n \in DOMAIN f
      /\ f[n].kind = "ANT_SECTION_NAME" /\ f[n].parent = t /\ t \in DOMAIN f
  BY <1>1, <1>4 DEF NameChanges
<1>6. /\ WellFormed(m) /\ n \in DOMAIN m /\ m[n].kind = "ANT_SECTION_NAME"
      /\ m[n].parent # NoNode
  <2>1. /\ WellFormed(m) /\ DOMAIN m = DOMAIN f /\ m[n].kind = "ANT_SECTION_NAME"
        /\ m[n].parent \in DOMAIN f
    BY <1>4, <1>5, MergedIsWellFormed DEF m
  <2>2. QED
    BY <1>4, <1>5, <2>1, NoNodeIsNoNode
<1>7. /\ DOMAIN h \subseteq DOMAIN f
      /\ \A u \in DOMAIN h : f[u].kind = h[u].kind /\ f[u].parent = h[u].parent
      /\ \A u \in DOMAIN h : h[u].number \in Nat /\ f[u].number \in Nat /\ Extends(h, f, u)
  <2>1. DOMAIN h \subseteq DOMAIN f
        /\ \A u \in DOMAIN h : f[u].kind = h[u].kind /\ f[u].parent = h[u].parent
    BY <1>4 DEF AddsSection, NameChanges
  <2>2. ASSUME NEW u \in DOMAIN h
        PROVE  h[u].number \in Nat /\ f[u].number \in Nat /\ Extends(h, f, u)
    <3>1. h[u].number \in Nat /\ f[u].number \in Nat
      BY <1>4, <2>1, WellFormedUnfolds, NodeFields
    <3>2. SameArray(g, f, u)
      BY <1>4 DEF AddsSection, NameChanges
    <3>3. CASE u = c
      BY <3>1, <3>2, <3>3 DEF AddsSection, Extends, SameArray
    <3>4. CASE u # c
      <4>1. g[u] = h[u]
        BY <3>4 DEF AddsSection
      <4>2. QED
        BY <3>1, <3>2, <4>1 DEF Extends, SameArray
    <3>5. QED
      BY <3>1, <3>3, <3>4
  <2>3. QED
    BY <2>1, <2>2
<1>8. ArraysExtend(h, m)
  <2>1. ArraysGrow(f, m) /\ \A u \in DOMAIN f : u \notin Twins(f, Kids(f, c)) => Extends(f, m, u)
    BY <1>4, <1>5, MergeGrows DEF m
  <2>2. TypesStayDeleted(h, m)
    BY <1>7, <2>1 DEF ArraysGrow, TypesStayDeleted, Deleted
  <2>3. ASSUME NEW u \in DOMAIN h
        PROVE  h[u].number \in Nat /\ m[u].number \in Nat /\ Extends(h, m, u)
    <3>1. h[u].number \in Nat /\ f[u].number \in Nat /\ m[u].number \in Nat
      BY <1>7, <2>1 DEF ArraysGrow
    <3>2. CASE u \in Twins(f, Kids(f, c))
      <4>1. h[u].number = 0
        BY <1>4, <3>2, TwinsWereEmpty
      <4>2. QED
        BY <3>1, <4>1 DEF Extends
    <3>3. CASE u \notin Twins(f, Kids(f, c))
      BY <1>7, <2>1, <3>1, <3>3, ExtendsIsTransitive
    <3>4. QED
      BY <3>1, <3>2, <3>3
  <2>4. QED
    BY <2>2, <2>3 DEF ArraysExtend
<1>9. ArraysExtend(m, r.heap)
  BY <1>3, <1>6, RenumberedExtends
<1>10. QED
  BY <1>8, <1>9, ArraysExtendTransitive

\* Whatever uci2_node_section_add returns, every array keeps the children it has.
LEMMA SectionAddExtends ==
    ASSUME NEW h, WellFormed(h), Orderly(h), NEW p \in DOMAIN h \cup {NoNode},
           NEW type \in TypeNames \cup {NoString}, NEW name \in Strings \cup {NoString},
           NEW r, r = SectionAdd(h, p, type, name), r.err # "ABORTED"
    PROVE  ArraysExtend(h, r.heap)
<1> DEFINE error == CallError(h, p, {type}, "UNT_ROOT")
<1> DEFINE g == NodeAdd(h, p, "ANT_SECTION_NAME")
<1> DEFINE n == Newest(g)
<1> DEFINE f == SectionTypeSet(g, n, type)
<1> DEFINE e == SectionNameSet(f.heap, n, name)
<1> DEFINE s == IF name = NoString THEN f ELSE IF f.err = "UE_NONE" THEN e ELSE f
<1>1. r = IF error # "UE_NONE" THEN Failure(h, error) ELSE OrRemove([s EXCEPT !.out = n], n)
  BY DEF SectionAdd, AddNode, Then
<1>2. CASE error = "UE_NONE"
  <2>1. /\ p \in DOMAIN h /\ h[p].kind = "ANT_CONFIG" /\ h[p].parent # NoNode
        /\ type \in TypeNames /\ type # NoString
    BY <1>2, HandlePassed, CallErrorFacts, HandleErrorFacts
  <2> HIDE DEF error, g, n
  <2> DEFINE t == g[n].parent
  <2>2. AddsSection(h, g, p, t, n)
    BY <2>1, NodeAddSection DEF g, n
  <2>3. WellFormed(g) /\ Keeps(h, g) /\ n \in DOMAIN g
    BY <2>1, NodeAddIsSound DEF g, n
  <2>4. CallError(g, n, {type}, "UNT_SECTION") = "UE_NONE"
    <3>1. n # NoNode /\ t # NoNode /\ g[n].kind = "ANT_SECTION_NAME"
      BY <2>2, <2>3, NoNodeIsNoNode DEF AddsSection
    <3>2. QED
      BY <2>1, <3>1, NewSectionPasses
  <2> HIDE DEF t
  <2>5. f.err = "UE_NONE" => ArraysExtend(h, f.heap)
    BY <2>1, <2>2, <2>3, <2>4, NewSectionTypeExtends
  <2>6. SoundResult(g, f) /\ f.err \in {"UE_NONE", "ABORTED"}
    <3>1. SoundResult(g, f)
      BY <2>1, <2>3, SectionTypeSetIsSound
    <3>2. f.err \in {"UE_NONE", "ABORTED"}
      BY <2>4, SectionTypeSetEnds DEF f
    <3>3. QED
      BY <3>1, <3>2
  <2>7. n \in DOMAIN f.heap /\ WellFormed(f.heap)
    BY <2>3, <2>6 DEF SoundResult, Keeps
  <2> HIDE DEF f
  <2>8. SoundResult(f.heap, e)
    BY <2>7, NameSetIsSound DEF SectionNameSet
  <2>9. ArraysExtend(f.heap, e.heap)
    BY <2>7, NameSetExtends DEF SectionNameSet
  <2> HIDE DEF e
  <2>10. SoundResult(g, s)
    BY <2>6, <2>8, KeepsIsTransitive DEF SoundResult
  <2>11. s.err # "ABORTED" => ArraysExtend(h, s.heap)
    <3>1. s.err # "ABORTED" => f.err = "UE_NONE"
      BY <2>6
    <3>2. f.err = "UE_NONE" => ArraysExtend(h, e.heap) /\ ArraysExtend(h, f.heap)
      BY <2>5, <2>9, ArraysExtendTransitive
    <3>3. QED
      BY <3>1, <3>2
  <2> HIDE DEF s
  <2>12. r = OrRemove([s EXCEPT !.out = n], n)
    BY <1>1, <1>2 DEF error
  <2>13. r.err = s.err
    BY <2>10, <2>12, OrRemoveFacts
  <2>14. QED
    BY <2>3, <2>10, <2>11, <2>12, <2>13, AddedExtends
<1>3. CASE error # "UE_NONE"
  BY <1>1, <1>3, ResultFacts, ArraysExtendReflexive
<1>4. QED
  BY <1>2, <1>3

-----------------------------------------------------------------------------
(***************************************************************************)
(* What a call of the node API leaves of the arrays, and what it returns.  *)
(***************************************************************************)

\* What a function that has nothing to do with iterators returns.
Answers(r) == r = Result(r.heap, r.err, r.out) /\ r.err # "UE_ITERATOR_END"

\* Success is such an answer, and so is any failure but the end of an iteration.
LEMMA PlainAnswers ==
    ASSUME NEW h, NEW n, NEW error
    PROVE  /\ Answers(Success(h, n))
           /\ error # "UE_ITERATOR_END" => Answers(Failure(h, error))
BY ResultFacts DEF Answers

\* So are the answers of the argument checks.
LEMMA ChecksAnswer ==
    ASSUME NEW h, NEW n, NEW strings, NEW type
    PROVE  Answers(Failure(h, CallError(h, n, strings, type)))
<1>1. CallError(h, n, strings, type) # "UE_ITERATOR_END"
  BY DEF CallError, HandleError, NodeTypeError, PublicType
<1>2. QED
  BY <1>1, PlainAnswers

\* The functions that set an attribute give one.
LEMMA SettersAnswer ==
    ASSUME NEW h, NEW n, NEW x, NEW type
    PROVE  /\ Answers(NameSet(h, n, x, type))
           /\ Answers(OptionValueSet(h, n, x))
           /\ Answers(ListElementValueSet(h, n, x))
           /\ Answers(SectionTypeSet(h, n, x))
<1>1. Answers(NameSet(h, n, x, type))
  BY ChecksAnswer, PlainAnswers DEF NameSet
<1>2. Answers(OptionValueSet(h, n, x))
  BY ChecksAnswer, PlainAnswers DEF OptionValueSet
<1>3. Answers(ListElementValueSet(h, n, x))
  BY ChecksAnswer, PlainAnswers DEF ListElementValueSet
<1>4. Answers(SectionTypeSet(h, n, x))
  <2> DEFINE error == CallError(h, n, {x}, "UNT_SECTION")
  <2> DEFINE t == h[n].parent
  <2> DEFINE c == h[t].parent
  <2> DEFINE f == [h EXCEPT ![t].name = x]
  <2> DEFINE merged == IF c = NoNode \/ Deleted(f, c) THEN Failure(f, "ABORTED")
                       ELSE Success(AstNodeMerge(f, c), NoNode)
  <2>1. SectionTypeSet(h, n, x) =
            IF error # "UE_NONE" THEN Failure(h, error)
            ELSE IF h[n].name \in AtNames \cup {NoString}
            THEN IF merged.err = "UE_NONE" THEN Renumbered(merged.heap, n) ELSE merged
            ELSE merged
    BY DEF SectionTypeSet, Asserted, Then, Renumbered
  <2>2. Answers(merged)
    BY PlainAnswers
  <2>3. \A g : Answers(Renumbered(g, n))
    BY PlainAnswers DEF Renumbered, Asserted
  <2>4. Answers(Failure(h, error))
    BY ChecksAnswer
  <2> HIDE DEF merged, error
  <2>5. QED
    BY <2>1, <2>2, <2>3, <2>4
<1>5. QED
  BY <1>1, <1>2, <1>3, <1>4

\* Giving up the node that was added does not change the answer.
LEMMA GivingUpAnswers ==
    ASSUME NEW s, Answers(s), NEW n
    PROVE  Answers(OrRemove([s EXCEPT !.out = n], n))
<1> DEFINE o == [s EXCEPT !.out = n]
<1>1. o = Result(s.heap, s.err, n)
  BY DEF Answers, Result
<1>2. o.heap = s.heap /\ o.err = s.err
  BY <1>1 DEF Result
<1>3. OrRemove(o, n) = o \/ OrRemove(o, n) = [o EXCEPT !.heap = NodeRemove(@, n)]
  BY DEF OrRemove
<1> HIDE DEF o
<1>4. Answers(OrRemove(o, n))
  <2>1. CASE OrRemove(o, n) = o
    BY <1>1, <1>2, <2>1 DEF Answers, Result
  <2>2. CASE OrRemove(o, n) = [o EXCEPT !.heap = NodeRemove(@, n)]
    <3>1. OrRemove(o, n) = Result(NodeRemove(s.heap, n), s.err, n)
      BY <1>1, <2>2 DEF Result
    <3>2. s.err # "UE_ITERATOR_END"
      BY DEF Answers
    <3> HIDE DEF o
    <3>3. QED
      BY <3>1, <3>2 DEF Answers, Result
  <2>3. QED
    BY <1>3, <2>1, <2>2
<1>5. QED
  BY <1>4 DEF o

\* And so do the functions that add a node.
LEMMA AddersAnswer ==
    ASSUME NEW h, NEW p, NEW x, NEW y
    PROVE  /\ Answers(SectionAdd(h, p, x, y))
           /\ Answers(OptionAdd(h, p, x, y))
           /\ Answers(ListAdd(h, p, x))
           /\ Answers(ListElementAdd(h, p, x))
<1>1. Answers(SectionAdd(h, p, x, y))
  <2> DEFINE error == CallError(h, p, {x}, "UNT_ROOT")
  <2> DEFINE g == NodeAdd(h, p, "ANT_SECTION_NAME")
  <2> DEFINE n == Newest(g)
  <2> DEFINE f == SectionTypeSet(g, n, x)
  <2> DEFINE e == SectionNameSet(f.heap, n, y)
  <2> DEFINE s == IF y = NoString THEN f ELSE IF f.err = "UE_NONE" THEN e ELSE f
  <2>1. SectionAdd(h, p, x, y) =
            IF error # "UE_NONE" THEN Failure(h, error) ELSE OrRemove([s EXCEPT !.out = n], n)
    BY DEF SectionAdd, AddNode, Then
  <2>2. Answers(f) /\ Answers(e)
    BY SettersAnswer DEF SectionNameSet
  <2>3. Answers(Failure(h, error))
    BY ChecksAnswer
  <2> HIDE DEF f, e, error, n
  <2>4. Answers(s)
    BY <2>2
  <2> HIDE DEF s
  <2>5. QED
    BY <2>1, <2>3, <2>4, GivingUpAnswers
<1>2. Answers(OptionAdd(h, p, x, y))
  <2> DEFINE error == CallError(h, p, {x, y}, "UNT_SECTION")
  <2> DEFINE g == NodeAdd(h, p, "ANT_OPTION")
  <2> DEFINE n == Newest(g)
  <2> DEFINE f == OptionNameSet(g, n, x)
  <2> DEFINE e == OptionValueSet(f.heap, n, y)
  <2> DEFINE s == IF f.err = "UE_NONE" THEN e ELSE f
  <2>1. OptionAdd(h, p, x, y) =
            IF error # "UE_NONE" THEN Failure(h, error) ELSE OrRemove([s EXCEPT !.out = n], n)
    BY DEF OptionAdd, AddNode, Then
  <2>2. Answers(f) /\ Answers(e)
    BY SettersAnswer DEF OptionNameSet
  <2>3. Answers(Failure(h, error))
    BY ChecksAnswer
  <2> HIDE DEF f, e, error, n
  <2>4. Answers(s)
    BY <2>2
  <2> HIDE DEF s
  <2>5. QED
    BY <2>1, <2>3, <2>4, GivingUpAnswers
<1>3. Answers(ListAdd(h, p, x))
  <2> DEFINE error == CallError(h, p, {x}, "UNT_SECTION")
  <2> DEFINE g == NodeAdd(h, p, "ANT_LIST")
  <2> DEFINE n == Newest(g)
  <2> DEFINE s == ListNameSet(g, n, x)
  <2>1. ListAdd(h, p, x) =
            IF error # "UE_NONE" THEN Failure(h, error) ELSE OrRemove([s EXCEPT !.out = n], n)
    BY DEF ListAdd, AddNode
  <2>2. Answers(s)
    BY SettersAnswer DEF ListNameSet
  <2>3. Answers(Failure(h, error))
    BY ChecksAnswer
  <2> HIDE DEF s, error, n
  <2>4. QED
    BY <2>1, <2>2, <2>3, GivingUpAnswers
<1>4. Answers(ListElementAdd(h, p, x))
  <2> DEFINE error == CallError(h, p, {x}, "UNT_LIST")
  <2> DEFINE g == NodeAdd(h, p, "ANT_LIST_ITEM")
  <2> DEFINE n == Newest(g)
  <2> DEFINE s == ListElementValueSet(g, n, x)
  <2>1. ListElementAdd(h, p, x) =
            IF error # "UE_NONE" THEN Failure(h, error) ELSE OrRemove([s EXCEPT !.out = n], n)
    BY DEF ListElementAdd, AddNode
  <2>2. Answers(s)
    BY SettersAnswer
  <2>3. Answers(Failure(h, error))
    BY ChecksAnswer
  <2> HIDE DEF s, error, n
  <2>4. QED
    BY <2>1, <2>2, <2>3, GivingUpAnswers
<1>5. QED
  BY <1>1, <1>2, <1>3, <1>4

\* What is left of the heap and the error code of a call, and that it is no iterator's.
GrownResult(h, r) == Answers(r) /\ (r.err # "ABORTED" => ArraysGrow(h, r.heap))
Extended(h, r) == Answers(r) /\ (r.err # "ABORTED" => ArraysExtend(h, r.heap))

\* Whatever a client calls but uci2_node_section_type_set leaves every node the
\* children it has, in their places.
LEMMA CallsExtend ==
    ASSUME SoundState, Orderly(heap), NEW n \in Handles,
           EditLines(n) \/ EditSections(n) \/ RemoveNode(n)
    PROVE  ArraysExtend(heap, heap') /\ err' # "UE_ITERATOR_END"
<1>1. WellFormed(heap) /\ n \in DOMAIN heap \cup {NoNode}
  BY DEF SoundState, Handles
<1>2. /\ OrNull(TypeNames) \subseteq Strings \cup {NoString}
      /\ OrNull(SectionNames) \subseteq Strings \cup {NoString}
      /\ OrNull(OptionNames) \subseteq Strings \cup {NoString}
      /\ OrNull(Values) \subseteq Strings \cup {NoString}
      /\ OrNull(TypeNames) = TypeNames \cup {NoString}
  BY DEF OrNull, Strings
<1>3. SUFFICES \E r : Extended(heap, r) /\ Call(r)
  <2>1. ASSUME NEW r, Extended(heap, r), Call(r)
        PROVE  ArraysExtend(heap, heap') /\ err' # "UE_ITERATOR_END"
    BY <1>1, <2>1, ArraysExtendReflexive DEF Call, Extended, Answers
  <2>2. QED
    BY <2>1
<1>4. CASE AddSection(n)
  <2>1. PICK type \in OrNull(TypeNames), name \in OrNull(SectionNames) :
            Call(SectionAdd(heap, n, type, name))
    BY <1>4 DEF AddSection
  <2>2. Extended(heap, SectionAdd(heap, n, type, name))
    BY <1>1, <1>2, SectionAddExtends, AddersAnswer DEF Extended
  <2>3. QED
    BY <2>1, <2>2
<1>5. CASE AddOption(n)
  BY <1>1, <1>2, <1>5, OptionAddExtends, AddersAnswer DEF AddOption, Extended
<1>6. CASE AddList(n)
  BY <1>1, <1>2, <1>6, ListAddExtends, AddersAnswer DEF AddList, Extended
<1>7. CASE AddListElement(n)
  BY <1>1, <1>2, <1>7, ListElementAddExtends, AddersAnswer DEF AddListElement, Extended
<1>8. CASE RenameSection(n)
  BY <1>1, <1>8, NameSetExtends, SettersAnswer DEF RenameSection, SectionNameSet, Extended
<1>9. CASE RenameOption(n)
  BY <1>1, <1>9, NameSetExtends, SettersAnswer DEF RenameOption, OptionNameSet, Extended
<1>10. CASE RenameList(n)
  BY <1>1, <1>10, NameSetExtends, SettersAnswer DEF RenameList, ListNameSet, Extended
<1>11. CASE SetOptionValue(n)
  BY <1>1, <1>11, ValueSetExtends, SettersAnswer DEF SetOptionValue, Extended
<1>12. CASE SetListElement(n)
  BY <1>1, <1>12, ValueSetExtends, SettersAnswer DEF SetListElement, Extended
<1>13. CASE RemoveNode(n)
  <2>1. ArraysExtend(heap, NodeRemove(heap, n))
    BY <1>1, NodeRemoveExtends
  <2>2. Extended(heap, Success(NodeRemove(heap, n), NoNode))
    BY <2>1, ResultFacts, PlainAnswers DEF Extended
  <2>3. QED
    BY <1>13, <2>2 DEF RemoveNode
<1>14. QED
  BY <1>4, <1>5, <1>6, <1>7, <1>8, <1>9, <1>10, <1>11, <1>12, <1>13
     DEF EditLines, EditSections

\* uci2_node_section_type_set does but for the section types it empties.
LEMMA RetypingGrows ==
    ASSUME SoundState, NEW n \in Handles, RetypeSection(n)
    PROVE  ArraysGrow(heap, heap') /\ err' # "UE_ITERATOR_END"
<1>1. WellFormed(heap) /\ n \in DOMAIN heap \cup {NoNode}
  BY DEF SoundState, Handles
<1>2. PICK type \in TypeNames \cup {NoString} : Call(SectionTypeSet(heap, n, type))
  BY DEF RetypeSection, OrNull
<1> DEFINE r == SectionTypeSet(heap, n, type)
<1>3. GrownResult(heap, r)
  BY <1>1, SectionTypeSetGrows, SettersAnswer DEF GrownResult
<1> HIDE DEF r
<1>4. Call(r)
  BY <1>2 DEF r
<1>5. QED
  BY <1>1, <1>3, <1>4, ArraysExtendReflexive, ExtendIsGrow DEF Call, GrownResult, Answers

-----------------------------------------------------------------------------
(***************************************************************************)
(* Where uci2_node_iterator_next may read.                                 *)
(***************************************************************************)

\* The offsets of an iterator: i is at most the number of children, and j is an offset
\* into the sections of the i-th section type, or what is left of one when that type
\* was emptied.
OffsetsOK(h, it) ==
    /\ it = [start |-> it.start, i |-> it.i, j |-> it.j]
    /\ it.start \in DOMAIN h /\ it.i \in Nat /\ it.j \in Nat
    /\ h[it.start].kind \in {"ANT_CONFIG", "ANT_SECTION_NAME", "ANT_LIST"}
    /\ it.i <= h[it.start].number
    /\ it.j # 0 => /\ h[it.start].kind = "ANT_CONFIG"
                   /\ it.i < h[it.start].number
                   /\ \/ Deleted(h, Child(h, it.start, it.i))
                      \/ it.j < h[Child(h, it.start, it.i)].number

\* The least of some numbers is among them.
LEMMA LeastNatural ==
    ASSUME NEW T, T \subseteq Nat, T # {}
    PROVE  Min(T) \in T /\ \A m \in T : Min(T) <= m
<1>1. \E n \in T : \A m \in T : n <= m
  BY LeastNumber
<1>2. QED
  BY <1>1 DEF Min

\* The loop over the section types that have no children leaves the offsets as they
\* are, or moves them on to the first type that has some, or to the end.
LEMMA SkipFacts ==
    ASSUME NEW h, WellFormed(h), NEW it, OffsetsOK(h, it), OverSections(h, it),
           NEW f, f = SkipEmptyTypes(h, it)
    PROVE  /\ f = [start |-> it.start, i |-> f.i, j |-> f.j]
           /\ f.i \in Nat /\ f.j \in Nat /\ f.i <= h[it.start].number
           /\ f = it \/ (it.i < f.i /\ f.j = 0)
           /\ \A k \in it.i .. h[it.start].number - 1 :
                 h[Child(h, it.start, k)].number # 0 => f.i <= k
           /\ it.i < h[it.start].number /\ h[Child(h, it.start, it.i)].number # 0 => f = it
<1> DEFINE N == h[it.start].number
<1> DEFINE ahead == {k \in it.i .. N - 1 : h[Child(h, it.start, k)].number # 0}
<1> DEFINE next == IF ahead = {} THEN N ELSE Min(ahead)
<1>1. it.i \in Nat /\ it.j \in Nat /\ N \in Nat /\ it.i <= N
      /\ it = [start |-> it.start, i |-> it.i, j |-> it.j]
  BY WellFormedUnfolds, NodeFields DEF OffsetsOK
<1>2. f = IF next <= it.i THEN it ELSE [it EXCEPT !.i = next, !.j = 0]
  BY DEF SkipEmptyTypes
<1>3. ahead \subseteq Nat
  BY <1>1
<1>4. next \in it.i .. N /\ \A k \in ahead : next <= k
  <2>1. CASE ahead = {}
    BY <1>1, <2>1
  <2>2. CASE ahead # {}
    BY <1>1, <1>3, <2>2, LeastNatural
  <2>3. QED
    BY <2>1, <2>2
<1>5. \A k \in it.i .. N - 1 : h[Child(h, it.start, k)].number # 0 => k \in ahead
  OBVIOUS
<1>6. it.i < N /\ h[Child(h, it.start, it.i)].number # 0 => it.i \in ahead
  BY <1>1
<1> HIDE DEF next, ahead, N
<1>7. CASE next <= it.i
  <2>1. f = it /\ next = it.i
    BY <1>1, <1>2, <1>4, <1>7
  <2>2. QED
    BY <1>1, <1>4, <1>5, <2>1 DEF N
<1>8. CASE ~(next <= it.i)
  <2>1. f = [start |-> it.start, i |-> next, j |-> 0]
    BY <1>1, <1>2, <1>8
  <2>2. f.i = next /\ f.j = 0 /\ it.i < next
    BY <1>1, <1>4, <1>8, <2>1
  <2>3. it.i \notin ahead
    BY <1>1, <1>4, <1>8
  <2>4. QED
    BY <1>1, <1>4, <1>5, <1>6, <2>1, <2>2, <2>3 DEF N
<1>9. QED
  BY <1>7, <1>8

\* A place the iterator may read: not behind it, in one of the children, and either
\* counted, or the first of its array, or where the iterator stands.
PlaceOK(h, it, p) ==
    /\ p = [start |-> it.start, i |-> p.i, j |-> p.j]
    /\ p.i \in it.i .. h[it.start].number - 1 /\ p.j \in Nat
    /\ p.i = it.i => p.j >= it.j
    /\ IF h[it.start].kind = "ANT_CONFIG"
       THEN \/ p.j < h[Child(h, it.start, p.i)].number
            \/ p.j = 0 /\ h[Child(h, it.start, p.i)].number = 0
            \/ p.i = it.i /\ p.j = it.j /\ h[Child(h, it.start, p.i)].number <= it.j
       ELSE p.j = 0

\* All places the do loops read are such places.
LEMMA ReadsFacts ==
    ASSUME NEW h, WellFormed(h), NEW it, OffsetsOK(h, it), NEW p \in Reads(h, it)
    PROVE  PlaceOK(h, it, p)
<1> DEFINE N == h[it.start].number
<1>1. it.i \in Nat /\ it.j \in Nat /\ N \in Nat /\ it.i <= N
      /\ it = [start |-> it.start, i |-> it.i, j |-> it.j]
  BY WellFormedUnfolds, NodeFields DEF OffsetsOK
<1>2. CASE OverSections(h, it)
  <2> DEFINE f == SkipEmptyTypes(h, it)
  <2>1. /\ f = [start |-> it.start, i |-> f.i, j |-> f.j]
        /\ f.i \in Nat /\ f.j \in Nat /\ f.i <= N
        /\ f = it \/ (it.i < f.i /\ f.j = 0)
    BY <1>2, SkipFacts
  <2>2. p \in SectionReads(h, f)
    BY <1>2 DEF Reads
  <2> HIDE DEF f
  <2> DEFINE Count(i) == h[Child(h, it.start, i)].number
  <2> DEFINE FirstRead(i) == IF i = f.i THEN f.j ELSE 0
  <2> DEFINE LastRead(i) == IF Count(i) > FirstRead(i) THEN Count(i) - 1 ELSE FirstRead(i)
  <2>3. f.start = it.start
    BY <2>1
  <2> DEFINE ReadOf(i) == {[f EXCEPT !.i = i, !.j = j] : j \in FirstRead(i) .. LastRead(i)}
  <2>4. PICK i \in f.i .. N - 1 : p \in ReadOf(i)
    <3>1. SectionReads(h, f) = UNION {ReadOf(i) : i \in f.i .. N - 1}
      BY <2>3 DEF SectionReads
    <3> HIDE DEF ReadOf
    <3>2. QED
      BY <2>2, <3>1
  <2>5. PICK j \in FirstRead(i) .. LastRead(i) : p = [f EXCEPT !.i = i, !.j = j]
    BY <2>4
  <2>6. p = [start |-> it.start, i |-> i, j |-> j]
    <3>1. PICK a, b : f = [start |-> it.start, i |-> a, j |-> b]
      BY <2>1
    <3>2. QED
      BY <2>5, <3>1
  <2>7. p.i = i /\ p.j = j /\ p = [start |-> it.start, i |-> p.i, j |-> p.j]
    BY <2>6
  <2>8. i \in it.i .. N - 1 /\ i \in 0 .. N - 1
    <3>1. i \in f.i .. N - 1
      BY <2>4
    <3>2. f.i \in Nat /\ it.i <= f.i
      BY <1>1, <2>1
    <3> HIDE DEF N
    <3>3. QED
      BY <1>1, <3>1, <3>2
  <2>9. Count(i) \in Nat
    BY <1>1, <2>8, ChildFacts DEF OffsetsOK
  <2>10. FirstRead(i) \in Nat /\ (i = it.i => FirstRead(i) >= it.j)
         /\ (FirstRead(i) = 0 \/ (i = it.i /\ FirstRead(i) = it.j))
    BY <1>1, <2>1, <2>8
  <2> HIDE DEF FirstRead, Count
  <2>11. CASE Count(i) > FirstRead(i)
    <3>1. j \in FirstRead(i) .. Count(i) - 1
      BY <2>5, <2>11
    <3>2. j \in Nat /\ j < Count(i) /\ (i = it.i => j >= it.j)
      BY <1>1, <2>9, <2>10, <3>1
    <3>3. QED
      BY <1>1, <1>2, <2>7, <2>8, <3>2 DEF PlaceOK, OverSections, Count
  <2>12. CASE ~(Count(i) > FirstRead(i))
    <3>1. j \in FirstRead(i) .. FirstRead(i)
      BY <2>5, <2>12
    <3>2. j = FirstRead(i)
      BY <2>10, <3>1
    <3>3. (j = 0 /\ Count(i) = 0) \/ (i = it.i /\ j = it.j /\ Count(i) <= it.j)
      BY <1>1, <2>9, <2>10, <2>12, <3>2
    <3>4. QED
      BY <1>1, <1>2, <2>7, <2>8, <2>10, <3>2, <3>3 DEF PlaceOK, OverSections, Count
  <2>13. QED
    BY <2>11, <2>12
<1>3. CASE ~OverSections(h, it)
  <2>1. PICK i \in it.i .. N - 1 : p = [it EXCEPT !.i = i]
    BY <1>3 DEF Reads, ChildReads
  <2>2. it.j = 0
    BY <1>3 DEF OffsetsOK, OverSections
  <2>3. p = [start |-> it.start, i |-> i, j |-> 0]
    BY <1>1, <2>1, <2>2
  <2>4. QED
    BY <1>1, <1>3, <2>1, <2>2, <2>3 DEF PlaceOK, OverSections
<1>4. QED
  BY <1>2, <1>3

\* They read every child that is counted and not behind the iterator.
LEMMA ReadsCover ==
    ASSUME NEW h, WellFormed(h), NEW it, OffsetsOK(h, it),
           NEW k \in it.i .. h[it.start].number - 1, NEW l \in Nat,
           IF OverSections(h, it)
           THEN l < h[Child(h, it.start, k)].number /\ (k = it.i => l >= it.j)
           ELSE l = 0
    PROVE  [start |-> it.start, i |-> k, j |-> l] \in Reads(h, it)
<1> DEFINE N == h[it.start].number
<1> DEFINE p == [start |-> it.start, i |-> k, j |-> l]
<1>1. it.i \in Nat /\ it.j \in Nat /\ N \in Nat /\ it.i <= N
      /\ it = [start |-> it.start, i |-> it.i, j |-> it.j]
  BY WellFormedUnfolds, NodeFields DEF OffsetsOK
<1>2. CASE OverSections(h, it)
  <2> DEFINE f == SkipEmptyTypes(h, it)
  <2> DEFINE Count == h[Child(h, it.start, k)].number
  <2>1. Count \in Nat /\ l < Count /\ (k = it.i => l >= it.j)
    BY <1>1, <1>2, ChildFacts DEF OffsetsOK
  <2>2. /\ f = [start |-> it.start, i |-> f.i, j |-> f.j]
        /\ f.i \in Nat /\ f.j \in Nat
        /\ f = it \/ (it.i < f.i /\ f.j = 0)
        /\ f.i <= k
    BY <1>2, <2>1, SkipFacts
  <2> HIDE DEF f
  <2> DEFINE FirstRead(i) == IF i = f.i THEN f.j ELSE 0
  <2> DEFINE LastRead(i) == IF h[Child(h, it.start, i)].number > FirstRead(i)
                            THEN h[Child(h, it.start, i)].number - 1 ELSE FirstRead(i)
  <2>3. FirstRead(k) \in Nat /\ FirstRead(k) <= l
    BY <1>1, <2>1, <2>2
  <2> HIDE DEF FirstRead
  <2>4. LastRead(k) = Count - 1
    BY <2>1, <2>3
  <2> HIDE DEF LastRead
  <2>5. k \in f.i .. N - 1 /\ l \in FirstRead(k) .. LastRead(k)
    BY <1>1, <2>1, <2>2, <2>3, <2>4
  <2>6. p = [f EXCEPT !.i = k, !.j = l]
    <3>1. PICK a, b : f = [start |-> it.start, i |-> a, j |-> b]
      BY <2>2
    <3>2. ASSUME NEW q, q = [f EXCEPT !.i = k, !.j = l]
          PROVE  q = p
      BY <3>1, <3>2
    <3>3. QED
      BY <3>2
  <2>7. p \in {[f EXCEPT !.i = k, !.j = j] : j \in FirstRead(k) .. LastRead(k)}
    BY <2>5, <2>6
  <2>8. f.start = it.start
    BY <2>2
  <2>9. p \in SectionReads(h, f)
    BY <2>5, <2>7, <2>8 DEF SectionReads, FirstRead, LastRead
  <2>10. QED
    BY <1>2, <2>9 DEF Reads, f
<1>3. CASE ~OverSections(h, it)
  <2>1. it.j = 0 /\ l = 0
    BY <1>3 DEF OffsetsOK, OverSections
  <2>2. p = [it EXCEPT !.i = k]
    BY <1>1, <2>1
  <2>3. QED
    BY <1>3, <2>2 DEF Reads, ChildReads
<1>4. QED
  BY <1>2, <1>3

\* What a loop finds at a place is a node of the AST: the child the place names, where
\* it is inside the array.
LEMMA NodesAtFacts ==
    ASSUME NEW h, WellFormed(h), NEW it, OffsetsOK(h, it), NEW p, PlaceOK(h, it, p)
    PROVE  /\ NodesAt(h, p) \subseteq DOMAIN h
           /\ OverSections(h, p) <=> OverSections(h, it)
           /\ InArray(h, p) => NodesAt(h, p) = {NodeAt(h, p)}
           /\ ~OverSections(h, it) => NodesAt(h, p) = {Child(h, it.start, p.i)}
           /\ OverSections(h, it) => NodeAt(h, p) = Child(h, Child(h, it.start, p.i), p.j)
           /\ OverSections(h, it) /\ p.j < h[Child(h, it.start, p.i)].number => InArray(h, p)
           /\ Orderly(h) /\ OverSections(h, it) /\ p.j = 0 => InArray(h, p)
<1> DEFINE t == Child(h, it.start, p.i)
<1>1. p.start = it.start /\ p.i \in 0 .. h[it.start].number - 1 /\ p.j \in Nat
      /\ it.start \in DOMAIN h
  <2>1. it.i \in Nat /\ h[it.start].number \in Nat
    BY WellFormedUnfolds, NodeFields DEF OffsetsOK
  <2>2. QED
    BY <2>1 DEF PlaceOK, OffsetsOK
<1>2. /\ t \in DOMAIN h /\ h[t].number \in Nat /\ h[t].number <= Len(h[t].children)
      /\ h[t].children \in Seq(DOMAIN h)
      /\ h[it.start].kind = "ANT_CONFIG" => h[t].kind = "ANT_SECTION_TYPE"
  BY <1>1, ChildFacts
<1> HIDE DEF t
<1>3. OverSections(h, p) <=> OverSections(h, it)
  BY <1>1 DEF OverSections
<1>4. InArray(h, p) <=> (OverSections(h, it) => p.j < Len(h[t].children))
  BY <1>1, <1>3 DEF InArray, t
<1>5. NodeAt(h, p) = IF OverSections(h, it) THEN Child(h, t, p.j) ELSE t
  BY <1>1, <1>3 DEF NodeAt, SectionAt, t
<1>6. Len(h[t].children) \in Nat
  BY <1>2
<1>7. OverSections(h, it) /\ p.j < Len(h[t].children) => Child(h, t, p.j) \in DOMAIN h
  <2>1. p.j < Len(h[t].children) => p.j + 1 \in 1 .. Len(h[t].children)
    BY <1>1, <1>6
  <2>2. QED
    BY <1>2, <2>1 DEF Child
<1>8. Orderly(h) /\ OverSections(h, it) => Len(h[t].children) > 0
  <2>1. Orderly(h) /\ OverSections(h, it) => h[t].children # <<>>
    BY <1>2 DEF Orderly, ArraysKept, OverSections
  <2>2. QED
    BY <1>2, <2>1
<1>9. OverSections(h, it) /\ p.j < h[t].number => p.j < Len(h[t].children)
  BY <1>1, <1>2, <1>6
<1>10. NodesAt(h, p) = IF InArray(h, p) THEN {NodeAt(h, p)} ELSE DOMAIN h
  BY DEF NodesAt
<1>11. QED
  BY <1>2, <1>3, <1>4, <1>5, <1>7, <1>8, <1>9, <1>10 DEF t

\* What uci2_node_iterator_next does: it stops at a place and moves on from there, comes
\* to the end, or leaves the iterator where it is.
Stopped(h, it, r) ==
    /\ r.err = "UE_NONE"
    /\ \E p \in Reads(h, it) : /\ StopsAt(h, it, p)
                               /\ r.out \in NodesAt(h, p)
                               /\ ~Deleted(h, r.out)
                               /\ r.iter = After(h, p)
                               /\ r.counted => Counted(h, p)
Ended(h, it, r) ==
    /\ r.err = "UE_ITERATOR_END" /\ ~r.counted
    /\ r.iter = [it EXCEPT !.i = h[it.start].number, !.j = 0]
    /\ \A p \in Reads(h, it) : \E n \in NodesAt(h, p) : Deleted(h, n)
Refused(it, r) ==
    r.err \in Errors \ {"UE_NONE", "UE_ITERATOR_END"} /\ r.iter = it /\ ~r.counted

\* There is no other outcome.
LEMMA OutcomeFacts ==
    ASSUME NEW h, NEW it, NEW r \in IteratorNext(h, it)
    PROVE  Stopped(h, it, r) \/ Ended(h, it, r) \/ Refused(it, r)
<1> DEFINE error == NodeTypeError(h, it.start)
<1> DEFINE stops == {p \in Reads(h, it) : StopsAt(h, it, p)}
<1> DEFINE atEnd == Outcome("UE_ITERATOR_END", NoNode, [it EXCEPT !.i = h[it.start].number, !.j = 0],
                             FALSE)
<1>1. error \in Errors \ {"UE_ITERATOR_END"}
  BY DEF NodeTypeError, Errors
<1>2. ASSUME NEW e, NEW n, NEW i, NEW p
      PROVE  LET o == Outcome(e, n, i, Counted(h, p))
             IN  /\ o.err = e /\ o.out = n /\ o.iter = i
                 /\ o.counted => Counted(h, p)
  BY DEF Outcome
<1>3. CASE error # "UE_NONE"
  <2>1. r = Outcome(error, NoNode, it, FALSE)
    BY <1>3 DEF IteratorNext
  <2>2. r.err = error /\ r.iter = it
    BY <2>1 DEF Outcome
  <2>3. ~r.counted
    BY <2>1 DEF Outcome
  <2>4. QED
    BY <1>1, <1>3, <2>2, <2>3 DEF Refused
<1>4. CASE error = "UE_NONE"
  <2>1. \/ \E p \in stops : \E n \in {m \in NodesAt(h, p) : ~Deleted(h, m)} :
               r = Outcome("UE_NONE", n, After(h, p), Counted(h, p))
        \/ r = atEnd /\ \A p \in Reads(h, it) : \E n \in NodesAt(h, p) : Deleted(h, n)
        \/ r = Outcome("ABORTED", NoNode, it, FALSE)
    BY <1>4 DEF IteratorNext
  <2>2. ASSUME NEW p \in stops, NEW n \in NodesAt(h, p), ~Deleted(h, n),
               r = Outcome("UE_NONE", n, After(h, p), Counted(h, p))
        PROVE  Stopped(h, it, r)
    BY <1>2, <2>2 DEF Stopped
  <2>3. CASE r = Outcome("ABORTED", NoNode, it, FALSE)
    <3>1. r.err = "ABORTED" /\ r.iter = it
      BY <2>3 DEF Outcome
    <3>2. ~r.counted
      BY <2>3 DEF Outcome
    <3>3. QED
      BY <3>1, <3>2 DEF Refused, Errors
  <2>4. CASE r = atEnd /\ \A p \in Reads(h, it) : \E n \in NodesAt(h, p) : Deleted(h, n)
    <3>1. r.err = "UE_ITERATOR_END" /\ r.iter = [it EXCEPT !.i = h[it.start].number, !.j = 0]
      BY <2>4 DEF Outcome
    <3>2. ~r.counted
      BY <2>4 DEF Outcome
    <3>3. QED
      BY <2>4, <3>1, <3>2 DEF Ended
  <2>5. QED
    BY <2>1, <2>2, <2>3, <2>4
<1>5. QED
  BY <1>3, <1>4

-----------------------------------------------------------------------------
(***************************************************************************)
(* Where the offsets get to, and what the calls of the node API leave of   *)
(* the places.                                                             *)
(***************************************************************************)

\* The place with the offsets k and l, and whether there is a child at it that counts.
Spot(it, k, l) == [start |-> it.start, i |-> k, j |-> l]
Holds(h, it, k, l) ==
    /\ k \in 0 .. h[it.start].number - 1
    /\ l \in Nat
    /\ IF h[it.start].kind = "ANT_CONFIG" THEN l < h[Child(h, it.start, k)].number ELSE l = 0

\* The fields of such a place, and the child.
LEMMA SpotFacts ==
    ASSUME NEW h, NEW it, NEW k, NEW l
    PROVE  /\ Spot(it, k, l).start = it.start /\ Spot(it, k, l).i = k /\ Spot(it, k, l).j = l
           /\ NodeAt(h, Spot(it, k, l)) =
                 IF h[it.start].kind = "ANT_CONFIG" THEN Child(h, Child(h, it.start, k), l)
                 ELSE Child(h, it.start, k)
BY DEF Spot, NodeAt, OverSections, SectionAt

\* The order of places is that of their offsets.
LEMMA SpotOrder ==
    ASSUME NEW it, NEW k, NEW l, NEW p
    PROVE  /\ Before(p, Spot(it, k, l)) <=> p.i < k \/ (p.i = k /\ p.j < l)
           /\ Before(Spot(it, k, l), p) <=> k < p.i \/ (k = p.i /\ l < p.j)
BY DEF Spot, Before

\* What the do loops find at a place ahead of the iterator.
LEMMA HoldsRead ==
    ASSUME NEW h, WellFormed(h), NEW it, OffsetsOK(h, it), NEW k, NEW l, Holds(h, it, k, l),
           ~Before(Spot(it, k, l), it)
    PROVE  /\ Spot(it, k, l) \in Reads(h, it)
           /\ NodesAt(h, Spot(it, k, l)) = {NodeAt(h, Spot(it, k, l))}
<1> DEFINE p == Spot(it, k, l)
<1>1. it.i \in Nat /\ it.j \in Nat /\ h[it.start].number \in Nat
  BY WellFormedUnfolds, NodeFields DEF OffsetsOK
<1>2. k \in Nat /\ l \in Nat /\ k <= h[it.start].number - 1
  BY <1>1 DEF Holds
<1>3. it.i <= k /\ (k = it.i => l >= it.j)
  BY <1>1, <1>2, SpotOrder
<1>4. k \in it.i .. h[it.start].number - 1
  BY <1>1, <1>2, <1>3
<1>5. p \in Reads(h, it)
  BY <1>2, <1>3, <1>4, ReadsCover DEF Holds, OverSections, Spot
<1>6. PlaceOK(h, it, p)
  BY <1>5, ReadsFacts
<1>7. InArray(h, p)
  <2>1. CASE OverSections(h, it)
    <3>1. p.i = k /\ p.j = l
      BY SpotFacts
    <3>2. p.j < h[Child(h, it.start, p.i)].number
      BY <2>1, <3>1 DEF Holds, OverSections
    <3>3. QED
      BY <1>6, <2>1, <3>2, NodesAtFacts
  <2>2. CASE ~OverSections(h, it)
    BY <1>6, <2>2, NodesAtFacts DEF InArray
  <2>3. QED
    BY <2>1, <2>2
<1>8. QED
  BY <1>5, <1>6, <1>7, NodesAtFacts

\* The end of the iteration is a place to stand at.
LEMMA EndOK ==
    ASSUME NEW h, WellFormed(h), NEW it, OffsetsOK(h, it), NEW r, Ended(h, it, r)
    PROVE  /\ OffsetsOK(h, r.iter)
           /\ r.iter.start = it.start /\ r.iter.i = h[it.start].number
<1>1. PICK a, b : it = [start |-> it.start, i |-> a, j |-> b]
  BY DEF OffsetsOK
<1>2. PICK f : f = r.iter /\ f = [it EXCEPT !.i = h[it.start].number, !.j = 0]
  BY DEF Ended
<1>3. f = [start |-> it.start, i |-> h[it.start].number, j |-> 0]
  BY <1>1, <1>2
<1>4. h[it.start].number \in Nat
  BY WellFormedUnfolds, NodeFields DEF OffsetsOK
<1>5. f.start = it.start /\ f.i = h[it.start].number /\ f.j = 0
      /\ f = [start |-> f.start, i |-> f.i, j |-> f.j]
  BY <1>3
<1>6. OffsetsOK(h, f)
  BY <1>4, <1>5 DEF OffsetsOK
<1>7. QED
  BY <1>2, <1>5, <1>6

\* After a place comes one that is further on, with no child that counts in between.
LEMMA AfterFacts ==
    ASSUME NEW h, WellFormed(h), NEW it, OffsetsOK(h, it), NEW p, PlaceOK(h, it, p),
           NEW f, f = After(h, p)
    PROVE  /\ OffsetsOK(h, f)
           /\ f.start = it.start
           /\ \A k, l : Holds(h, it, k, l) /\ Before(p, Spot(it, k, l))
                           => ~Before(Spot(it, k, l), f)
           /\ Before(p, f)
<1> DEFINE N == h[it.start].number
<1> DEFINE Count == h[Child(h, it.start, p.i)].number
<1>1. /\ it.i \in Nat /\ it.j \in Nat /\ N \in Nat /\ it.start \in DOMAIN h
      /\ h[it.start].kind \in {"ANT_CONFIG", "ANT_SECTION_NAME", "ANT_LIST"}
  BY WellFormedUnfolds, NodeFields DEF OffsetsOK
<1>2. /\ p.start = it.start /\ p.i \in it.i .. N - 1 /\ p.j \in Nat
      /\ p = [start |-> it.start, i |-> p.i, j |-> p.j]
      /\ h[it.start].kind # "ANT_CONFIG" => p.j = 0
  BY DEF PlaceOK
<1>3. p.i \in 0 .. N - 1
  BY <1>1, <1>2
<1>4. Count \in Nat
  BY <1>1, <1>3, ChildFacts
<1>5. /\ OverSections(h, p) <=> h[it.start].kind = "ANT_CONFIG"
      /\ Child(h, p.start, p.i) = Child(h, it.start, p.i)
  BY <1>2 DEF OverSections
<1> HIDE DEF N, Count
<1>6. PICK a, b : p = [start |-> it.start, i |-> a, j |-> b]
  BY <1>2
<1>7. a = p.i /\ b = p.j
  BY <1>6
<1>8. CASE h[it.start].kind = "ANT_CONFIG" /\ p.j + 1 >= Count
  <2>1. f = [p EXCEPT !.i = @ + 1, !.j = 0]
    BY <1>5, <1>8 DEF After, Advance, Count
  <2>2. f = [start |-> it.start, i |-> a + 1, j |-> 0]
    BY <1>6, <2>1
  <2>3. f.start = it.start /\ f.i = p.i + 1 /\ f.j = 0 /\ f = [start |-> f.start, i |-> f.i, j |-> f.j]
    BY <1>7, <2>2
  <2>4. f.i \in Nat /\ f.i <= N
    BY <1>1, <1>3, <2>3
  <2>5. OffsetsOK(h, f)
    BY <1>1, <2>3, <2>4 DEF OffsetsOK, N
  <2>6. Before(p, f)
    BY <1>1, <1>3, <2>3 DEF Before
  <2>7. ASSUME NEW k, NEW l, Holds(h, it, k, l), Before(p, Spot(it, k, l))
        PROVE  ~Before(Spot(it, k, l), f)
    <3>1. k \in Nat /\ l \in Nat /\ l < h[Child(h, it.start, k)].number
      BY <1>1, <1>8, <2>7 DEF Holds, N
    <3>2. p.i < k \/ (p.i = k /\ p.j < l)
      BY <2>7, SpotOrder
    <3>3. p.i = k => l < Count
      BY <3>1 DEF Count
    <3>4. p.i < k
      BY <1>2, <1>4, <1>8, <3>1, <3>2, <3>3
    <3>5. ~(k < p.i + 1 \/ (k = p.i + 1 /\ l < 0))
      BY <1>3, <3>1, <3>4
    <3>6. QED
      BY <2>3, <3>5, SpotOrder
  <2>8. QED
    BY <2>3, <2>5, <2>6, <2>7
<1>9. CASE h[it.start].kind = "ANT_CONFIG" /\ ~(p.j + 1 >= Count)
  <2>1. f = [p EXCEPT !.j = @ + 1]
    BY <1>5, <1>9 DEF After, Advance, Count
  <2>2. f = [start |-> it.start, i |-> a, j |-> b + 1]
    BY <1>6, <2>1
  <2>3. f.start = it.start /\ f.i = p.i /\ f.j = p.j + 1 /\ f = [start |-> f.start, i |-> f.i, j |-> f.j]
    BY <1>7, <2>2
  <2>4. f.i \in Nat /\ f.i < N /\ f.j \in Nat /\ f.j < Count
    BY <1>1, <1>2, <1>3, <1>4, <1>9, <2>3
  <2>5. Count = h[Child(h, f.start, f.i)].number
    BY <2>3 DEF Count
  <2>6. OffsetsOK(h, f)
    BY <1>1, <1>9, <2>3, <2>4, <2>5 DEF OffsetsOK, N
  <2>7. Before(p, f)
    BY <1>2, <2>3 DEF Before
  <2>8. ASSUME NEW k, NEW l, Holds(h, it, k, l), Before(p, Spot(it, k, l))
        PROVE  ~Before(Spot(it, k, l), f)
    <3>1. k \in Nat /\ l \in Nat
      BY <1>1, <2>8 DEF Holds, N
    <3>2. p.i < k \/ (p.i = k /\ p.j < l)
      BY <2>8, SpotOrder
    <3>3. ~(k < p.i \/ (k = p.i /\ l < p.j + 1))
      BY <1>2, <1>3, <3>1, <3>2
    <3>4. QED
      BY <2>3, <3>3, SpotOrder
  <2>9. QED
    BY <2>3, <2>6, <2>7, <2>8
<1>10. CASE h[it.start].kind # "ANT_CONFIG"
  <2>1. f = [p EXCEPT !.i = @ + 1]
    BY <1>5, <1>10 DEF After
  <2>2. f = [start |-> it.start, i |-> a + 1, j |-> b]
    BY <1>6, <2>1
  <2>3. f.start = it.start /\ f.i = p.i + 1 /\ f.j = 0 /\ f = [start |-> f.start, i |-> f.i, j |-> f.j]
    BY <1>2, <1>7, <1>10, <2>2
  <2>4. f.i \in Nat /\ f.i <= N
    BY <1>1, <1>3, <2>3
  <2>5. OffsetsOK(h, f)
    BY <1>1, <2>3, <2>4 DEF OffsetsOK, N
  <2>6. Before(p, f)
    BY <1>1, <1>3, <2>3 DEF Before
  <2>7. ASSUME NEW k, NEW l, Holds(h, it, k, l), Before(p, Spot(it, k, l))
        PROVE  ~Before(Spot(it, k, l), f)
    <3>1. k \in Nat /\ l = 0
      BY <1>1, <1>10, <2>7 DEF Holds, N
    <3>2. p.i < k \/ (p.i = k /\ p.j < l)
      BY <2>7, SpotOrder
    <3>3. p.i < k
      BY <1>2, <3>1, <3>2
    <3>4. ~(k < p.i + 1 \/ (k = p.i + 1 /\ l < 0))
      BY <1>3, <3>1, <3>3
    <3>5. QED
      BY <2>3, <3>4, SpotOrder
  <2>8. QED
    BY <2>3, <2>5, <2>6, <2>7
<1>11. QED
  BY <1>8, <1>9, <1>10

\* A call of the node API moves no child of a section type whose array it keeps, and no
\* child of any other node.
LEMMA HoldsStay ==
    ASSUME NEW h, WellFormed(h), NEW g, ArraysGrow(h, g), NEW it, OffsetsOK(h, it),
           NEW k, NEW l, Holds(h, it, k, l),
           OverSections(h, it) => Extends(h, g, Child(h, it.start, k))
    PROVE  Holds(g, it, k, l) /\ NodeAt(g, Spot(it, k, l)) = NodeAt(h, Spot(it, k, l))
<1> DEFINE s == it.start
<1> DEFINE t == Child(h, s, k)
<1>1. /\ h[s].number \in Nat /\ g[s].number \in Nat /\ Extends(h, g, s)
      /\ g[s].kind = h[s].kind
  BY DEF ArraysGrow, TypesStayDeleted, OffsetsOK
<1>2. k \in 0 .. h[s].number - 1 /\ l \in Nat
  BY DEF Holds
<1>3. k + 1 \in 1 .. h[s].number /\ k \in 0 .. g[s].number - 1
  BY <1>1, <1>2 DEF Extends
<1>4. Child(g, s, k) = t
  BY <1>1, <1>3 DEF Extends, Child
<1>5. t \in DOMAIN h
  BY <1>2, ChildFacts DEF OffsetsOK
<1>6. OverSections(h, it) => Extends(h, g, t)
  OBVIOUS
<1> HIDE DEF t
<1>7. h[t].number \in Nat /\ g[t].number \in Nat
  BY <1>5 DEF ArraysGrow
<1>8. CASE h[s].kind = "ANT_CONFIG"
  <2>1. l < h[t].number /\ Extends(h, g, t)
    BY <1>6, <1>8 DEF Holds, OverSections, t
  <2>2. l + 1 \in 1 .. h[t].number /\ l < g[t].number
    BY <1>2, <1>7, <2>1 DEF Extends
  <2>3. Child(g, t, l) = Child(h, t, l)
    BY <2>1, <2>2 DEF Extends, Child
  <2>4. Holds(g, it, k, l)
    BY <1>1, <1>2, <1>3, <1>4, <1>8, <2>2 DEF Holds
  <2>5. QED
    BY <1>1, <1>4, <1>8, <2>3, <2>4, SpotFacts DEF t
<1>9. CASE h[s].kind # "ANT_CONFIG"
  <2>1. Holds(g, it, k, l)
    BY <1>1, <1>2, <1>3, <1>9 DEF Holds
  <2>2. QED
    BY <1>1, <1>4, <1>9, <2>1, SpotFacts DEF t
<1>10. QED
  BY <1>8, <1>9

\* The offsets stay usable whatever the client calls.
LEMMA OffsetsStay ==
    ASSUME NEW h, WellFormed(h), NEW g, ArraysGrow(h, g), NEW it, OffsetsOK(h, it)
    PROVE  OffsetsOK(g, it) /\ OverSections(g, it) = OverSections(h, it)
<1> DEFINE s == it.start
<1>1. /\ s \in DOMAIN h /\ DOMAIN h \subseteq DOMAIN g /\ g[s].kind = h[s].kind
      /\ h[s].kind # "ANT_SECTION_TYPE" /\ it.i \in Nat /\ it.i <= h[s].number
      /\ h[s].number \in Nat /\ g[s].number \in Nat /\ Extends(h, g, s)
  BY DEF ArraysGrow, TypesStayDeleted, OffsetsOK
<1>2. it.i <= g[s].number
  BY <1>1 DEF Extends
<1>3. ASSUME it.j # 0
      PROVE  /\ h[s].kind = "ANT_CONFIG" /\ it.i < g[s].number
             /\ Deleted(g, Child(g, s, it.i)) \/ it.j < g[Child(g, s, it.i)].number
  <2> DEFINE t == Child(h, s, it.i)
  <2>1. /\ h[s].kind = "ANT_CONFIG" /\ it.i < h[s].number
        /\ Deleted(h, t) \/ it.j < h[t].number
    BY <1>3 DEF OffsetsOK
  <2>2. it.i \in 0 .. h[s].number - 1 /\ it.i + 1 \in 1 .. h[s].number /\ it.i < g[s].number
    BY <1>1, <2>1 DEF Extends
  <2>3. Child(g, s, it.i) = t
    BY <1>1, <2>2 DEF Extends, Child
  <2>4. t \in DOMAIN h /\ h[t].kind = "ANT_SECTION_TYPE"
    BY <1>1, <2>1, <2>2, ChildFacts
  <2> HIDE DEF t
  <2>5. CASE Deleted(h, t)
    BY <2>1, <2>2, <2>3, <2>4, <2>5 DEF ArraysGrow, TypesStayDeleted
  <2>6. CASE Deleted(g, t)
    BY <2>1, <2>2, <2>3, <2>6
  <2>7. CASE ~Deleted(h, t) /\ ~Deleted(g, t)
    <3>1. it.j < h[t].number /\ h[t].number <= g[t].number
          /\ h[t].number \in Nat /\ g[t].number \in Nat /\ it.j \in Nat
      BY <2>1, <2>4, <2>7 DEF ArraysGrow, Extends, OffsetsOK
    <3>2. it.j < g[t].number
      BY <3>1
    <3>3. QED
      BY <2>1, <2>2, <2>3, <3>2
  <2>8. QED
    BY <2>5, <2>6, <2>7
<1>4. OverSections(g, it) = OverSections(h, it)
  BY <1>1 DEF OverSections
<1>5. QED
  BY <1>1, <1>2, <1>3, <1>4 DEF OffsetsOK

-----------------------------------------------------------------------------
(***************************************************************************)
(* The history of an iteration.                                            *)
(***************************************************************************)

\* What the iterator is still to return is ahead of it, and not deleted.
Awaits(h, it, w) ==
    \A m \in w : /\ m \in DOMAIN h /\ ~Deleted(h, m)
                 /\ \E k, l : /\ Holds(h, it, k, l)
                              /\ ~Before(Spot(it, k, l), it)
                              /\ NodeAt(h, Spot(it, k, l)) = m

\* What it has returned of the children that count is behind it, each of it once; lines and
\* list elements in the order of the places.
PlacedAt(h, it, k, l, m) == Holds(h, it, k, l) /\ NodeAt(h, Spot(it, k, l)) = m
Ordered(h, it, s) ==
    \A a, b \in DOMAIN s : a < b =>
        \E k, l, q, r : /\ PlacedAt(h, it, k, l, s[a]) /\ PlacedAt(h, it, q, r, s[b])
                        /\ Before(Spot(it, k, l), Spot(it, q, r))
Returned(h, it, s) ==
    /\ \A a \in DOMAIN s : \E k, l : PlacedAt(h, it, k, l, s[a]) /\ Before(Spot(it, k, l), it)
    /\ \A a, b \in DOMAIN s : a # b => s[a] # s[b]
    /\ ~OverSections(h, it) => Ordered(h, it, s)

\* What the library does to the AST keeps the history.
LEMMA ExtendsKeepHistory ==
    ASSUME NEW h, WellFormed(h), NEW g, ArraysGrow(h, g), NEW it, OffsetsOK(h, it),
           ArraysExtend(h, g) \/ ~OverSections(h, it), NEW w, Awaits(h, it, w)
    PROVE  Awaits(g, it, {n \in w : ~Deleted(g, n)})
<1> SUFFICES ASSUME NEW m \in w, ~Deleted(g, m)
             PROVE  /\ m \in DOMAIN g
                    /\ \E k, l : /\ Holds(g, it, k, l)
                                 /\ ~Before(Spot(it, k, l), it)
                                 /\ NodeAt(g, Spot(it, k, l)) = m
  BY DEF Awaits
<1>1. m \in DOMAIN g
  BY DEF Awaits, ArraysGrow, TypesStayDeleted
<1>2. PICK k, l : /\ Holds(h, it, k, l)
                  /\ ~Before(Spot(it, k, l), it)
                  /\ NodeAt(h, Spot(it, k, l)) = m
  BY DEF Awaits
<1>3. OverSections(h, it) => Extends(h, g, Child(h, it.start, k))
  <2>1. it.start \in DOMAIN h /\ k \in 0 .. h[it.start].number - 1
    BY <1>2 DEF OffsetsOK, Holds
  <2>2. Child(h, it.start, k) \in DOMAIN h
    BY <2>1, ChildFacts
  <2>3. QED
    BY <2>2 DEF ArraysExtend
<1>4. Holds(g, it, k, l) /\ NodeAt(g, Spot(it, k, l)) = m
  BY <1>2, <1>3, HoldsStay
<1>5. QED
  BY <1>1, <1>2, <1>4

\* A section that is behind the iterator stays there, as a merge takes sections only to
\* section types before theirs.
LEMMA PlacedStays ==
    ASSUME NEW h, WellFormed(h), NEW g, ArraysGrow(h, g), NEW it, OffsetsOK(h, it),
           NEW k, NEW l, NEW m, PlacedAt(h, it, k, l, m), Before(Spot(it, k, l), it)
    PROVE  \E q, r : PlacedAt(g, it, q, r, m) /\ Before(Spot(it, q, r), it)
<1>1. /\ it.start \in DOMAIN h /\ h[it.start].number \in Nat /\ g[it.start].number \in Nat
      /\ k \in 0 .. h[it.start].number - 1 /\ l \in Nat
      /\ g[it.start].kind = h[it.start].kind /\ it.i \in Nat
  BY DEF ArraysGrow, TypesStayDeleted, OffsetsOK, PlacedAt, Holds
<1> DEFINE t == Child(h, it.start, k)
<1>2. CASE OverSections(h, it) => Extends(h, g, t)
  BY <1>2, HoldsStay DEF PlacedAt
<1>3. CASE OverSections(h, it) /\ ~Extends(h, g, t)
  <2>1. h[it.start].kind = "ANT_CONFIG"
    BY <1>3 DEF OverSections
  <2>2. m \in KidSet(h, t)
    <3>1. t \in DOMAIN h /\ h[t].number \in Nat
      BY <1>1, ChildFacts
    <3>2. l < h[t].number /\ m = Child(h, t, l)
      BY <2>1, SpotFacts DEF PlacedAt, Holds
    <3> HIDE DEF t
    <3>3. l + 1 \in 1 .. h[t].number
      BY <1>1, <3>1, <3>2
    <3>4. QED
      BY <3>2, <3>3 DEF KidSet, Child
  <2>3. PICK i \in 0 .. k - 1 : m \in KidSet(g, Child(g, it.start, i))
    <3>1. MovesBack(h, g)
      BY DEF ArraysGrow
    <3>2. QED
      BY <1>1, <1>3, <2>1, <2>2, <3>1 DEF MovesBack
  <2>4. i \in 0 .. h[it.start].number - 1 /\ i \in Nat /\ i < k
    BY <1>1
  <2> DEFINE u == Child(g, it.start, i)
  <2>5. i \in 0 .. g[it.start].number - 1 /\ g[u].number \in Nat
    BY <1>1, <2>1, <2>4, GrowKeepsTypes
  <2> HIDE DEF u, t
  <2>6. PICK r \in 1 .. g[u].number : m = g[u].children[r]
    BY <2>3 DEF KidSet, u
  <2>7. r - 1 \in Nat /\ r - 1 < g[u].number /\ m = Child(g, u, r - 1)
    BY <2>5, <2>6 DEF Child
  <2>8. PlacedAt(g, it, i, r - 1, m)
    <3>1. Holds(g, it, i, r - 1)
      BY <1>1, <2>1, <2>5, <2>7 DEF Holds, u
    <3>2. NodeAt(g, Spot(it, i, r - 1)) = m
      BY <1>1, <2>1, <2>7, SpotFacts DEF u
    <3>3. QED
      BY <3>1, <3>2 DEF PlacedAt
  <2>9. Before(Spot(it, i, r - 1), it)
    <3>1. k <= it.i
      <4>1. k < it.i \/ (k = it.i /\ l < it.j)
        BY DEF Before, Spot
      <4>2. QED
        BY <1>1, <4>1
    <3>2. i < it.i
      BY <1>1, <2>4, <3>1
    <3>3. QED
      BY <3>2 DEF Before, Spot
  <2>10. QED
    BY <2>8, <2>9
<1>4. QED
  BY <1>2, <1>3

\* So what the library does to the AST leaves what was returned behind the iterator.
LEMMA GrowingKeepsOrder ==
    ASSUME NEW h, WellFormed(h), NEW g, ArraysGrow(h, g), NEW it, OffsetsOK(h, it), NEW s,
           Returned(h, it, s)
    PROVE  Returned(g, it, s)
<1>1. ASSUME NEW a \in DOMAIN s
      PROVE  \E k, l : PlacedAt(g, it, k, l, s[a]) /\ Before(Spot(it, k, l), it)
  <2>1. PICK k, l : PlacedAt(h, it, k, l, s[a]) /\ Before(Spot(it, k, l), it)
    BY DEF Returned
  <2>2. QED
    BY <2>1, PlacedStays
<1>2. ASSUME ~OverSections(g, it) PROVE Ordered(g, it, s)
  <2>1. ~OverSections(h, it)
    BY <1>2, OffsetsStay
  <2>2. Ordered(h, it, s)
    BY <2>1 DEF Returned
  <2>3. ASSUME NEW k, NEW l, NEW m, PlacedAt(h, it, k, l, m)
        PROVE  PlacedAt(g, it, k, l, m)
    BY <2>1, <2>3, HoldsStay DEF PlacedAt
  <2>4. QED
    BY <2>2, <2>3 DEF Ordered
<1>3. QED
  BY <1>1, <1>2 DEF Returned

\* No child is at two places.
LEMMA PlaceIsUnique ==
    ASSUME NEW h, WellFormed(h), NEW it, OffsetsOK(h, it), NEW k, NEW l, NEW q, NEW r, NEW m,
           PlacedAt(h, it, k, l, m), PlacedAt(h, it, q, r, m)
    PROVE  k = q /\ l = r
<1> DEFINE N == h[it.start].number
<1> DEFINE t == Child(h, it.start, k)
<1> DEFINE u == Child(h, it.start, q)
<1>1. N \in Nat /\ it.start \in DOMAIN h /\ DisjointChildren(h)
  BY WellFormedUnfolds, NodeFields DEF OffsetsOK, WellFormed
<1>2. /\ k \in 0 .. N - 1 /\ l \in Nat /\ q \in 0 .. N - 1 /\ r \in Nat
  BY DEF PlacedAt, Holds
<1>3. k + 1 \in 1 .. N /\ q + 1 \in 1 .. N
  BY <1>1, <1>2
<1>4. t = u => k = q
  <2>1. t = u => k + 1 = q + 1
    BY <1>1, <1>3 DEF DisjointChildren, Child
  <2>2. QED
    BY <1>1, <1>2, <2>1
<1>5. CASE OverSections(h, it)
  <2>1. /\ l < h[t].number /\ r < h[u].number
        /\ Child(h, t, l) = Child(h, u, r)
    BY <1>5, SpotFacts DEF PlacedAt, Holds, OverSections
  <2>2. t \in DOMAIN h /\ u \in DOMAIN h /\ h[t].number \in Nat /\ h[u].number \in Nat
    BY <1>1, <1>2, ChildFacts
  <2> HIDE DEF t, u
  <2>3. l + 1 \in 1 .. h[t].number /\ r + 1 \in 1 .. h[u].number
    BY <1>2, <2>1, <2>2
  <2>4. t = u /\ l + 1 = r + 1
    BY <1>1, <2>1, <2>2, <2>3 DEF DisjointChildren, Child
  <2>5. QED
    BY <1>2, <1>4, <2>4
<1>6. CASE ~OverSections(h, it)
  <2>1. l = 0 /\ r = 0 /\ t = u
    BY <1>6, SpotFacts DEF PlacedAt, Holds, OverSections
  <2>2. QED
    BY <1>4, <2>1
<1>7. QED
  BY <1>5, <1>6

\* A place that is behind the iterator stays so when it moves on.
LEMMA BeforeIsTransitive ==
    ASSUME NEW p, NEW q, NEW f, p.i \in Nat, p.j \in Nat, q.i \in Nat, q.j \in Nat,
           f.i \in Nat, f.j \in Nat, Before(p, q)
    PROVE  ~Before(f, q) => Before(p, f)
BY DEF Before

\* The places behind the iterator come before any place it may read, and those before
\* where it goes from there.
LEMMA BehindThePlace ==
    ASSUME NEW h, WellFormed(h), NEW it, OffsetsOK(h, it), NEW p, PlaceOK(h, it, p),
           NEW f, f = After(h, p), NEW k, NEW l, Holds(h, it, k, l), Before(Spot(it, k, l), it)
    PROVE  Before(Spot(it, k, l), p) /\ Before(Spot(it, k, l), f)
<1> DEFINE x == Spot(it, k, l)
<1>1. it.i \in Nat /\ it.j \in Nat /\ h[it.start].number \in Nat
  BY WellFormedUnfolds, NodeFields DEF OffsetsOK
<1>2. x.i \in Nat /\ x.j \in Nat
  <2>1. k \in Nat /\ l \in Nat
    BY <1>1 DEF Holds
  <2>2. QED
    BY <2>1 DEF Spot
<1>3. p.i \in Nat /\ p.j \in Nat /\ p.i >= it.i /\ (p.i = it.i => p.j >= it.j)
  <2>1. p.i \in it.i .. h[it.start].number - 1 /\ p.j \in Nat /\ (p.i = it.i => p.j >= it.j)
    BY DEF PlaceOK
  <2>2. QED
    BY <1>1, <2>1
<1>4. ~Before(p, it)
  BY <1>1, <1>3 DEF Before
<1>5. f.i \in Nat /\ f.j \in Nat /\ Before(p, f)
  BY AfterFacts DEF OffsetsOK
<1>6. ~Before(f, p)
  BY <1>3, <1>5 DEF Before
<1> HIDE DEF x
<1>7. Before(x, p)
  BY <1>1, <1>2, <1>3, <1>4, BeforeIsTransitive DEF x
<1>8. Before(x, f)
  BY <1>2, <1>3, <1>5, <1>6, <1>7, BeforeIsTransitive
<1>9. QED
  BY <1>7, <1>8 DEF x

\* Where an iterator stands matters to the order of places only.
LEMMA SameStart ==
    ASSUME NEW h, NEW it, NEW f, f.start = it.start, NEW k, NEW l
    PROVE  Spot(f, k, l) = Spot(it, k, l) /\ (Holds(h, f, k, l) <=> Holds(h, it, k, l))
BY DEF Spot, Holds

\* Where it stops, it leaves nothing out that is still to be returned.
LEMMA StopsKeepWaiting ==
    ASSUME NEW h, WellFormed(h), NEW it, OffsetsOK(h, it), NEW p \in Reads(h, it),
           StopsAt(h, it, p), NEW n \in NodesAt(h, p), NEW f, f = After(h, p),
           NEW w, Awaits(h, it, w)
    PROVE  Awaits(h, f, w \ {n})
<1> SUFFICES ASSUME NEW m \in w, m # n
             PROVE  /\ m \in DOMAIN h /\ ~Deleted(h, m)
                    /\ \E k, l : /\ Holds(h, f, k, l)
                                 /\ ~Before(Spot(f, k, l), f)
                                 /\ NodeAt(h, Spot(f, k, l)) = m
  BY DEF Awaits
<1>1. m \in DOMAIN h /\ ~Deleted(h, m)
  BY DEF Awaits
<1>2. PICK k, l : /\ Holds(h, it, k, l)
                  /\ ~Before(Spot(it, k, l), it)
                  /\ NodeAt(h, Spot(it, k, l)) = m
  BY DEF Awaits
<1> DEFINE q == Spot(it, k, l)
<1>3. q \in Reads(h, it) /\ NodesAt(h, q) = {m}
  BY <1>2, HoldsRead
<1>4. PlaceOK(h, it, p)
  BY ReadsFacts
<1>5. f.start = it.start
  BY <1>4, AfterFacts
<1>6. ~Before(q, p)
  BY <1>1, <1>3 DEF StopsAt
<1>7. Before(p, q)
  <2>1. p # q
    BY <1>3
  <2>2. q.i = k /\ q.j = l /\ q = [start |-> it.start, i |-> k, j |-> l]
    BY SpotFacts DEF Spot
  <2>3. it.i \in Nat /\ h[it.start].number \in Nat
    BY WellFormedUnfolds, NodeFields DEF OffsetsOK
  <2>4. k \in Nat /\ l \in Nat
    BY <2>3, <1>2 DEF Holds
  <2>5. p = [start |-> it.start, i |-> p.i, j |-> p.j] /\ p.i \in Nat /\ p.j \in Nat
    <3>1. p.i \in it.i .. h[it.start].number - 1
      BY <1>4 DEF PlaceOK
    <3>2. QED
      BY <1>4, <2>3, <3>1 DEF PlaceOK
  <2>6. ~(p.i = k /\ p.j = l)
    BY <2>1, <2>2, <2>5
  <2>7. ~(k < p.i \/ (k = p.i /\ l < p.j))
    BY <1>6, <2>2 DEF Before
  <2>8. p.i < k \/ (p.i = k /\ p.j < l)
    BY <2>4, <2>5, <2>6, <2>7
  <2>9. QED
    BY <2>8, SpotOrder
<1>8. ~Before(q, f)
  BY <1>2, <1>4, <1>7, AfterFacts
<1>9. QED
  BY <1>1, <1>2, <1>5, <1>8, SameStart

\* Where it comes to the end, nothing is.
LEMMA EndsWithNothingWaiting ==
    ASSUME NEW h, WellFormed(h), NEW it, OffsetsOK(h, it), NEW w, Awaits(h, it, w),
           \A p \in Reads(h, it) : \E n \in NodesAt(h, p) : Deleted(h, n)
    PROVE  w = {}
<1> SUFFICES ASSUME NEW m \in w PROVE FALSE
  OBVIOUS
<1>1. PICK k, l : /\ Holds(h, it, k, l)
                  /\ ~Before(Spot(it, k, l), it)
                  /\ NodeAt(h, Spot(it, k, l)) = m
  BY DEF Awaits
<1>2. Spot(it, k, l) \in Reads(h, it) /\ NodesAt(h, Spot(it, k, l)) = {m}
  BY <1>1, HoldsRead
<1>3. QED
  BY <1>2 DEF Awaits

\* A place that is read and counts holds a child.
LEMMA ReadsHold ==
    ASSUME NEW h, WellFormed(h), NEW it, OffsetsOK(h, it), NEW p \in Reads(h, it),
           Counted(h, p)
    PROVE  /\ Holds(h, it, p.i, p.j) /\ p = Spot(it, p.i, p.j)
           /\ NodesAt(h, p) = {NodeAt(h, p)}
<1>1. PlaceOK(h, it, p)
  BY ReadsFacts
<1>2. p = Spot(it, p.i, p.j) /\ p.start = it.start
  <2>1. p = [start |-> it.start, i |-> p.i, j |-> p.j]
    BY <1>1 DEF PlaceOK
  <2>2. QED
    BY <2>1 DEF Spot
<1>3. p.i \in 0 .. h[it.start].number - 1 /\ p.j \in Nat
  <2>1. it.i \in Nat /\ h[it.start].number \in Nat
    BY WellFormedUnfolds, NodeFields DEF OffsetsOK
  <2>2. p.i \in it.i .. h[it.start].number - 1 /\ p.j \in Nat
    BY <1>1 DEF PlaceOK
  <2>3. QED
    BY <2>1, <2>2
<1>4. CASE OverSections(h, it)
  <2>1. p.j < h[Child(h, it.start, p.i)].number
    BY <1>1, <1>2, <1>4, NodesAtFacts DEF Counted
  <2>2. Holds(h, it, p.i, p.j)
    BY <1>3, <1>4, <2>1 DEF Holds, OverSections
  <2>3. NodesAt(h, p) = {NodeAt(h, p)}
    BY <1>1, <1>4, <2>1, NodesAtFacts
  <2>4. QED
    BY <1>2, <2>2, <2>3
<1>5. CASE ~OverSections(h, it)
  <2>1. p.j = 0
    BY <1>1, <1>5 DEF PlaceOK, OverSections
  <2>2. Holds(h, it, p.i, p.j)
    BY <1>3, <1>5, <2>1 DEF Holds, OverSections
  <2>3. InArray(h, p)
    BY <1>1, <1>5, NodesAtFacts DEF InArray
  <2>4. QED
    BY <1>1, <1>2, <2>2, <2>3, NodesAtFacts
<1>6. QED
  BY <1>4, <1>5

\* So the iterator goes on in order.
LEMMA StopsKeepOrder ==
    ASSUME NEW h, WellFormed(h), NEW it, OffsetsOK(h, it), NEW p \in Reads(h, it),
           NEW n \in NodesAt(h, p), NEW f, f = After(h, p),
           NEW D, NEW s \in Seq(D), Returned(h, it, s)
    PROVE  Returned(h, f, s) /\ (Counted(h, p) => Returned(h, f, Append(s, n)))
<1>1. PlaceOK(h, it, p)
  BY ReadsFacts
<1>2. f.start = it.start /\ Before(p, f) /\ (OverSections(h, f) <=> OverSections(h, it))
  BY <1>1, AfterFacts DEF OverSections
<1>3. \A k, l, m : /\ PlacedAt(h, f, k, l, m) <=> PlacedAt(h, it, k, l, m)
                   /\ Spot(f, k, l) = Spot(it, k, l)
  BY <1>2, SameStart DEF PlacedAt
<1>4. ASSUME NEW a \in DOMAIN s
      PROVE  \E k, l : /\ PlacedAt(h, it, k, l, s[a]) /\ Before(Spot(it, k, l), f)
                       /\ Before(Spot(it, k, l), p)
  <2>1. PICK k, l : PlacedAt(h, it, k, l, s[a]) /\ Before(Spot(it, k, l), it)
    BY DEF Returned
  <2>2. Before(Spot(it, k, l), p) /\ Before(Spot(it, k, l), f)
    BY <1>1, <2>1, BehindThePlace DEF PlacedAt
  <2>3. QED
    BY <2>1, <2>2
<1>5. \A a, b \in DOMAIN s : a # b => s[a] # s[b]
  BY DEF Returned
<1>6. ~OverSections(h, it) => Ordered(h, it, s)
  BY DEF Returned
<1>7. Returned(h, f, s)
  <2>1. Ordered(h, it, s) => Ordered(h, f, s)
    BY <1>3 DEF Ordered
  <2>2. QED
    BY <1>2, <1>3, <1>4, <1>5, <1>6, <2>1 DEF Returned
<1> DEFINE e == Append(s, n)
<1>8. /\ DOMAIN e = DOMAIN s \cup {Len(s) + 1} /\ e[Len(s) + 1] = n /\ Len(s) \in Nat
      /\ \A a \in DOMAIN s : e[a] = s[a]
      /\ DOMAIN s = 1 .. Len(s)
  OBVIOUS
<1> HIDE DEF e
<1>9. ASSUME Counted(h, p) PROVE Returned(h, f, e)
  <2>1. Holds(h, it, p.i, p.j) /\ p = Spot(it, p.i, p.j) /\ n = NodeAt(h, p)
    BY <1>9, ReadsHold
  <2>2. PlacedAt(h, it, p.i, p.j, n) /\ Before(Spot(it, p.i, p.j), f)
    BY <1>2, <2>1 DEF PlacedAt
  <2>3. ASSUME NEW a \in DOMAIN e
        PROVE  \E k, l : PlacedAt(h, it, k, l, e[a]) /\ Before(Spot(it, k, l), f)
    BY <1>4, <1>8, <2>2
  <2>4. ASSUME NEW a \in DOMAIN s PROVE s[a] # n
    <3>1. PICK k, l : PlacedAt(h, it, k, l, s[a]) /\ Before(Spot(it, k, l), p)
      BY <1>4
    <3>2. SUFFICES ASSUME s[a] = n PROVE FALSE
      OBVIOUS
    <3>3. k = p.i /\ l = p.j
      BY <2>2, <3>1, <3>2, PlaceIsUnique
    <3>4. p.i \in Nat /\ p.j \in Nat
      <4>1. it.i \in Nat /\ h[it.start].number \in Nat
        BY WellFormedUnfolds, NodeFields DEF OffsetsOK
      <4>2. p.i \in it.i .. h[it.start].number - 1 /\ p.j \in Nat
        BY <1>1 DEF PlaceOK
      <4>3. QED
        BY <4>1, <4>2
    <3>5. QED
      BY <3>1, <3>3, <3>4 DEF Before, Spot
  <2>5. \A a, b \in DOMAIN e : a # b => e[a] # e[b]
    BY <1>5, <1>8, <2>4
  <2>6. ASSUME ~OverSections(h, it), NEW a \in DOMAIN e, NEW b \in DOMAIN e, a < b
        PROVE  \E k, l, q, r : /\ PlacedAt(h, it, k, l, e[a]) /\ PlacedAt(h, it, q, r, e[b])
                               /\ Before(Spot(it, k, l), Spot(it, q, r))
    <3>1. a \in DOMAIN s
      BY <1>8, <2>6
    <3>2. CASE b \in DOMAIN s
      BY <1>6, <1>8, <2>6, <3>1, <3>2 DEF Ordered
    <3>3. CASE b = Len(s) + 1
      BY <1>4, <1>8, <2>1, <2>2, <3>1, <3>3
    <3>4. QED
      BY <1>8, <3>2, <3>3
  <2>7. ~OverSections(h, f) => Ordered(h, f, e)
    BY <1>2, <1>3, <2>6 DEF Ordered
  <2>8. QED
    BY <1>3, <2>3, <2>5, <2>7 DEF Returned
<1>10. QED
  BY <1>7, <1>9 DEF e

-----------------------------------------------------------------------------
(***************************************************************************)
(* The theorems.                                                           *)
(***************************************************************************)

\* What holds of an iterator that was created: its offsets can be used, what it is
\* still to return is ahead of it, and what it has returned of the children that count is
\* behind it, each of it once.
GoesOn(h, it, s, w) ==
    /\ OffsetsOK(h, it)
    /\ Awaits(h, it, w)
    /\ Returned(h, it, s)

\* The inductive invariant.
IterState ==
    /\ OrderlyState
    /\ seen \in Seq(DOMAIN heap)
    /\ IF iter = NoIterator THEN awaited = {}
       ELSE GoesOn(heap, iter, seen, awaited) /\ NothingMissed

\* The history is made of nodes of the AST, also when there are more of them.
LEMMA SeqGrows == ASSUME NEW D, NEW E, D \subseteq E, NEW s \in Seq(D) PROVE s \in Seq(E)
OBVIOUS

\* An iterator that is there has a node.
LEMMA StartIsNode ==
    ASSUME NEW h, WellFormed(h), NEW it, OffsetsOK(h, it)
    PROVE  it # NoIterator
<1>1. it.start \in DOMAIN h /\ NoNode \notin DOMAIN h
  BY NoNodeIsNoNode DEF OffsetsOK
<1>2. NoIterator.start = NoNode
  BY DEF NoIterator
<1>3. QED
  BY <1>1, <1>2

\* A new iterator has everything ahead of it.
LEMMA NewKeeps ==
    ASSUME IterState, NEW n \in Handles, New(n)
    PROVE  IterState'
<1>1. WellFormed(heap) /\ Orderly(heap) /\ n \in DOMAIN heap \cup {NoNode}
  BY DEF IterState, OrderlyState, SoundState, Handles
<1> DEFINE error == IteratorNewError(heap, n)
<1>2. error \in Errors \ {"UE_ITERATOR_END"}
  BY DEF IteratorNewError, NodeTypeError, Errors
<1>3. error = "UE_NONE" =>
          n \in DOMAIN heap /\ heap[n].kind \in {"ANT_CONFIG", "ANT_SECTION_NAME", "ANT_LIST"}
  BY <1>1 DEF IteratorNewError, NodeTypeError, PublicType
<1>4. heap' = heap /\ err' = error /\ OrderlyState'
  BY <1>1, <1>2 DEF New, OrderlyState, SoundState
<1>5. CASE error # "UE_NONE"
  <2>1. iter = NoIterator /\ UNCHANGED iterVars
    BY <1>5 DEF New
  <2>2. QED
    BY <1>4, <2>1 DEF IterState, iterVars
<1>6. CASE error = "UE_NONE"
  <2> DEFINE it == [start |-> n, i |-> 0, j |-> 0]
  <2>1. iter' = it /\ seen' = <<>> /\ awaited' = LiveChildren(heap, n)
    BY <1>6 DEF New
  <2>2. n \in DOMAIN heap /\ heap[n].kind \in {"ANT_CONFIG", "ANT_SECTION_NAME", "ANT_LIST"}
        /\ heap[n].number \in Nat
    BY <1>1, <1>3, <1>6, WellFormedUnfolds, NodeFields
  <2>3. it.start = n /\ it.i = 0 /\ it.j = 0 /\ it = [start |-> it.start, i |-> it.i, j |-> it.j]
    OBVIOUS
  <2> HIDE DEF it, error
  <2>4. OffsetsOK(heap, it)
    BY <2>2, <2>3 DEF OffsetsOK
  <2>5. ASSUME NEW t \in DOMAIN heap, heap[t].number \in Nat, NEW m \in KidSet(heap, t)
        PROVE  \E k \in 0 .. heap[t].number - 1 : m = Child(heap, t, k)
    <3>1. PICK k \in 1 .. heap[t].number : m = heap[t].children[k]
      BY <2>5 DEF KidSet
    <3>2. k - 1 \in 0 .. heap[t].number - 1 /\ m = Child(heap, t, k - 1)
      BY <2>5, <3>1 DEF Child
    <3>3. QED
      BY <3>2
  <2>6. ASSUME NEW m \in LiveChildren(heap, n)
        PROVE  /\ m \in DOMAIN heap /\ ~Deleted(heap, m)
               /\ \E k, l : /\ Holds(heap, it, k, l)
                            /\ ~Before(Spot(it, k, l), it)
                            /\ NodeAt(heap, Spot(it, k, l)) = m
    <3>1. ~Deleted(heap, m)
      BY DEF LiveChildren
    <3>2. \A k, l \in Nat : ~Before(Spot(it, k, l), it)
      BY <2>3, SpotOrder
    <3>3. CASE heap[n].kind = "ANT_CONFIG"
      <4>1. PICK t \in KidSet(heap, n) : m \in KidSet(heap, t)
        BY <3>3 DEF LiveChildren
      <4>2. PICK k \in 0 .. heap[n].number - 1 : t = Child(heap, n, k)
        BY <2>2, <2>5
      <4>3. t \in DOMAIN heap /\ heap[t].number \in Nat
        BY <1>1, <2>2, <4>2, ChildFacts
      <4>4. PICK l \in 0 .. heap[t].number - 1 : m = Child(heap, t, l)
        BY <2>5, <4>1, <4>3
      <4>5. k \in Nat /\ l \in Nat /\ l < heap[t].number
        BY <2>2, <4>3
      <4>6. Holds(heap, it, k, l)
        BY <2>3, <3>3, <4>2, <4>5 DEF Holds
      <4>7. NodeAt(heap, Spot(it, k, l)) = m
        BY <2>3, <3>3, <4>2, <4>4, SpotFacts
      <4>8. m \in DOMAIN heap
        BY <1>1, <4>3, <4>4, ChildFacts
      <4>9. QED
        BY <3>1, <3>2, <4>5, <4>6, <4>7, <4>8
    <3>4. CASE heap[n].kind # "ANT_CONFIG"
      <4>1. m \in KidSet(heap, n)
        BY <3>4 DEF LiveChildren
      <4>2. PICK k \in 0 .. heap[n].number - 1 : m = Child(heap, n, k)
        BY <2>2, <2>5, <4>1
      <4>3. Holds(heap, it, k, 0) /\ k \in Nat
        BY <2>2, <2>3, <3>4 DEF Holds
      <4>4. NodeAt(heap, Spot(it, k, 0)) = m
        BY <2>3, <3>4, <4>2, SpotFacts
      <4>5. m \in DOMAIN heap
        BY <1>1, <2>2, <4>2, ChildFacts
      <4>6. QED
        BY <3>1, <3>2, <4>3, <4>4, <4>5
    <3>5. QED
      BY <3>3, <3>4
  <2>7. Awaits(heap, it, LiveChildren(heap, n))
    BY <2>6 DEF Awaits
  <2>8. Returned(heap, it, <<>>)
    BY DEF Returned, Ordered
  <2>9. GoesOn(heap, it, <<>>, LiveChildren(heap, n))
    BY <2>4, <2>7, <2>8 DEF GoesOn
  <2>10. seen' \in Seq(DOMAIN heap') /\ it # NoIterator
    BY <1>1, <2>1, <2>4, StartIsNode
  <2>11. QED
    BY <1>4, <1>6, <2>1, <2>9, <2>10 DEF IterState, NothingMissed, error
<1>7. QED
  BY <1>5, <1>6

\* uci2_node_iterator_next moves on in the order of the places.
LEMMA StepKeeps ==
    ASSUME IterState, Step
    PROVE  IterState'
<1>1. WellFormed(heap) /\ Orderly(heap) /\ seen \in Seq(DOMAIN heap)
  BY DEF IterState, OrderlyState, SoundState
<1>2. PICK r \in IteratorNext(heap, iter) :
          /\ iter # NoIterator
          /\ err' = r.err
          /\ iter' = r.iter
          /\ seen' = IF r.counted /\ Len(seen) <= Len(heap) THEN Append(seen, r.out) ELSE seen
          /\ awaited' = awaited \ {r.out}
          /\ heap' = heap
  BY DEF Step
<1>3. GoesOn(heap, iter, seen, awaited) /\ NothingMissed
  BY <1>2 DEF IterState
<1>4. OffsetsOK(heap, iter) /\ Awaits(heap, iter, awaited)
  BY <1>3 DEF GoesOn
<1>5. SUFFICES /\ r.err \in Errors /\ seen' \in Seq(DOMAIN heap)
               /\ GoesOn(heap, r.iter, seen', awaited')
               /\ r.err = "UE_ITERATOR_END" => awaited' = {}
  <2>1. ASSUME r.err \in Errors, seen' \in Seq(DOMAIN heap),
               GoesOn(heap, r.iter, seen', awaited'),
               r.err = "UE_ITERATOR_END" => awaited' = {}
        PROVE  IterState'
    <3>1. iter' # NoIterator
      BY <1>1, <1>2, <2>1, StartIsNode DEF GoesOn
    <3>2. OrderlyState'
      BY <1>1, <1>2, <2>1 DEF OrderlyState, SoundState
    <3>3. NothingMissed'
      BY <1>2, <2>1 DEF NothingMissed
    <3>4. QED
      BY <1>2, <2>1, <3>1, <3>2, <3>3 DEF IterState
  <2>2. QED
    BY <2>1
<1>6. CASE Stopped(heap, iter, r)
  <2>1. PICK p \in Reads(heap, iter) : /\ StopsAt(heap, iter, p)
                                       /\ r.out \in NodesAt(heap, p)
                                       /\ r.iter = After(heap, p)
                                       /\ r.counted => Counted(heap, p)
    BY <1>6 DEF Stopped
  <2>2. r.err = "UE_NONE"
    BY <1>6 DEF Stopped
  <2>3. PlaceOK(heap, iter, p)
    BY <1>1, <1>4, ReadsFacts
  <2>4. OffsetsOK(heap, r.iter) /\ r.iter.start = iter.start
    BY <1>1, <1>4, <2>1, <2>3, AfterFacts
  <2>5. r.out \in DOMAIN heap
    BY <1>1, <1>4, <2>1, <2>3, NodesAtFacts
  <2>6. /\ seen' \in Seq(DOMAIN heap)
        /\ seen' = seen \/ (r.counted /\ seen' = Append(seen, r.out))
    <3>1. seen' = seen \/ (r.counted /\ seen' = Append(seen, r.out))
      BY <1>2
    <3>2. Append(seen, r.out) \in Seq(DOMAIN heap)
      BY <1>1, <2>5
    <3>3. QED
      BY <1>1, <3>1, <3>2
  <2>7. Awaits(heap, r.iter, awaited')
    BY <1>1, <1>2, <1>4, <2>1, StopsKeepWaiting
  <2>8. Returned(heap, r.iter, seen')
    <3>1. Returned(heap, iter, seen)
      BY <1>3 DEF GoesOn
    <3>2. /\ Returned(heap, r.iter, seen)
          /\ r.counted => Returned(heap, r.iter, Append(seen, r.out))
      BY <1>1, <1>4, <2>1, <3>1, StopsKeepOrder
    <3>3. QED
      BY <2>6, <3>2
  <2>9. QED
    BY <2>2, <2>4, <2>6, <2>7, <2>8 DEF GoesOn, Errors
<1>7. CASE Ended(heap, iter, r)
  <2>1. OffsetsOK(heap, r.iter) /\ r.iter.start = iter.start /\ r.iter.i = heap[iter.start].number
    BY <1>1, <1>4, <1>7, EndOK
  <2>2. awaited = {} /\ awaited' = {}
    BY <1>1, <1>2, <1>4, <1>7, EndsWithNothingWaiting DEF Ended
  <2>3. r.err = "UE_ITERATOR_END" /\ seen' = seen
    BY <1>2, <1>7 DEF Ended
  <2>4. OverSections(heap, r.iter) <=> OverSections(heap, iter)
    BY <2>1 DEF OverSections
  <2>5. Returned(heap, iter, seen) => Returned(heap, r.iter, seen)
    <3>1. \A k, l : /\ Spot(r.iter, k, l) = Spot(iter, k, l)
                    /\ Holds(heap, r.iter, k, l) <=> Holds(heap, iter, k, l)
      BY <2>1, SameStart
    <3>2. ASSUME NEW k, NEW l, Holds(heap, iter, k, l)
          PROVE  Before(Spot(iter, k, l), r.iter)
      <4>1. heap[iter.start].number \in Nat
        BY <1>1, <1>4, WellFormedUnfolds, NodeFields DEF OffsetsOK
      <4>2. k \in 0 .. heap[iter.start].number - 1
        BY <3>2 DEF Holds
      <4>3. k < r.iter.i
        BY <2>1, <4>1, <4>2
      <4>4. QED
        BY <4>3, SpotOrder
    <3>3. \A k, l, m : /\ PlacedAt(heap, r.iter, k, l, m) <=> PlacedAt(heap, iter, k, l, m)
                       /\ PlacedAt(heap, iter, k, l, m) => Before(Spot(iter, k, l), r.iter)
      BY <3>1, <3>2 DEF PlacedAt
    <3>4. Ordered(heap, iter, seen) => Ordered(heap, r.iter, seen)
      BY <3>1, <3>3 DEF Ordered
    <3>5. QED
      BY <2>4, <3>1, <3>3, <3>4 DEF Returned
  <2>6. Awaits(heap, r.iter, awaited')
    BY <2>2 DEF Awaits
  <2>7. QED
    BY <1>1, <1>3, <2>1, <2>2, <2>3, <2>4, <2>5, <2>6 DEF GoesOn, Errors
<1>8. CASE Refused(iter, r)
  <2>1. r.err \in Errors \ {"UE_NONE", "UE_ITERATOR_END"} /\ r.iter = iter /\ seen' = seen
    BY <1>2, <1>8 DEF Refused
  <2>2. Awaits(heap, iter, awaited')
    BY <1>2, <1>4 DEF Awaits
  <2>3. QED
    BY <1>1, <1>3, <2>1, <2>2 DEF GoesOn
<1>9. QED
  BY <1>2, <1>6, <1>7, <1>8, OutcomeFacts

\* A call of the node API other than uci2_node_section_type_set leaves the iterator what
\* it had, but for the nodes it deletes.
LEMMA MeanwhileKeeps ==
    ASSUME IterState, NEW n \in Handles,
           Meanwhile(EditLines(n) \/ EditSections(n) \/ RemoveNode(n))
    PROVE  IterState'
<1> DEFINE w == {m \in awaited : ~Deleted(heap', m)}
<1>1. WellFormed(heap) /\ Orderly(heap) /\ SoundState
  BY DEF IterState, OrderlyState, SoundState
<1>2. /\ EditLines(n) \/ EditSections(n) \/ RemoveNode(n)
      /\ awaited' = w /\ iter' = iter /\ seen' = seen
  BY DEF Meanwhile
<1>3. ArraysExtend(heap, heap') /\ err' # "UE_ITERATOR_END"
  BY <1>1, <1>2, CallsExtend
<1>4. OrderlyState'
  <2>1. Next
    BY <1>2 DEF Next
  <2>2. QED
    BY <1>1, <2>1, NextIsSound, NextIsOrderly DEF OrderlyState
<1>5. seen' \in Seq(DOMAIN heap')
  <2>1. DOMAIN heap \subseteq DOMAIN heap'
    BY <1>3 DEF ArraysExtend, TypesStayDeleted
  <2>2. QED
    BY <1>2, <2>1, SeqGrows DEF IterState
<1> HIDE DEF w
<1>6. CASE iter = NoIterator
  <2>1. awaited' = {}
    BY <1>2, <1>6 DEF IterState, w
  <2>2. QED
    BY <1>2, <1>4, <1>5, <1>6, <2>1 DEF IterState
<1>7. CASE iter # NoIterator
  <2>1. GoesOn(heap, iter, seen, awaited)
    BY <1>7 DEF IterState
  <2>2. ArraysGrow(heap, heap')
    BY <1>1, <1>3, ExtendIsGrow
  <2>3. OffsetsOK(heap', iter)
    BY <1>1, <2>1, <2>2, OffsetsStay DEF GoesOn
  <2>4. Awaits(heap', iter, w)
    BY <1>1, <1>3, <2>1, <2>2, ExtendsKeepHistory DEF GoesOn, w
  <2>5. Returned(heap', iter, seen)
    BY <1>1, <2>1, <2>2, GrowingKeepsOrder DEF GoesOn
  <2>6. NothingMissed'
    BY <1>3 DEF NothingMissed
  <2>7. GoesOn(heap', iter, seen, w)
    BY <2>3, <2>4, <2>5 DEF GoesOn
  <2>8. QED
    BY <1>2, <1>4, <1>5, <1>7, <2>6, <2>7 DEF IterState
<1>8. QED
  BY <1>6, <1>7

\* uci2_node_section_type_set moves sections about, but leaves the offsets usable.
LEMMA RetypeKeeps ==
    ASSUME IterState, NEW n \in Handles, RetypeMeanwhile(n)
    PROVE  IterState'
<1>1. WellFormed(heap) /\ Orderly(heap) /\ SoundState
  BY DEF IterState, OrderlyState, SoundState
<1>2. /\ RetypeSection(n) /\ iter' = iter /\ seen' = seen
      /\ awaited' = IF iter # NoIterator /\ heap[iter.start].kind = "ANT_CONFIG" THEN {}
                    ELSE {m \in awaited : ~Deleted(heap', m)}
  BY DEF RetypeMeanwhile
<1>3. ArraysGrow(heap, heap') /\ err' # "UE_ITERATOR_END"
  BY <1>1, <1>2, RetypingGrows
<1>4. OrderlyState'
  <2>1. Next
    BY <1>2 DEF Next
  <2>2. QED
    BY <1>1, <2>1, NextIsSound, NextIsOrderly DEF OrderlyState
<1>5. seen' \in Seq(DOMAIN heap')
  <2>1. DOMAIN heap \subseteq DOMAIN heap'
    BY <1>3 DEF ArraysGrow, TypesStayDeleted
  <2>2. QED
    BY <1>2, <2>1, SeqGrows DEF IterState
<1>6. CASE iter = NoIterator
  <2>1. awaited' = {}
    BY <1>2, <1>6 DEF IterState
  <2>2. QED
    BY <1>2, <1>4, <1>5, <1>6, <2>1 DEF IterState
<1>7. CASE iter # NoIterator
  <2>1. GoesOn(heap, iter, seen, awaited)
    BY <1>7 DEF IterState
  <2>2. OffsetsOK(heap', iter)
    BY <1>1, <1>3, <2>1, OffsetsStay DEF GoesOn
  <2>3. Awaits(heap', iter, awaited')
    <3>1. CASE OverSections(heap, iter)
      <4>1. awaited' = {}
        BY <1>2, <1>7, <3>1 DEF OverSections
      <4>2. QED
        BY <4>1 DEF Awaits
    <3>2. CASE ~OverSections(heap, iter)
      <4> DEFINE w == {m \in awaited : ~Deleted(heap', m)}
      <4>1. awaited' = w
        BY <1>2, <3>2 DEF OverSections
      <4>2. Awaits(heap', iter, w)
        BY <1>1, <1>3, <2>1, <3>2, ExtendsKeepHistory DEF GoesOn
      <4> HIDE DEF w
      <4>3. QED
        BY <4>1, <4>2
    <3>3. QED
      BY <3>1, <3>2
  <2>4. Returned(heap', iter, seen)
    BY <1>1, <1>3, <2>1, GrowingKeepsOrder DEF GoesOn
  <2>5. NothingMissed'
    BY <1>3 DEF NothingMissed
  <2>6. GoesOn(heap', iter, seen, awaited')
    BY <2>2, <2>3, <2>4 DEF GoesOn
  <2>7. QED
    BY <1>2, <1>4, <1>5, <1>7, <2>5, <2>6 DEF IterState
<1>8. QED
  BY <1>6, <1>7

\* All steps keep the invariant.
LEMMA IterNextKeeps == IterState /\ [IterNext]_allVars => IterState'
<1> SUFFICES ASSUME IterState, [IterNext]_allVars PROVE IterState'
  OBVIOUS
<1>1. ASSUME NEW n \in Handles, New(n) PROVE IterState'
  BY <1>1, NewKeeps
<1>2. CASE Step
  BY <1>2, StepKeeps
<1>3. CASE Destroy
  BY <1>3 DEF Destroy, IterState, OrderlyState, SoundState, vars
<1>4. ASSUME NEW n \in Handles, Meanwhile(EditLines(n) \/ EditSections(n) \/ RemoveNode(n))
      PROVE  IterState'
  BY <1>4, MeanwhileKeeps
<1>5. ASSUME NEW n \in Handles, RetypeMeanwhile(n) PROVE IterState'
  BY <1>5, RetypeKeeps
<1>6. CASE UNCHANGED allVars
  BY <1>6 DEF allVars, vars, iterVars, IterState, OrderlyState, SoundState, NothingMissed
<1>7. QED
  BY <1>1, <1>2, <1>3, <1>4, <1>5, <1>6 DEF IterNext, Iterate

\* Whatever a client calls while it iterates, the iterator goes on soundly.
THEOREM IterationIsSound == IterSpec => []IterState
<1>1. IterInit => IterState
  <2>1. ASSUME IterInit PROVE IterState
    <3>1. OrderlyState
      BY <2>1, InitIsSound, InitialAstsAssumption DEF IterInit, Init, OrderlyState
    <3>2. seen \in Seq(DOMAIN heap)
      BY <2>1 DEF IterInit
    <3>3. QED
      BY <2>1, <3>1, <3>2 DEF IterInit, IterState
  <2>2. QED
    BY <2>1
<1>2. QED
  BY <1>1, IterNextKeeps, PTL DEF IterSpec

\* The iterator's offsets stay usable while the AST changes around it, and its history
\* holds nodes of the AST.
THEOREM IterTypeCorrect == IterSpec => []IterTypeOK
<1>1. IterState => IterTypeOK
  <2> SUFFICES ASSUME IterState PROVE IterTypeOK
    OBVIOUS
  <2>1. CASE iter = NoIterator
    <3>1. iter.start = NoNode /\ Deleted(heap, NoNode) \in BOOLEAN
      BY <2>1 DEF NoIterator, Deleted
    <3>2. QED
      BY <2>1, <3>1 DEF IterState, IterTypeOK, Iterating
  <2>2. CASE iter # NoIterator
    <3>1. OffsetsOK(heap, iter) /\ Awaits(heap, iter, awaited)
      BY <2>2 DEF IterState, GoesOn
    <3>2. WellFormed(heap)
      BY DEF IterState, OrderlyState, SoundState
    <3>3. heap[iter.start].number \in Nat
      BY <3>1, <3>2, WellFormedUnfolds, NodeFields DEF OffsetsOK
    <3>4. iter.i \in 0 .. heap[iter.start].number
      BY <3>1, <3>3 DEF OffsetsOK
    <3>5. QED
      BY <3>1, <3>4 DEF IterState, IterTypeOK, OffsetsOK, Awaits
  <2>3. QED
    BY <2>1, <2>2
<1>2. QED
  BY <1>1, IterationIsSound, PTL

\* The loops of uci2_node_iterator_next, which read before they compare the offset with
\* the count, read beyond an array only where the section type the iterator stands in was
\* emptied.
THEOREM ReadsStayInside == IterSpec => []ReadsInsideUnlessRevived
<1>1. IterState => ReadsInsideUnlessRevived
  <2> SUFFICES ASSUME IterState, Iterating, OverSections(heap, iter),
                      NEW p \in Reads(heap, iter)
               PROVE  \/ InArray(heap, p)
                      \/ p.i = iter.i /\ Deleted(heap, Child(heap, iter.start, iter.i))
    BY DEF ReadsInsideUnlessRevived
  <2>1. WellFormed(heap) /\ Orderly(heap) /\ OffsetsOK(heap, iter)
    BY DEF IterState, OrderlyState, SoundState, GoesOn, Iterating
  <2>2. PlaceOK(heap, iter, p)
    BY <2>1, ReadsFacts
  <2> DEFINE t == Child(heap, iter.start, p.i)
  <2>3. CASE p.j < heap[t].number \/ p.j = 0
    BY <2>1, <2>2, <2>3, NodesAtFacts
  <2>4. CASE p.i = iter.i /\ p.j = iter.j /\ heap[t].number <= iter.j /\ p.j # 0
    <3>1. iter.j # 0
      BY <2>4
    <3>2. \/ Deleted(heap, Child(heap, iter.start, iter.i))
          \/ iter.j < heap[Child(heap, iter.start, iter.i)].number
      BY <2>1, <3>1 DEF OffsetsOK
    <3>3. iter.j < heap[t].number => FALSE
      <4>1. iter.i \in Nat /\ heap[iter.start].number \in Nat /\ iter.start \in DOMAIN heap
            /\ iter.j \in Nat
        BY <2>1, WellFormedUnfolds, NodeFields DEF OffsetsOK
      <4>2. p.i \in 0 .. heap[iter.start].number - 1
        BY <2>2, <4>1 DEF PlaceOK
      <4>3. heap[t].number \in Nat
        BY <2>1, <4>1, <4>2, ChildFacts
      <4>4. QED
        BY <2>4, <4>1, <4>3
    <3>4. QED
      BY <2>4, <3>2, <3>3
  <2>5. QED
    BY <2>2, <2>3, <2>4 DEF PlaceOK, OverSections
<1>2. QED
  BY <1>1, IterationIsSound, PTL

\* An iteration that ends by UE_ITERATOR_END has returned every child that was there when
\* it began and was not deleted meanwhile, whatever was added; over the sections, as long
\* as none was retyped.
THEOREM NothingIsMissed == IterSpec => []NothingMissed
<1>1. IterState => NothingMissed
  BY DEF IterState, NothingMissed
<1>2. QED
  BY <1>1, IterationIsSound, PTL

\* The iterator over options, lists or list elements returns them in their order in the
\* AST, and none of them twice, whatever the client adds or removes.
THEOREM LinesComeInOrder == IterSpec => []InOrder
<1>1. IterState => InOrder
  <2> SUFFICES ASSUME IterState, Iterating, ~OverSections(heap, iter),
                      NEW a \in DOMAIN seen, NEW b \in DOMAIN seen, a < b
               PROVE  \E k, l \in 1 .. heap[iter.start].number :
                         /\ k < l
                         /\ heap[iter.start].children[k] = seen[a]
                         /\ heap[iter.start].children[l] = seen[b]
    BY DEF InOrder
  <2>1. WellFormed(heap) /\ OffsetsOK(heap, iter) /\ Returned(heap, iter, seen)
    BY DEF IterState, OrderlyState, SoundState, GoesOn, Iterating
  <2>2. PICK k, l, q, r : /\ PlacedAt(heap, iter, k, l, seen[a])
                          /\ PlacedAt(heap, iter, q, r, seen[b])
                          /\ Before(Spot(iter, k, l), Spot(iter, q, r))
    BY <2>1 DEF Returned, Ordered
  <2>3. /\ k \in 0 .. heap[iter.start].number - 1 /\ l = 0
        /\ q \in 0 .. heap[iter.start].number - 1 /\ r = 0
    BY <2>2 DEF PlacedAt, Holds, OverSections
  <2>4. Child(heap, iter.start, k) = seen[a] /\ Child(heap, iter.start, q) = seen[b]
    BY <2>2, SpotFacts DEF PlacedAt, OverSections
  <2>5. heap[iter.start].number \in Nat
    BY <2>1, WellFormedUnfolds, NodeFields DEF OffsetsOK
  <2>6. k < q
    BY <2>2, <2>3 DEF Before, Spot
  <2>7. k + 1 \in 1 .. heap[iter.start].number /\ q + 1 \in 1 .. heap[iter.start].number
        /\ k + 1 < q + 1
    BY <2>3, <2>5, <2>6
  <2>8. QED
    BY <2>4, <2>7 DEF Child
<1>2. QED
  BY <1>1, IterationIsSound, PTL

\* The iterator over the sections finds none of them twice among those its type counts,
\* wherever ast_node_merge takes them meanwhile.
THEOREM SectionsComeOnce == IterSpec => []SectionsOnce
<1>1. IterState => SectionsOnce
  BY DEF IterState, SectionsOnce, GoesOn, Returned, Iterating
<1>2. QED
  BY <1>1, IterationIsSound, PTL

\* The client TLC checks is one of these clients.
THEOREM ArraysSpecIsIterSpec == ArraysSpec => IterSpec
<1>1. ArraysNext => IterNext
  BY DEF ArraysNext, IterNext, Meanwhile, EditArrays, EditLines, EditSections
<1>2. QED
  BY <1>1, PTL DEF ArraysSpec, IterSpec

=============================================================================
