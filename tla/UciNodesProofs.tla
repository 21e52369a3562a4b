--------------------------- MODULE UciNodesProofs ---------------------------
(***************************************************************************)
(* Theorems about the node API: whatever a client calls, the heap stays    *)
(* well-formed, and a deleted line stays deleted.  The inductive invariant *)
(* is WellFormed(heap) /\ err \in Errors: none of the four parts of        *)
(* WellFormed is inductive alone, since a layer decides what a name may be *)
(* and where a pointer may lead, and what a merge does to the arrays is    *)
(* known only of arrays that share no node.                                *)
(***************************************************************************)
EXTENDS UciNodesProps, UciAstProofs

\* What no call does to the nodes that were there before it: their kinds stay,
\* and the deleted lines stay deleted.
Keeps(h, g) ==
    /\ DOMAIN h \subseteq DOMAIN g
    /\ \A n \in DOMAIN h :
          /\ g[n].kind = h[n].kind
          /\ h[n].kind \in LineKinds /\ h[n].parent = NoNode => g[n].parent = NoNode

\* Two steps that keep the nodes keep them together.
LEMMA KeepsIsTransitive ==
    ASSUME NEW f, NEW g, NEW h, Keeps(f, g), Keeps(g, h)
    PROVE  Keeps(f, h)
BY DEF Keeps

\* A heap keeps its own nodes.
LEMMA KeepsIsReflexive == ASSUME NEW h PROVE Keeps(h, h)
BY DEF Keeps

\* The result of a call that found h is sound when the heap it leaves is
\* well-formed and the nodes that were there are kept.
SoundResult(h, r) ==
    /\ r = Result(r.heap, r.err, r.out)
    /\ WellFormed(r.heap)
    /\ r.err \in Errors
    /\ Keeps(h, r.heap)

\* Result, Success and Failure are records with the fields they are given.
LEMMA ResultFacts ==
    ASSUME NEW h, NEW error, NEW node
    PROVE  /\ Success(h, node).heap = h /\ Success(h, node).err = "UE_NONE"
           /\ Success(h, node).out = node
           /\ Failure(h, error).heap = h /\ Failure(h, error).err = error
           /\ Success(h, node) = Result(Success(h, node).heap, Success(h, node).err,
                                        Success(h, node).out)
           /\ Failure(h, error) = Result(Failure(h, error).heap, Failure(h, error).err,
                                         Failure(h, error).out)
BY DEF Success, Failure, Result

\* The arguments a handle or a call is refused for, and what is known of the
\* others.
LEMMA HandleErrorFacts ==
    ASSUME NEW h, NEW n, NEW type
    PROVE  /\ HandleError(h, n, type) \in Errors
           /\ HandleError(h, n, type) = "UE_NONE" =>
                 /\ n # NoNode /\ h[n].parent # NoNode
                 /\ type = "UNT_ROOT" => h[n].kind = "ANT_CONFIG"
                 /\ type = "UNT_SECTION" => h[n].kind = "ANT_SECTION_NAME"
                 /\ type = "UNT_OPTION" => h[n].kind = "ANT_OPTION"
                 /\ type = "UNT_LIST" => h[n].kind = "ANT_LIST"
                 /\ type = "UNT_LIST_ELEMENT" => h[n].kind = "ANT_LIST_ITEM"
BY DEF HandleError, NodeTypeError, Deleted, PublicType, Errors

\* What the argument checks return is an error code, and UE_NONE only for a live
\* node of the type that is wanted and strings that are there.
LEMMA CallErrorFacts ==
    ASSUME NEW h, NEW n, NEW strings, NEW type
    PROVE  /\ CallError(h, n, strings, type) \in Errors
           /\ CallError(h, n, strings, type) = "UE_NONE" =>
                 HandleError(h, n, type) = "UE_NONE" /\ NoString \notin strings
<1>1. HandleError(h, n, type) \in Errors
  BY HandleErrorFacts
<1>2. QED
  BY <1>1 DEF CallError, Errors

\* A handle of a well-formed heap that passed the checks is a node of it.
LEMMA HandlePassed ==
    ASSUME NEW h, NEW n \in DOMAIN h \cup {NoNode}, NEW strings, NEW type,
           CallError(h, n, strings, type) = "UE_NONE"
    PROVE  n \in DOMAIN h /\ h[n].parent # NoNode
BY CallErrorFacts, HandleErrorFacts

-----------------------------------------------------------------------------
(***************************************************************************)
(* The functions that set an attribute.                                    *)
(***************************************************************************)

\* A call that fails leaves a well-formed heap as it was.
LEMMA FailureIsSound ==
    ASSUME NEW h, WellFormed(h), NEW error \in Errors
    PROVE  SoundResult(h, Failure(h, error))
BY ResultFacts, KeepsIsReflexive DEF SoundResult

\* A NULL node is not a node of the AST.
LEMMA NoNodeIsNoNode == ASSUME NEW h, WellFormed(h) PROVE NoNode \notin DOMAIN h
BY WellFormedUnfolds DEF NoNode

\* Whatever naming a section, an option or a list returns, the heap stays well-formed.
LEMMA NameSetIsSound ==
    ASSUME NEW h, WellFormed(h), NEW n \in DOMAIN h \cup {NoNode},
           NEW name \in Strings \cup {NoString},
           NEW type \in {"UNT_SECTION", "UNT_OPTION", "UNT_LIST"},
           NEW r, r = NameSet(h, n, name, type)
    PROVE  SoundResult(h, r)
<1> DEFINE error == CallError(h, n, {name}, type)
<1> DEFINE g == [h EXCEPT ![n].name = name]
<1>1. r = IF error # "UE_NONE" THEN Failure(h, error)
          ELSE IF NameTaken(h, n, name) THEN Failure(h, "UE_NODE_DUPLICATE")
          ELSE Success(g, NoNode)
  BY DEF NameSet
<1>2. error \in Errors /\ "UE_NODE_DUPLICATE" \in Errors /\ "UE_NONE" \in Errors
  BY CallErrorFacts DEF Errors
<1>3. CASE error = "UE_NONE"
  <2>1. n \in DOMAIN h /\ h[n].kind # "ANT_SECTION_TYPE"
    BY <1>3, HandlePassed, CallErrorFacts, HandleErrorFacts
  <2> HIDE DEF g
  <2>2. WellFormed(g) /\ Keeps(h, g)
    BY <2>1, NamedIsWellFormed DEF Keeps, g
  <2>3. SoundResult(h, Success(g, NoNode))
    BY <1>2, <2>2, ResultFacts DEF SoundResult
  <2>4. QED
    BY <1>1, <1>2, <1>3, <2>3, FailureIsSound
<1>4. CASE error # "UE_NONE"
  BY <1>1, <1>2, <1>4, FailureIsSound
<1>5. QED
  BY <1>3, <1>4

\* Whatever uci2_node_option_value_set returns, the heap it leaves behind is well-formed.
LEMMA OptionValueSetIsSound ==
    ASSUME NEW h, WellFormed(h), NEW n \in DOMAIN h \cup {NoNode},
           NEW value \in Strings \cup {NoString}, NEW r, r = OptionValueSet(h, n, value)
    PROVE  SoundResult(h, r)
<1> DEFINE error == CallError(h, n, {value}, "UNT_OPTION")
<1> DEFINE g == [h EXCEPT ![n].value = value]
<1>1. r = IF error # "UE_NONE" THEN Failure(h, error) ELSE Success(g, NoNode)
  BY DEF OptionValueSet
<1>2. error \in Errors /\ "UE_NONE" \in Errors
  BY CallErrorFacts DEF Errors
<1>3. CASE error = "UE_NONE"
  <2>1. n \in DOMAIN h
    BY <1>3, HandlePassed
  <2> HIDE DEF g
  <2>2. WellFormed(g) /\ Keeps(h, g)
    BY <2>1, ValuedIsWellFormed DEF Keeps, g
  <2>3. SoundResult(h, Success(g, NoNode))
    BY <1>2, <2>2, ResultFacts DEF SoundResult
  <2>4. QED
    BY <1>1, <1>3, <2>3
<1>4. CASE error # "UE_NONE"
  BY <1>1, <1>2, <1>4, FailureIsSound
<1>5. QED
  BY <1>3, <1>4

\* Whatever uci2_node_list_element_value_set returns, the heap it leaves behind is well-formed.
LEMMA ListElementValueSetIsSound ==
    ASSUME NEW h, WellFormed(h), NEW n \in DOMAIN h \cup {NoNode},
           NEW value \in Strings \cup {NoString}, NEW r, r = ListElementValueSet(h, n, value)
    PROVE  SoundResult(h, r)
<1> DEFINE error == CallError(h, n, {value}, "UNT_LIST_ELEMENT")
<1> DEFINE g == [h EXCEPT ![n].name = value]
<1>1. r = IF error # "UE_NONE" THEN Failure(h, error) ELSE Success(g, NoNode)
  BY DEF ListElementValueSet
<1>2. error \in Errors /\ "UE_NONE" \in Errors
  BY CallErrorFacts DEF Errors
<1>3. CASE error = "UE_NONE"
  <2>1. n \in DOMAIN h /\ h[n].kind # "ANT_SECTION_TYPE"
    BY <1>3, HandlePassed, CallErrorFacts, HandleErrorFacts
  <2> HIDE DEF g
  <2>2. WellFormed(g) /\ Keeps(h, g)
    BY <2>1, NamedIsWellFormed DEF Keeps, g
  <2>3. SoundResult(h, Success(g, NoNode))
    BY <1>2, <2>2, ResultFacts DEF SoundResult
  <2>4. QED
    BY <1>1, <1>3, <2>3
<1>4. CASE error # "UE_NONE"
  BY <1>1, <1>2, <1>4, FailureIsSound
<1>5. QED
  BY <1>3, <1>4

\* Whatever uci2_node_remove returns, the heap it leaves behind is well-formed.
LEMMA NodeRemoveIsSound ==
    ASSUME NEW h, WellFormed(h), NEW n \in DOMAIN h \cup {NoNode}, NEW g, g = NodeRemove(h, n)
    PROVE  WellFormed(g) /\ Keeps(h, g)
<1>1. CASE n = NoNode
  BY <1>1, KeepsIsReflexive DEF NodeRemove
<1>2. CASE n # NoNode
  <2>1. n \in DOMAIN h /\ g = [h EXCEPT ![n].parent = NoNode]
    BY <1>2 DEF NodeRemove
  <2>2. /\ WellFormed(g) /\ DOMAIN g = DOMAIN h
        /\ \A m \in DOMAIN h : g[m].kind = h[m].kind /\ g[m].parent \in {h[m].parent, NoNode}
    BY <2>1, RemovedIsWellFormed
  <2>3. QED
    BY <2>2 DEF Keeps
<1>3. QED
  BY <1>1, <1>2

-----------------------------------------------------------------------------
(***************************************************************************)
(* uci2_node_section_type_set.                                             *)
(***************************************************************************)

\* The parent of a live section is a section type, and the parent of a section
\* type that is not deleted is a config node.
LEMMA ParentKinds ==
    ASSUME NEW h, WellFormed(h), NEW n \in DOMAIN h, h[n].parent # NoNode
    PROVE  /\ h[n].kind = "ANT_SECTION_NAME" =>
                 h[n].parent \in DOMAIN h /\ h[h[n].parent].kind = "ANT_SECTION_TYPE"
           /\ h[n].kind = "ANT_SECTION_TYPE" =>
                 h[n].parent \in DOMAIN h /\ h[h[n].parent].kind = "ANT_CONFIG"
<1> DEFINE p == h[n].parent
<1>1. TypedNode(h, n) /\ LayeredNode(h, n) /\ p \in DOMAIN h \cup {NoNode, Pool}
  BY WellFormedUnfolds, NodeFields
<1>2. h[n].kind \notin PoolKinds => p \in DOMAIN h /\ h[n].kind \in ChildKinds(h[p].kind)
  BY <1>1 DEF LayeredNode
<1>3. \A kind : "ANT_SECTION_NAME" \in ChildKinds(kind) => kind = "ANT_SECTION_TYPE"
  BY DEF ChildKinds
<1>4. \A kind : "ANT_SECTION_TYPE" \in ChildKinds(kind) => kind = "ANT_CONFIG"
  BY DEF ChildKinds
<1>5. QED
  BY <1>2, <1>3, <1>4 DEF PoolKinds

\* The second half of uci2_node_section_type_set, which gives an unnamed section
\* a new name.
Renumbered(g, n) ==
    LET config == g[g[n].parent].parent
    IN  Asserted([g EXCEPT ![n].name = Placeholder], config,
                 LAMBDA f : UnnamedSectionNameSet(f, config))

\* The end of uci2_node_section_type_set, where the section waits for a name
\* and unnamed_section_name_set gives it one, keeps a heap well-formed.
LEMMA RenumberedIsSound ==
    ASSUME NEW g, WellFormed(g), NEW n \in DOMAIN g, g[n].parent # NoNode,
           g[n].kind = "ANT_SECTION_NAME", NEW r, r = Renumbered(g, n)
    PROVE  SoundResult(g, r)
<1> DEFINE c == g[g[n].parent].parent
<1> DEFINE f == [g EXCEPT ![n].name = Placeholder]
<1> DEFINE e == UnnamedSectionNameSet(f, c)
<1>1. r = IF c = NoNode \/ Deleted(f, c) THEN Failure(f, "ABORTED") ELSE Success(e, NoNode)
  BY DEF Renumbered, Asserted
<1>2. Placeholder \in Strings
  BY DEF Strings, AtNames
<1> HIDE DEF f
<1>3. /\ WellFormed(f) /\ DOMAIN f = DOMAIN g
      /\ \A m \in DOMAIN g : f[m].kind = g[m].kind /\ f[m].parent = g[m].parent
  BY <1>2, NamedIsWellFormed DEF f
<1>4. Keeps(g, f)
  BY <1>3 DEF Keeps
<1>5. "ABORTED" \in Errors /\ "UE_NONE" \in Errors
  BY DEF Errors
<1>6. CASE c # NoNode /\ ~ Deleted(f, c)
  <2>1. c \in DOMAIN f /\ f[c].kind = "ANT_CONFIG"
    BY <1>3, <1>6, ParentKinds
  <2> HIDE DEF c, e
  <2>2. WellFormed(e) /\ Keeps(f, e)
    BY <1>3, <2>1, NumberedIsWellFormed DEF Keeps, e
  <2>3. Keeps(g, e)
    BY <1>4, <2>2, KeepsIsTransitive
  <2>4. QED
    BY <1>1, <1>5, <1>6, <2>2, <2>3, ResultFacts DEF SoundResult
<1>7. CASE c = NoNode \/ Deleted(f, c)
  BY <1>1, <1>3, <1>4, <1>5, <1>7, ResultFacts DEF SoundResult
<1>8. QED
  BY <1>6, <1>7

\* Whatever uci2_node_section_type_set returns, the heap it leaves behind is well-formed.
LEMMA SectionTypeSetIsSound ==
    ASSUME NEW h, WellFormed(h), NEW n \in DOMAIN h \cup {NoNode},
           NEW type \in TypeNames \cup {NoString}, NEW r, r = SectionTypeSet(h, n, type)
    PROVE  SoundResult(h, r)
<1> DEFINE error == CallError(h, n, {type}, "UNT_SECTION")
<1> DEFINE t == h[n].parent
<1> DEFINE c == h[t].parent
<1> DEFINE f == [h EXCEPT ![t].name = type]
<1> DEFINE g == AstNodeMerge(f, c)
<1> DEFINE merged == IF c = NoNode \/ Deleted(f, c) THEN Failure(f, "ABORTED")
                     ELSE Success(g, NoNode)
<1>1. r = IF error # "UE_NONE" THEN Failure(h, error)
          ELSE IF h[n].name \in AtNames \cup {NoString}
          THEN IF merged.err = "UE_NONE" THEN Renumbered(merged.heap, n) ELSE merged
          ELSE merged
  BY DEF SectionTypeSet, Asserted, Then, Renumbered
<1>2. error \in Errors /\ "ABORTED" \in Errors /\ "UE_NONE" \in Errors
  BY CallErrorFacts DEF Errors
<1>3. CASE error # "UE_NONE"
  BY <1>1, <1>2, <1>3, FailureIsSound
<1>4. CASE error = "UE_NONE"
  <2>1. /\ n \in DOMAIN h /\ h[n].parent # NoNode /\ h[n].kind = "ANT_SECTION_NAME"
        /\ type \in TypeNames
    BY <1>4, HandlePassed, CallErrorFacts, HandleErrorFacts
  <2>2. t \in DOMAIN h /\ h[t].kind = "ANT_SECTION_TYPE"
    BY <2>1, ParentKinds
  <2>3. type \in Strings
    BY <2>1 DEF Strings
  <2> HIDE DEF error, t, f, g
  <2>4. /\ WellFormed(f) /\ DOMAIN f = DOMAIN h
        /\ \A m \in DOMAIN h : f[m].kind = h[m].kind /\ f[m].parent = h[m].parent
    BY <2>1, <2>2, <2>3, NamedIsWellFormed DEF f
  <2>5. Keeps(h, f)
    BY <2>4 DEF Keeps
  <2>6. CASE c = NoNode \/ Deleted(f, c)
    <3>1. merged = Failure(f, "ABORTED")
      BY <2>6
    <3>2. r = Failure(f, "ABORTED")
      BY <1>1, <1>4, <3>1, ResultFacts
    <3>3. QED
      BY <1>2, <2>4, <2>5, <3>2, ResultFacts DEF SoundResult
  <2>7. CASE c # NoNode /\ ~ Deleted(f, c)
    <3>1. c \in DOMAIN f /\ f[c].kind = "ANT_CONFIG"
      BY <2>2, <2>4, <2>7, ParentKinds
    <3> HIDE DEF c
    <3>2. /\ WellFormed(g) /\ DOMAIN g = DOMAIN f /\ Keeps(f, g)
          /\ g[n].parent # NoNode /\ g[n].kind = "ANT_SECTION_NAME"
      <4>1. /\ WellFormed(g) /\ DOMAIN g = DOMAIN f
            /\ \A m \in DOMAIN f :
                 /\ g[m].kind = f[m].kind
                 /\ f[m].kind = "ANT_SECTION_NAME" =>
                       \/ g[m].parent = f[m].parent
                       \/ g[m].parent \in DOMAIN f
                 /\ f[m].kind \notin {"ANT_SECTION_TYPE", "ANT_SECTION_NAME"} =>
                       g[m].parent = f[m].parent
        BY <2>4, <3>1, MergedIsWellFormed DEF g
      <4>2. NoNode \notin DOMAIN f
        BY <2>4, NoNodeIsNoNode
      <4>3. QED
        BY <2>1, <2>4, <4>1, <4>2 DEF Keeps, LineKinds
    <3>3. Keeps(h, g)
      BY <2>5, <3>2, KeepsIsTransitive
    <3>4. merged = Success(g, NoNode)
      BY <2>7
    <3>5. SoundResult(h, merged)
      BY <1>2, <3>2, <3>3, <3>4, ResultFacts DEF SoundResult
    <3>6. SoundResult(h, Renumbered(g, n))
      <4>1. SoundResult(g, Renumbered(g, n))
        BY <2>1, <2>4, <3>2, RenumberedIsSound
      <4>2. QED
        BY <3>3, <4>1, KeepsIsTransitive DEF SoundResult
    <3>7. merged.heap = g
      BY <3>4, ResultFacts
    <3> HIDE DEF merged
    <3>8. QED
      BY <1>1, <1>4, <3>5, <3>6, <3>7
  <2>8. QED
    BY <2>6, <2>7
<1>5. QED
  BY <1>3, <1>4

-----------------------------------------------------------------------------
(***************************************************************************)
(* The functions that add a node.                                          *)
(***************************************************************************)

\* uci2_node_add adds the node that ast_node_new returned.
LEMMA AddChildAdds ==
    ASSUME NEW h, WellFormed(h), NEW p, NEW kind
    PROVE  AddChild(h, p, kind) = Added(h, p, kind)
<1> DEFINE x == NewNode(kind, NoString, NoString)
<1>1. Len(h) \in Nat /\ h \in Seq(AstNode(DOMAIN h))
  BY WellFormedUnfolds DEF WellFormed, TypedAst
<1>2. Len(Append(h, x)) = Len(h) + 1
  <2> DEFINE S == AstNode(DOMAIN h) \cup {x}
  <2>1. h \in Seq(S) /\ x \in S
    BY <1>1, SeqMonotonic
  <2> HIDE DEF S, x
  <2>2. QED
    BY <2>1, AppendProperties
<1> HIDE DEF x
<1>3. QED
  BY <1>2 DEF AddChild, Added, AstNodeNew, Newest, x

\* A fresh node below a node that may have one of its kind keeps a heap well-formed.
LEMMA AddChildIsSound ==
    ASSUME NEW h, WellFormed(h), NEW p \in DOMAIN h, NEW kind \in ChildKinds(h[p].kind),
           NEW g, g = AddChild(h, p, kind)
    PROVE  /\ WellFormed(g) /\ Keeps(h, g) /\ Newest(g) \in DOMAIN g
           /\ g[Newest(g)].kind = kind /\ g[Newest(g)].parent = p
<1>1. Len(h) \in Nat
  BY WellFormedUnfolds
<1>3. g = Added(h, p, kind)
  BY AddChildAdds
<1>4. /\ WellFormed(g) /\ Len(g) = Len(h) + 1 /\ DOMAIN g = 1 .. Len(h) + 1
      /\ g[Len(h) + 1].kind = kind /\ g[Len(h) + 1].parent = p
      /\ \A n \in DOMAIN h : g[n].kind = h[n].kind /\ g[n].parent = h[n].parent
  BY <1>3, AddedIsWellFormed
<1>5. DOMAIN h = 1 .. Len(h)
  BY WellFormedUnfolds
<1>6. DOMAIN h \subseteq DOMAIN g /\ Len(h) + 1 \in DOMAIN g
  BY <1>1, <1>4, <1>5
<1>7. QED
  BY <1>4, <1>6 DEF Keeps, Newest

\* uci2_node_add, with the type node it puts above a section, keeps a heap well-formed.
LEMMA NodeAddIsSound ==
    ASSUME NEW h, WellFormed(h), NEW p \in DOMAIN h, NEW kind,
           \/ kind = "ANT_SECTION_NAME" /\ h[p].kind = "ANT_CONFIG"
           \/ kind # "ANT_SECTION_NAME" /\ kind \in ChildKinds(h[p].kind),
           NEW g, g = NodeAdd(h, p, kind)
    PROVE  WellFormed(g) /\ Keeps(h, g) /\ Newest(g) \in DOMAIN g
<1>1. CASE kind = "ANT_SECTION_NAME" /\ h[p].kind = "ANT_CONFIG"
  <2> DEFINE f == AddChild(h, p, "ANT_SECTION_TYPE")
  <2>1. "ANT_SECTION_TYPE" \in ChildKinds(h[p].kind)
    BY <1>1 DEF ChildKinds
  <2>2. g = AddChild(f, Newest(f), kind)
    BY <1>1 DEF NodeAdd
  <2> HIDE DEF f
  <2>3. /\ WellFormed(f) /\ Keeps(h, f) /\ Newest(f) \in DOMAIN f
        /\ f[Newest(f)].kind = "ANT_SECTION_TYPE"
    BY <2>1, AddChildIsSound DEF f
  <2>4. kind \in ChildKinds(f[Newest(f)].kind)
    BY <1>1, <2>3 DEF ChildKinds
  <2>5. WellFormed(g) /\ Keeps(f, g) /\ Newest(g) \in DOMAIN g
    BY <2>2, <2>3, <2>4, AddChildIsSound
  <2>6. QED
    BY <2>3, <2>5, KeepsIsTransitive
<1>2. CASE kind # "ANT_SECTION_NAME" /\ kind \in ChildKinds(h[p].kind)
  <2>1. g = AddChild(h, p, kind)
    BY <1>2 DEF NodeAdd
  <2>2. QED
    BY <1>2, <2>1, AddChildIsSound
<1>3. QED
  BY <1>1, <1>2

\* Removing the node that could not be completed keeps a result well-formed.
LEMMA OrRemoveIsSound ==
    ASSUME NEW h, NEW s, SoundResult(h, s), NEW n \in DOMAIN s.heap,
           NEW r, r = OrRemove([s EXCEPT !.out = n], n)
    PROVE  SoundResult(h, r)
<1> DEFINE o == [s EXCEPT !.out = n]
<1> DEFINE g == NodeRemove(s.heap, n)
<1>1. s = Result(s.heap, s.err, s.out)
  BY DEF SoundResult
<1>2. o = Result(s.heap, s.err, n)
  BY <1>1 DEF Result
<1>3. o.heap = s.heap /\ o.err = s.err
  BY <1>2 DEF Result
<1>4. r = IF o.err \in {"UE_NONE", "ABORTED"} THEN o ELSE [o EXCEPT !.heap = NodeRemove(o.heap, n)]
  BY DEF OrRemove
<1> HIDE DEF o, g
<1>5. CASE s.err \in {"UE_NONE", "ABORTED"}
  <2>1. r = o
    BY <1>3, <1>4, <1>5
  <2>2. QED
    BY <1>2, <1>3, <2>1 DEF SoundResult, Result
<1>6. CASE s.err \notin {"UE_NONE", "ABORTED"}
  <2>1. r = [o EXCEPT !.heap = g]
    BY <1>3, <1>4, <1>6 DEF g
  <2>2. r = Result(g, s.err, n)
    BY <1>2, <2>1 DEF Result
  <2>3. r.heap = g /\ r.err = s.err /\ r.out = n
    BY <2>2 DEF Result
  <2>4. WellFormed(g) /\ Keeps(s.heap, g)
    BY NodeRemoveIsSound DEF g, SoundResult
  <2>5. Keeps(h, g)
    BY <2>4, KeepsIsTransitive DEF SoundResult
  <2>6. QED
    BY <2>2, <2>3, <2>4, <2>5 DEF SoundResult
<1>7. QED
  BY <1>5, <1>6

\* What is left to show of a function that adds a node: it sets the attributes
\* of the node it has added so that it is well-formed.
LEMMA AddedSoundly ==
    ASSUME NEW h, WellFormed(h), NEW g, Keeps(h, g), Newest(g) \in DOMAIN g,
           NEW s, SoundResult(g, s),
           NEW r, r = OrRemove([s EXCEPT !.out = Newest(g)], Newest(g))
    PROVE  SoundResult(h, r)
<1>1. Newest(g) \in DOMAIN s.heap
  BY DEF SoundResult, Keeps
<1>2. SoundResult(h, s)
  BY KeepsIsTransitive DEF SoundResult
<1>3. QED
  BY <1>1, <1>2, OrRemoveIsSound

\* Whatever uci2_node_option_add returns, the heap it leaves behind is well-formed.
LEMMA OptionAddIsSound ==
    ASSUME NEW h, WellFormed(h), NEW p \in DOMAIN h \cup {NoNode},
           NEW name \in Strings \cup {NoString}, NEW value \in Strings \cup {NoString},
           NEW r, r = OptionAdd(h, p, name, value)
    PROVE  SoundResult(h, r)
<1> DEFINE error == CallError(h, p, {name, value}, "UNT_SECTION")
<1> DEFINE g == NodeAdd(h, p, "ANT_OPTION")
<1> DEFINE n == Newest(g)
<1> DEFINE f == OptionNameSet(g, n, name)
<1> DEFINE s == IF f.err = "UE_NONE" THEN OptionValueSet(f.heap, n, value) ELSE f
<1>1. r = IF error # "UE_NONE" THEN Failure(h, error) ELSE OrRemove([s EXCEPT !.out = n], n)
  BY DEF OptionAdd, AddNode, Then
<1>2. error \in Errors
  BY CallErrorFacts
<1>3. CASE error = "UE_NONE"
  <2>1. p \in DOMAIN h /\ h[p].kind = "ANT_SECTION_NAME"
    BY <1>3, HandlePassed, CallErrorFacts, HandleErrorFacts
  <2>2. "ANT_OPTION" \in ChildKinds(h[p].kind)
    BY <2>1 DEF ChildKinds
  <2> HIDE DEF error, g
  <2>3. WellFormed(g) /\ Keeps(h, g) /\ n \in DOMAIN g
    BY <2>1, <2>2, NodeAddIsSound DEF g
  <2>4. SoundResult(g, f)
    BY <2>3, NameSetIsSound DEF OptionNameSet
  <2>5. n \in DOMAIN f.heap /\ WellFormed(f.heap)
    BY <2>3, <2>4 DEF SoundResult, Keeps
  <2>6. SoundResult(f.heap, OptionValueSet(f.heap, n, value))
    BY <2>5, OptionValueSetIsSound
  <2>7. SoundResult(g, s)
    BY <2>4, <2>6, KeepsIsTransitive DEF SoundResult
  <2> HIDE DEF s
  <2>8. QED
    BY <1>1, <1>3, <2>3, <2>7, AddedSoundly
<1>4. CASE error # "UE_NONE"
  BY <1>1, <1>2, <1>4, FailureIsSound
<1>5. QED
  BY <1>3, <1>4

\* Whatever uci2_node_list_add returns, the heap it leaves behind is well-formed.
LEMMA ListAddIsSound ==
    ASSUME NEW h, WellFormed(h), NEW p \in DOMAIN h \cup {NoNode},
           NEW name \in Strings \cup {NoString}, NEW r, r = ListAdd(h, p, name)
    PROVE  SoundResult(h, r)
<1> DEFINE error == CallError(h, p, {name}, "UNT_SECTION")
<1> DEFINE g == NodeAdd(h, p, "ANT_LIST")
<1> DEFINE n == Newest(g)
<1> DEFINE s == ListNameSet(g, n, name)
<1>1. r = IF error # "UE_NONE" THEN Failure(h, error) ELSE OrRemove([s EXCEPT !.out = n], n)
  BY DEF ListAdd, AddNode
<1>2. error \in Errors
  BY CallErrorFacts
<1>3. CASE error = "UE_NONE"
  <2>1. p \in DOMAIN h /\ h[p].kind = "ANT_SECTION_NAME"
    BY <1>3, HandlePassed, CallErrorFacts, HandleErrorFacts
  <2>2. "ANT_LIST" \in ChildKinds(h[p].kind)
    BY <2>1 DEF ChildKinds
  <2> HIDE DEF error, g
  <2>3. WellFormed(g) /\ Keeps(h, g) /\ n \in DOMAIN g
    BY <2>1, <2>2, NodeAddIsSound DEF g
  <2>4. SoundResult(g, s)
    BY <2>3, NameSetIsSound DEF ListNameSet
  <2> HIDE DEF s
  <2>5. QED
    BY <1>1, <1>3, <2>3, <2>4, AddedSoundly
<1>4. CASE error # "UE_NONE"
  BY <1>1, <1>2, <1>4, FailureIsSound
<1>5. QED
  BY <1>3, <1>4

\* Whatever uci2_node_list_element_add returns, the heap it leaves behind is well-formed.
LEMMA ListElementAddIsSound ==
    ASSUME NEW h, WellFormed(h), NEW p \in DOMAIN h \cup {NoNode},
           NEW value \in Strings \cup {NoString}, NEW r, r = ListElementAdd(h, p, value)
    PROVE  SoundResult(h, r)
<1> DEFINE error == CallError(h, p, {value}, "UNT_LIST")
<1> DEFINE g == NodeAdd(h, p, "ANT_LIST_ITEM")
<1> DEFINE n == Newest(g)
<1> DEFINE s == ListElementValueSet(g, n, value)
<1>1. r = IF error # "UE_NONE" THEN Failure(h, error) ELSE OrRemove([s EXCEPT !.out = n], n)
  BY DEF ListElementAdd, AddNode
<1>2. error \in Errors
  BY CallErrorFacts
<1>3. CASE error = "UE_NONE"
  <2>1. p \in DOMAIN h /\ h[p].kind = "ANT_LIST"
    BY <1>3, HandlePassed, CallErrorFacts, HandleErrorFacts
  <2>2. "ANT_LIST_ITEM" \in ChildKinds(h[p].kind)
    BY <2>1 DEF ChildKinds
  <2> HIDE DEF error, g
  <2>3. WellFormed(g) /\ Keeps(h, g) /\ n \in DOMAIN g
    BY <2>1, <2>2, NodeAddIsSound DEF g
  <2>4. SoundResult(g, s)
    BY <2>3, ListElementValueSetIsSound
  <2> HIDE DEF s
  <2>5. QED
    BY <1>1, <1>3, <2>3, <2>4, AddedSoundly
<1>4. CASE error # "UE_NONE"
  BY <1>1, <1>2, <1>4, FailureIsSound
<1>5. QED
  BY <1>3, <1>4

\* Whatever uci2_node_section_add returns, the heap it leaves behind is well-formed.
LEMMA SectionAddIsSound ==
    ASSUME NEW h, WellFormed(h), NEW p \in DOMAIN h \cup {NoNode},
           NEW type \in TypeNames \cup {NoString}, NEW name \in Strings \cup {NoString},
           NEW r, r = SectionAdd(h, p, type, name)
    PROVE  SoundResult(h, r)
<1> DEFINE error == CallError(h, p, {type}, "UNT_ROOT")
<1> DEFINE g == NodeAdd(h, p, "ANT_SECTION_NAME")
<1> DEFINE n == Newest(g)
<1> DEFINE f == SectionTypeSet(g, n, type)
<1> DEFINE s == IF name = NoString THEN f
                ELSE IF f.err = "UE_NONE" THEN SectionNameSet(f.heap, n, name) ELSE f
<1>1. r = IF error # "UE_NONE" THEN Failure(h, error) ELSE OrRemove([s EXCEPT !.out = n], n)
  BY DEF SectionAdd, AddNode, Then
<1>2. error \in Errors
  BY CallErrorFacts
<1>3. CASE error = "UE_NONE"
  <2>1. p \in DOMAIN h /\ h[p].kind = "ANT_CONFIG"
    BY <1>3, HandlePassed, CallErrorFacts, HandleErrorFacts
  <2> HIDE DEF error, g
  <2>2. WellFormed(g) /\ Keeps(h, g) /\ n \in DOMAIN g
    BY <2>1, NodeAddIsSound DEF g
  <2>3. SoundResult(g, f)
    BY <2>2, SectionTypeSetIsSound
  <2>4. n \in DOMAIN f.heap /\ WellFormed(f.heap)
    BY <2>2, <2>3 DEF SoundResult, Keeps
  <2>5. SoundResult(f.heap, SectionNameSet(f.heap, n, name))
    BY <2>4, NameSetIsSound DEF SectionNameSet
  <2>6. SoundResult(g, s)
    BY <2>3, <2>5, KeepsIsTransitive DEF SoundResult
  <2> HIDE DEF s
  <2>7. QED
    BY <1>1, <1>3, <2>2, <2>6, AddedSoundly
<1>4. CASE error # "UE_NONE"
  BY <1>1, <1>2, <1>4, FailureIsSound
<1>5. QED
  BY <1>3, <1>4

-----------------------------------------------------------------------------
(***************************************************************************)
(* The theorems.                                                           *)
(***************************************************************************)

\* The inductive invariant.
SoundState == WellFormed(heap) /\ err \in Errors

\* What a call does to a well-formed heap: heap g and error code e are what it leaves.
LEMMA CallIsSound ==
    ASSUME NEW h, WellFormed(h), NEW r, SoundResult(h, r),
           NEW e, e = r.err, NEW g, g = IF r.err = "ABORTED" THEN h ELSE r.heap
    PROVE  WellFormed(g) /\ e \in Errors /\ Keeps(h, g)
BY KeepsIsReflexive DEF SoundResult

\* Every initial state is well-formed.
LEMMA InitIsSound == Init => SoundState
BY InitialAstsAssumption DEF Init, SoundState, Errors

\* Every call keeps the state well-formed, and deleted lines deleted.
LEMMA NextIsSound ==
    ASSUME SoundState, Next
    PROVE  SoundState' /\ Keeps(heap, heap')
<1>1. WellFormed(heap)
  BY DEF SoundState
<1>2. /\ OrNull(TypeNames) \subseteq Strings \cup {NoString}
      /\ OrNull(SectionNames) \subseteq Strings \cup {NoString}
      /\ OrNull(OptionNames) \subseteq Strings \cup {NoString}
      /\ OrNull(Values) \subseteq Strings \cup {NoString}
      /\ OrNull(TypeNames) = TypeNames \cup {NoString}
  BY DEF OrNull, Strings
<1>3. PICK n \in DOMAIN heap \cup {NoNode} :
          EditLines(n) \/ EditSections(n) \/ RetypeSection(n) \/ RemoveNode(n)
  BY DEF Next, Handles
<1>4. SUFFICES \E r : SoundResult(heap, r) /\ Call(r)
  <2>1. ASSUME NEW r, SoundResult(heap, r), Call(r)
        PROVE  WellFormed(heap') /\ err' \in Errors /\ Keeps(heap, heap')
    BY <1>1, <2>1, CallIsSound DEF Call
  <2>2. QED
    BY <2>1 DEF SoundState
<1>5. CASE AddSection(n)
  BY <1>1, <1>2, <1>5, SectionAddIsSound DEF AddSection
<1>6. CASE AddOption(n)
  BY <1>1, <1>2, <1>6, OptionAddIsSound DEF AddOption
<1>7. CASE AddList(n)
  BY <1>1, <1>2, <1>7, ListAddIsSound DEF AddList
<1>8. CASE AddListElement(n)
  BY <1>1, <1>2, <1>8, ListElementAddIsSound DEF AddListElement
<1>9. CASE RenameSection(n)
  BY <1>1, <1>2, <1>9, NameSetIsSound DEF RenameSection, SectionNameSet
<1>10. CASE RenameOption(n)
  BY <1>1, <1>2, <1>10, NameSetIsSound DEF RenameOption, OptionNameSet
<1>11. CASE RenameList(n)
  BY <1>1, <1>2, <1>11, NameSetIsSound DEF RenameList, ListNameSet
<1>12. CASE SetOptionValue(n)
  BY <1>1, <1>2, <1>12, OptionValueSetIsSound DEF SetOptionValue
<1>13. CASE SetListElement(n)
  BY <1>1, <1>2, <1>13, ListElementValueSetIsSound DEF SetListElement
<1>14. CASE RetypeSection(n)
  BY <1>1, <1>2, <1>14, SectionTypeSetIsSound DEF RetypeSection
<1>15. CASE RemoveNode(n)
  <2>1. WellFormed(NodeRemove(heap, n)) /\ Keeps(heap, NodeRemove(heap, n))
    BY <1>1, NodeRemoveIsSound
  <2>2. SoundResult(heap, Success(NodeRemove(heap, n), NoNode))
    BY <2>1, ResultFacts DEF SoundResult, Errors
  <2>3. QED
    BY <1>15, <2>2 DEF RemoveNode
<1>16. QED
  BY <1>3, <1>5, <1>6, <1>7, <1>8, <1>9, <1>10, <1>11, <1>12, <1>13, <1>14, <1>15
     DEF EditLines, EditSections

\* A step that changes nothing changes nothing.
LEMMA StutterIsSound ==
    ASSUME SoundState, UNCHANGED vars
    PROVE  SoundState' /\ Keeps(heap, heap')
BY KeepsIsReflexive DEF SoundState, vars

\* The state is well-formed however long the client goes on.
THEOREM SpecIsSound == Spec => []SoundState
<1>1. Init => SoundState
  BY InitIsSound
<1>2. SoundState /\ [Next]_vars => SoundState'
  BY NextIsSound, StutterIsSound
<1>3. QED
  BY <1>1, <1>2, PTL DEF Spec

\* The pool of an AST stays an array of nodes whose children are nodes of the
\* AST, and no loop over children[0 .. children_number - 1] leaves the array,
\* for any names, any AST to start from and any number of calls.
THEOREM TypeCorrect == Spec => []TypeOK
<1>1. SoundState => TypeOK
  BY DEF SoundState, WellFormed, TypeOK
<1>2. QED
  BY <1>1, SpecIsSound, PTL

\* Nodes hang below nodes of the right kind, so that no call reaches an abort()
\* of a switch over node kinds through a pointer of the AST.
THEOREM LayersHold == Spec => []Layered
<1>1. SoundState => Layered
  BY DEF SoundState, WellFormed, Layered
<1>2. QED
  BY <1>1, SpecIsSound, PTL

\* Each node stays among the children of one node, and there only once: what
\* ast_node_merge copies to another array no longer counts where it was.
THEOREM NodesHeldOnce == Spec => []HeldOnce
<1>1. SoundState => HeldOnce
  BY DEF SoundState, WellFormed, HeldOnce
<1>2. QED
  BY <1>1, SpecIsSound, PTL

\* A node is found where its parent pointer leads: the child arrays and the parent
\* pointers, which uci2_node_remove and ast_node_merge change separately, agree.
THEOREM ParentsHold == Spec => []ParentHolds
<1>1. SoundState => ParentHolds
  BY DEF SoundState, WellFormed, ParentHolds
<1>2. QED
  BY <1>1, SpecIsSound, PTL

\* An option, list or list element that uci2_node_remove has taken out of the AST
\* does not come back: the merge of section types moves sections only.
THEOREM DeletedLinesStayDeleted == Spec => DeletedLineStaysDeleted
<1> DEFINE Stay == \A n \in Node :
          heap[n].kind \in LineKinds /\ Deleted(heap, n) => Deleted(heap', n)
<1>1. SoundState /\ [Next]_vars => Stay
  <2>1. Keeps(heap, heap') => Stay
    BY DEF Keeps, Node, Deleted
  <2>2. QED
    BY <2>1, NextIsSound, StutterIsSound
<1>2. Stay => \A n \in Node :
          heap[n].kind \in {"ANT_OPTION", "ANT_LIST", "ANT_LIST_ITEM"} /\ Deleted(heap, n)
              => Deleted(heap', n)
  BY DEF LineKinds
<1> HIDE DEF Stay
<1>3. QED
  BY <1>1, <1>2, SpecIsSound, PTL DEF Spec, DeletedLineStaysDeleted

\* The second half of uci2_node_section_type_set gives the section a name.
LEMMA RenumberedIsOrderly ==
    ASSUME NEW g, WellFormed(g), NEW n \in DOMAIN g, g[n].parent # NoNode,
           g[n].kind = "ANT_SECTION_NAME", OrderlyBut(g, {n}, {}),
           NEW r, r = Renumbered(g, n)
    PROVE  /\ r.err \in {"UE_NONE", "ABORTED"}
           /\ r.err = "UE_NONE" => Orderly(r.heap)
<1> DEFINE c == g[g[n].parent].parent
<1> DEFINE f == [g EXCEPT ![n].name = Placeholder]
<1> DEFINE e == UnnamedSectionNameSet(f, c)
<1>1. r = IF c = NoNode \/ Deleted(f, c) THEN Failure(f, "ABORTED") ELSE Success(e, NoNode)
  BY DEF Renumbered, Asserted
<1>2. Placeholder \in Strings /\ Placeholder # NoString
  BY NamesAssumption DEF Strings, AtNames
<1>3. CASE c = NoNode \/ Deleted(f, c)
  BY <1>1, <1>3, ResultFacts
<1>4. CASE c # NoNode /\ ~Deleted(f, c)
  <2> HIDE DEF f
  <2>1. r.err = "UE_NONE" /\ r.heap = e
    BY <1>1, <1>4, ResultFacts
  <2>2. /\ WellFormed(f) /\ DOMAIN f = DOMAIN g
        /\ \A m \in DOMAIN g : f[m].kind = g[m].kind /\ f[m].parent = g[m].parent
    BY <1>2, NamedIsWellFormed DEF f
  <2>3. c \in DOMAIN f /\ f[c].kind = "ANT_CONFIG"
    BY <2>2, <1>4, ParentKinds
  <2>4. OrderlyBut(f, {}, {})
    <3>1. TypesStay(g, f, {}) /\ LinesStay(g, f)
      BY OtherChangesStay DEF f
    <3>2. \A m \in DOMAIN g \ {n} : AttributedNode(f, m)
      <4>1. \A m \in DOMAIN g \ {n} : AttributesStay(g, f, m)
        BY OtherChangesStay DEF f
      <4>2. \A m \in DOMAIN g \ {n} : AttributedNode(g, m)
        BY DEF OrderlyBut
      <4>3. QED
        BY <4>1, <4>2, AttributedStays
    <3>3. AttributedNode(f, n)
      <4>1. f[n].name = Placeholder /\ f[n].kind = "ANT_SECTION_NAME"
        <5>1. NameChanges(g, f, n, Placeholder)
          BY NamedDetails DEF f
        <5>2. QED
          BY <2>2, <5>1 DEF NameChanges
      <4>2. QED
        BY <1>2, <4>1 DEF AttributedNode, LineKinds
    <3>4. \A m \in DOMAIN f \ {} : AttributedNode(f, m)
      BY <2>2, <3>2, <3>3
    <3>5. {} \subseteq DOMAIN g
      OBVIOUS
    <3>6. QED
      BY <3>1, <3>4, <3>5, OrderlyStays
  <2> HIDE DEF c, e
  <2>5. /\ TypesStay(f, e, {}) /\ LinesStay(f, e)
        /\ \A m \in DOMAIN f : AttributesStay(f, e, m)
    BY <2>2, <2>3, NumberingStays DEF e
  <2>6. DOMAIN e = DOMAIN f
    BY <2>2, <2>3, NumberedIsWellFormed DEF e
  <2>7. \A m \in DOMAIN e \ {} : AttributedNode(e, m)
    <3>1. \A m \in DOMAIN f : AttributedNode(f, m)
      BY <2>4 DEF OrderlyBut
    <3>2. QED
      BY <2>5, <2>6, <3>1, AttributedStays
  <2>8. OrderlyBut(e, {}, {})
    <3>1. {} \subseteq DOMAIN f
      OBVIOUS
    <3>2. QED
      BY <2>2, <2>4, <2>5, <2>7, <3>1, OrderlyStays
  <2>9. QED
    BY <2>1, <2>8, OrderlyParts
<1>5. QED
  BY <1>3, <1>4

\* uci2_node_section_type_set merges the section types, whatever name the one of the
\* section had before.
LEMMA SectionTypeSetIsOrderly ==
    ASSUME NEW h, WellFormed(h), NEW n \in DOMAIN h, NEW type,
           CallError(h, n, {type}, "UNT_SECTION") = "UE_NONE", type \in TypeNames,
           NEW t, t = h[n].parent, NEW c, c = h[t].parent, OrderlyBut(h, {n, t}, {c}),
           NEW r, r = SectionTypeSet(h, n, type)
    PROVE  /\ r.err \in {"UE_NONE", "ABORTED"}
           /\ r.err = "UE_NONE" => Orderly(r.heap)
<1> DEFINE f == [h EXCEPT ![t].name = type]
<1> DEFINE g == AstNodeMerge(f, c)
<1> DEFINE merged == IF c = NoNode \/ Deleted(f, c) THEN Failure(f, "ABORTED")
                     ELSE Success(g, NoNode)
<1>1. r = IF h[n].name \in AtNames \cup {NoString}
          THEN IF merged.err = "UE_NONE" THEN Renumbered(merged.heap, n) ELSE merged
          ELSE merged
  BY DEF SectionTypeSet, Asserted, Then, Renumbered
<1>2. h[n].parent # NoNode /\ h[n].kind = "ANT_SECTION_NAME"
  BY CallErrorFacts, HandleErrorFacts
<1>3. t \in DOMAIN h /\ h[t].kind = "ANT_SECTION_TYPE"
  BY <1>2, ParentKinds
<1>4. type \in Strings /\ type # NoString
  BY NamesAssumption DEF Strings
<1> HIDE DEF f, g
<1>5. /\ WellFormed(f) /\ DOMAIN f = DOMAIN h
      /\ \A m \in DOMAIN h : f[m].kind = h[m].kind /\ f[m].parent = h[m].parent
  BY <1>3, <1>4, NamedIsWellFormed DEF f
<1>6. CASE c = NoNode \/ Deleted(f, c)
  <2>1. merged = Failure(f, "ABORTED")
    BY <1>6
  <2>2. QED
    BY <1>1, <2>1, ResultFacts
<1>7. CASE c # NoNode /\ ~Deleted(f, c)
  <2>1. c \in DOMAIN h /\ h[c].kind = "ANT_CONFIG"
    BY <1>3, <1>7, ParentKinds
  <2>2. t \in KidSet(h, c)
    BY <1>3, <2>1 DEF WellFormed, ParentsAgree
  <2>3. /\ DOMAIN f = DOMAIN h /\ f[t].name = type
        /\ \A m \in DOMAIN h : /\ f[m].kind = h[m].kind /\ f[m].value = h[m].value
                               /\ f[m].parent = h[m].parent /\ SameArray(h, f, m)
                               /\ m # t => f[m] = h[m]
    <3>1. NameChanges(h, f, t, type)
      BY <1>3, NamedDetails DEF f
    <3>2. QED
      BY <3>1 DEF NameChanges
  <2>4. TypesStay(h, f, {c}) /\ LinesStay(h, f)
    BY <1>3, <2>2, <2>3 DEF TypesStay, LinesStay, SameArray, Deleted
  <2>5. \A m \in DOMAIN h \ {n} : AttributedNode(f, m)
    <3>1. ASSUME NEW m \in DOMAIN h \ {n} PROVE AttributedNode(f, m)
      <4>1. CASE m = t
        BY <1>3, <1>4, <2>3, <4>1 DEF AttributedNode, LineKinds
      <4>2. CASE m # t
        <5>1. AttributedNode(h, m)
          BY <4>2 DEF OrderlyBut
        <5>2. AttributesStay(h, f, m)
          BY <2>3, <4>2 DEF AttributesStay, Deleted
        <5>3. QED
          BY <5>1, <5>2, AttributedStays
      <4>3. QED
        BY <4>1, <4>2
    <3>2. QED
      BY <3>1
  <2>6. OrderlyBut(f, {n}, {c})
    <3>1. {c} \subseteq DOMAIN h
      BY <2>1
    <3>2. QED
      BY <1>5, <2>4, <2>5, <3>1, OrderlyStays
  <2>7. f[c].kind = "ANT_CONFIG"
    BY <1>5, <2>1
  <2>8. \A m \in KidSet(f, c) : f[m].name # NoString
    <3>1. \A m \in KidSet(f, c) : m \in DOMAIN f /\ f[m].kind = "ANT_SECTION_TYPE"
      <4>1. TypedNode(f, c) /\ LayeredNode(f, c)
        BY <1>5, <2>1, WellFormedUnfolds
      <4>2. QED
        BY <1>5, <2>1, <2>7, <4>1, KidsFacts DEF LayeredNode, ChildKinds
    <3>2. f[n].kind = "ANT_SECTION_NAME"
      BY <1>2, <1>5
    <3>3. QED
      BY <1>5, <2>5, <3>1, <3>2 DEF AttributedNode
  <2>9. /\ WellFormed(g) /\ DOMAIN g = DOMAIN f
        /\ g[n].parent # NoNode /\ g[n].kind = "ANT_SECTION_NAME"
    <3>1. /\ WellFormed(g) /\ DOMAIN g = DOMAIN f
          /\ \A m \in DOMAIN f : /\ g[m].kind = f[m].kind
                                 /\ f[m].kind = "ANT_SECTION_NAME" =>
                                       g[m].parent = f[m].parent \/ g[m].parent \in DOMAIN f
      BY SMTT(30), <1>5, <2>1, <2>7, MergedIsWellFormed DEF g
    <3>2. NoNode \notin DOMAIN f
      BY <1>5, NoNodeIsNoNode
    <3>3. n \in DOMAIN f /\ f[n].kind = "ANT_SECTION_NAME" /\ f[n].parent # NoNode
      BY <1>2, <1>5
    <3>4. g[n].kind = "ANT_SECTION_NAME" /\ (g[n].parent = f[n].parent \/ g[n].parent \in DOMAIN f)
      BY <3>1, <3>3
    <3>5. QED
      BY <3>1, <3>2, <3>3, <3>4
  <2>10. OrderlyBut(g, {n}, {c})
    <3>1. /\ TypesStay(f, g, {c}) /\ LinesStay(f, g)
          /\ \A m \in DOMAIN f : AttributesStay(f, g, m)
      BY <1>5, <2>1, <2>7, MergeStays DEF g
    <3>2. \A m \in DOMAIN g \ {n} : AttributedNode(g, m)
      BY <1>5, <2>5, <2>9, <3>1, AttributedStays
    <3>3. {c} \subseteq DOMAIN f
      BY <1>5, <2>1
    <3>4. QED
      BY <1>5, <2>6, <3>1, <3>2, <3>3, OrderlyStays
  <2>11. MergedBelow(g, c)
    BY <1>5, <2>1, <2>7, <2>8, MergedIsMerged DEF g
  <2>12. OrderlyBut(g, {n}, {})
    BY <2>10, <2>11 DEF OrderlyBut
  <2>13. merged.err = "UE_NONE" /\ merged.heap = g
    <3>1. merged = Success(g, NoNode)
      BY <1>7
    <3>2. QED
      BY <3>1, ResultFacts
  <2> HIDE DEF merged
  <2>14. CASE h[n].name \in AtNames \cup {NoString}
    <3>1. r = Renumbered(g, n)
      BY <1>1, <2>13, <2>14
    <3>2. QED
      BY <1>5, <2>9, <2>12, <3>1, RenumberedIsOrderly
  <2>15. CASE h[n].name \notin AtNames \cup {NoString}
    <3>1. r.err = "UE_NONE" /\ r.heap = g
      BY <1>1, <2>13, <2>15
    <3>2. AttributedNode(g, n)
      <4>1. f[n].name # NoString
        <5>1. n # t
          BY <1>2, <1>3
        <5>2. QED
          BY <2>3, <2>15, <5>1
      <4>2. g[n].name = f[n].name
        BY <1>5, <2>1, <2>7, MergedDetails DEF g
      <4>3. QED
        BY <2>9, <4>1, <4>2 DEF AttributedNode, LineKinds
    <3>3. Orderly(g)
      BY <2>12, <3>2, OrderlyWith
    <3>4. QED
      BY <3>1, <3>3
  <2>16. QED
    BY <2>14, <2>15
<1>8. QED
  BY <1>6, <1>7

\* What naming a section, an option or a list leaves behind: the heap it found if it
\* fails, and otherwise one in which the node has the name and nothing else changed.
LEMMA NameSetIsOrderly ==
    ASSUME NEW h, WellFormed(h), NEW N, OrderlyBut(h, N, {}),
           NEW n \in DOMAIN h \cup {NoNode}, NEW name,
           NEW type \in {"UNT_SECTION", "UNT_OPTION", "UNT_LIST"},
           NEW r, r = NameSet(h, n, name, type)
    PROVE  /\ OrderlyBut(r.heap, N, {})
           /\ r.err # "UE_NONE" => r.heap = h
           /\ r.err = "UE_NONE" => /\ n \in DOMAIN h /\ name # NoString
                                   /\ NameChanges(h, r.heap, n, name)
                                   /\ ~NameTaken(h, n, name)
<1> DEFINE error == CallError(h, n, {name}, type)
<1> DEFINE g == [h EXCEPT ![n].name = name]
<1>1. r = IF error # "UE_NONE" THEN Failure(h, error)
          ELSE IF NameTaken(h, n, name) THEN Failure(h, "UE_NODE_DUPLICATE")
          ELSE Success(g, NoNode)
  BY DEF NameSet
<1>2. CASE error # "UE_NONE" \/ NameTaken(h, n, name)
  <2>1. (r = Failure(h, error) /\ error # "UE_NONE") \/ r = Failure(h, "UE_NODE_DUPLICATE")
    BY <1>1, <1>2
  <2>2. r.heap = h /\ r.err # "UE_NONE"
    BY <2>1, ResultFacts
  <2>3. QED
    BY <2>2
<1>3. CASE error = "UE_NONE" /\ ~NameTaken(h, n, name)
  <2>1. r.err = "UE_NONE" /\ r.heap = g
    BY <1>1, <1>3, ResultFacts
  <2>2. /\ n \in DOMAIN h /\ h[n].parent # NoNode /\ name # NoString
        /\ type = "UNT_SECTION" => h[n].kind = "ANT_SECTION_NAME"
        /\ type # "UNT_SECTION" => h[n].kind \in {"ANT_OPTION", "ANT_LIST"}
    BY <1>3, HandlePassed, CallErrorFacts, HandleErrorFacts
  <2> HIDE DEF g
  <2>3. NameChanges(h, g, n, name)
    BY <2>2, NamedDetails DEF g
  <2>4. OrderlyBut(g, N, {})
    <3>1. CASE type = "UNT_SECTION"
      <4>1. TypesStay(h, g, {}) /\ LinesStay(h, g)
        BY <2>2, <3>1, OtherChangesStay DEF g
      <4>2. \A m \in DOMAIN h : AttributesStay(h, g, m)
        BY <2>2, <2>3 DEF NameChanges, AttributesStay, Deleted
      <4>3. \A m \in DOMAIN g \ N : AttributedNode(g, m)
        <5>1. \A m \in DOMAIN h \ N : AttributedNode(h, m)
          BY DEF OrderlyBut
        <5>2. DOMAIN g = DOMAIN h
          BY <2>3 DEF NameChanges
        <5>3. QED
          BY <4>2, <5>1, <5>2, AttributedStays
      <4>4. {} \subseteq DOMAIN h
        OBVIOUS
      <4>5. QED
        BY <4>1, <4>3, <4>4, OrderlyStays
    <3>2. CASE type # "UNT_SECTION"
      <4>1. h[n].parent \in DOMAIN h
        <5>1. LayeredNode(h, n) /\ h[n].parent \in DOMAIN h \cup {NoNode, Pool}
          BY <2>2, WellFormedUnfolds, NodeFields
        <5>2. QED
          BY <2>2, <3>2, <5>1 DEF LayeredNode, PoolKinds
      <4>2. \A m \in KidSet(h, h[n].parent) : ~Deleted(h, m) => h[m].name # name
        BY <1>3 DEF NameTaken
      <4>3. QED
        BY <2>2, <3>2, <4>1, <4>2, NamedLineIsOrderly DEF g
    <3>3. QED
      BY <3>1, <3>2
  <2>5. QED
    BY <1>3, <2>1, <2>2, <2>3, <2>4
<1>4. QED
  BY <1>2, <1>3

\* The same for the value of an option.
LEMMA OptionValueSetIsOrderly ==
    ASSUME NEW h, WellFormed(h), NEW N, OrderlyBut(h, N, {}),
           NEW n \in DOMAIN h \cup {NoNode}, NEW value, NEW r, r = OptionValueSet(h, n, value)
    PROVE  /\ OrderlyBut(r.heap, N, {})
           /\ r.err # "UE_NONE" => r.heap = h
           /\ r.err = "UE_NONE" => /\ n \in DOMAIN h /\ value # NoString
                                   /\ ValueChanges(h, r.heap, n, value)
<1> DEFINE error == CallError(h, n, {value}, "UNT_OPTION")
<1> DEFINE g == [h EXCEPT ![n].value = value]
<1>1. r = IF error # "UE_NONE" THEN Failure(h, error) ELSE Success(g, NoNode)
  BY DEF OptionValueSet
<1>2. CASE error # "UE_NONE"
  <2>1. r.heap = h /\ r.err # "UE_NONE"
    BY <1>1, <1>2, ResultFacts
  <2>2. QED
    BY <2>1
<1>3. CASE error = "UE_NONE"
  <2>1. r.err = "UE_NONE" /\ r.heap = g
    BY <1>1, <1>3, ResultFacts
  <2>2. n \in DOMAIN h /\ value # NoString
    BY <1>3, HandlePassed, CallErrorFacts
  <2> HIDE DEF g
  <2>3. ValueChanges(h, g, n, value)
    BY <2>2, ValuedDetails DEF g
  <2>4. TypesStay(h, g, {}) /\ LinesStay(h, g)
    BY <2>2, OtherChangesStay DEF g
  <2>5. \A m \in DOMAIN g \ N : AttributedNode(g, m)
    <3>1. ASSUME NEW m \in DOMAIN h, AttributedNode(h, m) PROVE AttributedNode(g, m)
      <4>1. g[m].kind = h[m].kind /\ g[m].name = h[m].name /\ g[m].parent = h[m].parent
        BY <2>3 DEF ValueChanges
      <4>2. g[m].value = h[m].value \/ g[m].value # NoString
        BY <2>2, <2>3 DEF ValueChanges
      <4>3. QED
        BY <3>1, <4>1, <4>2 DEF AttributedNode, Deleted
    <3>2. DOMAIN g = DOMAIN h
      BY <2>3 DEF ValueChanges
    <3>3. QED
      BY <3>1, <3>2 DEF OrderlyBut
  <2>6. OrderlyBut(g, N, {})
    <3>1. {} \subseteq DOMAIN h
      OBVIOUS
    <3>2. QED
      BY <2>4, <2>5, <3>1, OrderlyStays
  <2>7. QED
    BY <2>1, <2>2, <2>3, <2>6
<1>4. QED
  BY <1>2, <1>3

\* The same for the value of a list element, which is its name.
LEMMA ListElementValueSetIsOrderly ==
    ASSUME NEW h, WellFormed(h), NEW N, OrderlyBut(h, N, {}),
           NEW n \in DOMAIN h \cup {NoNode}, NEW value,
           NEW r, r = ListElementValueSet(h, n, value)
    PROVE  /\ OrderlyBut(r.heap, N, {})
           /\ r.err # "UE_NONE" => r.heap = h
           /\ r.err = "UE_NONE" => /\ n \in DOMAIN h /\ value # NoString
                                   /\ NameChanges(h, r.heap, n, value)
<1> DEFINE error == CallError(h, n, {value}, "UNT_LIST_ELEMENT")
<1> DEFINE g == [h EXCEPT ![n].name = value]
<1>1. r = IF error # "UE_NONE" THEN Failure(h, error) ELSE Success(g, NoNode)
  BY DEF ListElementValueSet
<1>2. CASE error # "UE_NONE"
  <2>1. r.heap = h /\ r.err # "UE_NONE"
    BY <1>1, <1>2, ResultFacts
  <2>2. QED
    BY <2>1
<1>3. CASE error = "UE_NONE"
  <2>1. r.err = "UE_NONE" /\ r.heap = g
    BY <1>1, <1>3, ResultFacts
  <2>2. n \in DOMAIN h /\ value # NoString /\ h[n].kind = "ANT_LIST_ITEM"
    BY <1>3, HandlePassed, CallErrorFacts, HandleErrorFacts
  <2> HIDE DEF g
  <2>3. NameChanges(h, g, n, value)
    BY <2>2, NamedDetails DEF g
  <2>4. TypesStay(h, g, {}) /\ LinesStay(h, g)
    BY <2>2, OtherChangesStay DEF g
  <2>5. \A m \in DOMAIN g \ N : AttributedNode(g, m)
    <3>1. \A m \in DOMAIN h : AttributesStay(h, g, m)
      BY <2>2, <2>3 DEF NameChanges, AttributesStay, Deleted
    <3>2. DOMAIN g = DOMAIN h /\ \A m \in DOMAIN h \ N : AttributedNode(h, m)
      BY <2>3 DEF NameChanges, OrderlyBut
    <3>3. QED
      BY <3>1, <3>2, AttributedStays
  <2>6. OrderlyBut(g, N, {})
    <3>1. {} \subseteq DOMAIN h
      OBVIOUS
    <3>2. QED
      BY <2>4, <2>5, <3>1, OrderlyStays
  <2>7. QED
    BY <2>1, <2>2, <2>3, <2>6
<1>4. QED
  BY <1>2, <1>3

\* Removing a node keeps a heap orderly, and excuses a removed line.
LEMMA NodeRemoveIsOrderly ==
    ASSUME NEW h, WellFormed(h), NEW N, OrderlyBut(h, N, {}),
           NEW n \in DOMAIN h \cup {NoNode}, NEW g, g = NodeRemove(h, n)
    PROVE  /\ OrderlyBut(g, N, {})
           /\ n \in DOMAIN h /\ h[n].kind \in LineKinds => AttributedNode(g, n)
<1>1. CASE n = NoNode
  <2>1. g = h /\ n \notin DOMAIN h
    BY <1>1, NoNodeIsNoNode DEF NodeRemove
  <2>2. QED
    BY <2>1
<1>2. CASE n # NoNode
  <2>1. n \in DOMAIN h /\ g = [h EXCEPT ![n].parent = NoNode]
    BY <1>2 DEF NodeRemove
  <2>2. ParentChanges(h, g, n, NoNode)
    BY <2>1, RemovedDetails
  <2>3. TypesStay(h, g, {}) /\ LinesStay(h, g)
    BY <2>1, OtherChangesStay
  <2>4. \A m \in DOMAIN h : AttributesStay(h, g, m)
    BY <2>2 DEF AttributesStay, Deleted, ParentChanges
  <2>5. \A m \in DOMAIN g \ N : AttributedNode(g, m)
    <3>1. DOMAIN g = DOMAIN h /\ \A m \in DOMAIN h \ N : AttributedNode(h, m)
      BY <2>2 DEF ParentChanges, OrderlyBut
    <3>2. QED
      BY <2>4, <3>1, AttributedStays
  <2>6. OrderlyBut(g, N, {})
    <3>1. {} \subseteq DOMAIN h
      OBVIOUS
    <3>2. QED
      BY <2>3, <2>5, <3>1, OrderlyStays
  <2>7. h[n].kind \in LineKinds => AttributedNode(g, n)
    BY <2>1, <2>2 DEF ParentChanges, AttributedNode, Deleted, LineKinds
  <2>8. QED
    BY <2>6, <2>7
<1>3. QED
  BY <1>1, <1>2

\* Unless the process is gone, the call leaves an orderly heap.
OrderlyResult(r) == r.err # "ABORTED" => Orderly(r.heap)

\* OrRemove leaves the heap of a call that succeeded or aborted, and removes the node
\* otherwise.
LEMMA OrRemoveFacts ==
    ASSUME NEW h, NEW s, SoundResult(h, s), NEW n, NEW r, r = OrRemove([s EXCEPT !.out = n], n)
    PROVE  /\ r.err = s.err
           /\ s.err \in {"UE_NONE", "ABORTED"} => r.heap = s.heap
           /\ s.err \notin {"UE_NONE", "ABORTED"} => r.heap = NodeRemove(s.heap, n)
<1> DEFINE o == [s EXCEPT !.out = n]
<1> DEFINE g == NodeRemove(s.heap, n)
<1>1. s = Result(s.heap, s.err, s.out)
  BY DEF SoundResult
<1>2. o = Result(s.heap, s.err, n)
  BY <1>1 DEF Result
<1>3. o.heap = s.heap /\ o.err = s.err
  BY <1>2 DEF Result
<1>4. r = IF o.err \in {"UE_NONE", "ABORTED"} THEN o ELSE [o EXCEPT !.heap = NodeRemove(o.heap, n)]
  BY DEF OrRemove
<1> HIDE DEF o, g
<1>5. CASE s.err \in {"UE_NONE", "ABORTED"}
  BY <1>3, <1>4, <1>5
<1>6. CASE s.err \notin {"UE_NONE", "ABORTED"}
  <2>1. r = [o EXCEPT !.heap = g]
    BY <1>3, <1>4, <1>6 DEF g
  <2>2. r = Result(g, s.err, n)
    BY <1>2, <2>1 DEF Result
  <2>3. r.heap = g /\ r.err = s.err
    BY <2>2 DEF Result
  <2>4. QED
    BY <1>6, <2>3 DEF g
<1>7. QED
  BY <1>5, <1>6

\* A line that was added and could not be completed is removed again.
LEMMA AddedLineResult ==
    ASSUME NEW h, NEW s, SoundResult(h, s), NEW n \in DOMAIN s.heap,
           s.heap[n].kind \in LineKinds, OrderlyBut(s.heap, {n}, {}),
           s.err = "UE_NONE" => AttributedNode(s.heap, n),
           NEW r, r = OrRemove([s EXCEPT !.out = n], n)
    PROVE  OrderlyResult(r)
<1>1. WellFormed(s.heap)
  BY DEF SoundResult
<1>2. CASE s.err = "UE_NONE"
  <2>1. r.heap = s.heap
    BY <1>2, OrRemoveFacts
  <2>2. QED
    BY <1>2, <2>1, OrderlyWith DEF OrderlyResult
<1>3. CASE s.err = "ABORTED"
  <2>1. r.err = "ABORTED"
    BY <1>3, OrRemoveFacts
  <2>2. QED
    BY <2>1 DEF OrderlyResult
<1>4. CASE s.err \notin {"UE_NONE", "ABORTED"}
  <2> DEFINE g == NodeRemove(s.heap, n)
  <2>1. r.heap = g
    BY <1>4, OrRemoveFacts
  <2>2. OrderlyBut(g, {n}, {}) /\ AttributedNode(g, n)
    BY <1>1, NodeRemoveIsOrderly
  <2> HIDE DEF g
  <2>3. QED
    BY <2>1, <2>2, OrderlyWith DEF OrderlyResult
<1>5. QED
  BY <1>2, <1>3, <1>4

\* A new option, list or list element, before it gets its attributes.
LEMMA NodeAddLine ==
    ASSUME NEW h, WellFormed(h), Orderly(h), NEW p \in DOMAIN h,
           h[p].kind \in {"ANT_SECTION_NAME", "ANT_OPTION", "ANT_LIST"},
           NEW kind \in LineKinds, kind \in ChildKinds(h[p].kind),
           NEW g, g = NodeAdd(h, p, kind), NEW n, n = Newest(g)
    PROVE  /\ WellFormed(g) /\ Keeps(h, g) /\ n \in DOMAIN g
           /\ OrderlyBut(g, {n}, {}) /\ g[n].kind = kind
<1>1. kind # "ANT_SECTION_NAME"
  BY DEF LineKinds
<1>2. g = Added(h, p, kind)
  BY <1>1, AddChildAdds DEF NodeAdd
<1>3. n = Len(h) + 1
  BY <1>2, AddedIsWellFormed DEF Newest
<1>4. WellFormed(g) /\ Keeps(h, g) /\ n \in DOMAIN g
  BY <1>1, NodeAddIsSound
<1>5. QED
  BY <1>2, <1>3, <1>4, AddedLineIsOrderly

\* A call that fails leaves an orderly heap as it was.
LEMMA FailureIsOrderly ==
    ASSUME NEW h, Orderly(h), NEW error
    PROVE  OrderlyResult(Failure(h, error))
BY ResultFacts DEF OrderlyResult

\* uci2_node_option_add leaves no option without a name or a value.
LEMMA OptionAddIsOrderly ==
    ASSUME NEW h, WellFormed(h), Orderly(h), NEW p \in DOMAIN h \cup {NoNode},
           NEW name \in Strings \cup {NoString}, NEW value \in Strings \cup {NoString},
           NEW r, r = OptionAdd(h, p, name, value)
    PROVE  OrderlyResult(r)
<1> DEFINE error == CallError(h, p, {name, value}, "UNT_SECTION")
<1> DEFINE g == NodeAdd(h, p, "ANT_OPTION")
<1> DEFINE n == Newest(g)
<1> DEFINE f == OptionNameSet(g, n, name)
<1> DEFINE e == OptionValueSet(f.heap, n, value)
<1> DEFINE s == IF f.err = "UE_NONE" THEN e ELSE f
<1>1. r = IF error # "UE_NONE" THEN Failure(h, error) ELSE OrRemove([s EXCEPT !.out = n], n)
  BY DEF OptionAdd, AddNode, Then
<1>2. CASE error = "UE_NONE"
  <2>1. p \in DOMAIN h /\ h[p].kind = "ANT_SECTION_NAME"
    BY <1>2, HandlePassed, CallErrorFacts, HandleErrorFacts
  <2>2. "ANT_OPTION" \in ChildKinds(h[p].kind) /\ "ANT_OPTION" \in LineKinds
    BY <2>1 DEF ChildKinds, LineKinds
  <2> HIDE DEF error, g, n
  <2>3. /\ WellFormed(g) /\ Keeps(h, g) /\ n \in DOMAIN g
        /\ OrderlyBut(g, {n}, {}) /\ g[n].kind = "ANT_OPTION"
    BY <2>1, <2>2, NodeAddLine DEF g, n
  <2>4. SoundResult(g, f)
    BY <2>3, NameSetIsSound DEF OptionNameSet
  <2>5. /\ OrderlyBut(f.heap, {n}, {})
        /\ f.err = "UE_NONE" => name # NoString /\ NameChanges(g, f.heap, n, name)
    BY <2>3, NameSetIsOrderly DEF OptionNameSet
  <2>6. n \in DOMAIN f.heap /\ WellFormed(f.heap) /\ f.heap[n].kind = "ANT_OPTION"
    BY <2>3, <2>4 DEF SoundResult, Keeps
  <2> HIDE DEF f
  <2>7. SoundResult(f.heap, e)
    BY <2>6, OptionValueSetIsSound
  <2>8. /\ OrderlyBut(e.heap, {n}, {})
        /\ e.err = "UE_NONE" => value # NoString /\ ValueChanges(f.heap, e.heap, n, value)
    BY <2>5, <2>6, OptionValueSetIsOrderly
  <2> HIDE DEF e
  <2>9. SoundResult(g, s)
    BY <2>4, <2>7, KeepsIsTransitive DEF SoundResult
  <2>10. OrderlyBut(s.heap, {n}, {})
    BY <2>5, <2>8
  <2>11. n \in DOMAIN s.heap /\ s.heap[n].kind \in LineKinds
    BY <2>2, <2>3, <2>9 DEF SoundResult, Keeps
  <2>12. s.err = "UE_NONE" => AttributedNode(s.heap, n)
    <3>1. ASSUME s.err = "UE_NONE" PROVE AttributedNode(s.heap, n)
      <4>1. f.err = "UE_NONE" /\ e.err = "UE_NONE" /\ s.heap = e.heap
        BY <3>1
      <4>2. f.heap[n].name = name /\ name # NoString
        BY <2>5, <4>1 DEF NameChanges
      <4>3. /\ e.heap[n].value = value /\ value # NoString
            /\ e.heap[n].name = f.heap[n].name /\ e.heap[n].kind = "ANT_OPTION"
        BY <2>6, <2>8, <4>1 DEF ValueChanges
      <4>4. QED
        BY <4>1, <4>2, <4>3 DEF AttributedNode
    <3>2. QED
      BY <3>1
  <2> HIDE DEF s
  <2>13. r = OrRemove([s EXCEPT !.out = n], n)
    BY <1>1, <1>2 DEF error
  <2>14. QED
    BY <2>9, <2>10, <2>11, <2>12, <2>13, AddedLineResult
<1>3. CASE error # "UE_NONE"
  BY <1>1, <1>3, FailureIsOrderly
<1>4. QED
  BY <1>2, <1>3

\* uci2_node_list_add leaves no list without a name.
LEMMA ListAddIsOrderly ==
    ASSUME NEW h, WellFormed(h), Orderly(h), NEW p \in DOMAIN h \cup {NoNode},
           NEW name \in Strings \cup {NoString}, NEW r, r = ListAdd(h, p, name)
    PROVE  OrderlyResult(r)
<1> DEFINE error == CallError(h, p, {name}, "UNT_SECTION")
<1> DEFINE g == NodeAdd(h, p, "ANT_LIST")
<1> DEFINE n == Newest(g)
<1> DEFINE s == ListNameSet(g, n, name)
<1>1. r = IF error # "UE_NONE" THEN Failure(h, error) ELSE OrRemove([s EXCEPT !.out = n], n)
  BY DEF ListAdd, AddNode
<1>2. CASE error = "UE_NONE"
  <2>1. p \in DOMAIN h /\ h[p].kind = "ANT_SECTION_NAME"
    BY <1>2, HandlePassed, CallErrorFacts, HandleErrorFacts
  <2>2. "ANT_LIST" \in ChildKinds(h[p].kind) /\ "ANT_LIST" \in LineKinds
    BY <2>1 DEF ChildKinds, LineKinds
  <2> HIDE DEF error, g, n
  <2>3. /\ WellFormed(g) /\ Keeps(h, g) /\ n \in DOMAIN g
        /\ OrderlyBut(g, {n}, {}) /\ g[n].kind = "ANT_LIST"
    BY <2>1, <2>2, NodeAddLine DEF g, n
  <2>4. SoundResult(g, s)
    BY <2>3, NameSetIsSound DEF ListNameSet
  <2>5. /\ OrderlyBut(s.heap, {n}, {})
        /\ s.err = "UE_NONE" => name # NoString /\ NameChanges(g, s.heap, n, name)
    BY <2>3, NameSetIsOrderly DEF ListNameSet
  <2>6. n \in DOMAIN s.heap /\ s.heap[n].kind = "ANT_LIST"
    BY <2>3, <2>4 DEF SoundResult, Keeps
  <2> HIDE DEF s
  <2>7. s.err = "UE_NONE" => AttributedNode(s.heap, n)
    BY <2>5, <2>6 DEF NameChanges, AttributedNode
  <2>8. r = OrRemove([s EXCEPT !.out = n], n)
    BY <1>1, <1>2 DEF error
  <2>9. QED
    BY <2>2, <2>4, <2>5, <2>6, <2>7, <2>8, AddedLineResult
<1>3. CASE error # "UE_NONE"
  BY <1>1, <1>3, FailureIsOrderly
<1>4. QED
  BY <1>2, <1>3

\* uci2_node_list_element_add leaves no list element without a value.
LEMMA ListElementAddIsOrderly ==
    ASSUME NEW h, WellFormed(h), Orderly(h), NEW p \in DOMAIN h \cup {NoNode},
           NEW value \in Strings \cup {NoString}, NEW r, r = ListElementAdd(h, p, value)
    PROVE  OrderlyResult(r)
<1> DEFINE error == CallError(h, p, {value}, "UNT_LIST")
<1> DEFINE g == NodeAdd(h, p, "ANT_LIST_ITEM")
<1> DEFINE n == Newest(g)
<1> DEFINE s == ListElementValueSet(g, n, value)
<1>1. r = IF error # "UE_NONE" THEN Failure(h, error) ELSE OrRemove([s EXCEPT !.out = n], n)
  BY DEF ListElementAdd, AddNode
<1>2. CASE error = "UE_NONE"
  <2>1. p \in DOMAIN h /\ h[p].kind = "ANT_LIST"
    BY <1>2, HandlePassed, CallErrorFacts, HandleErrorFacts
  <2>2. "ANT_LIST_ITEM" \in ChildKinds(h[p].kind) /\ "ANT_LIST_ITEM" \in LineKinds
    BY <2>1 DEF ChildKinds, LineKinds
  <2> HIDE DEF error, g, n
  <2>3. /\ WellFormed(g) /\ Keeps(h, g) /\ n \in DOMAIN g
        /\ OrderlyBut(g, {n}, {}) /\ g[n].kind = "ANT_LIST_ITEM"
    BY <2>1, <2>2, NodeAddLine DEF g, n
  <2>4. SoundResult(g, s)
    BY <2>3, ListElementValueSetIsSound
  <2>5. /\ OrderlyBut(s.heap, {n}, {})
        /\ s.err = "UE_NONE" => value # NoString /\ NameChanges(g, s.heap, n, value)
    BY <2>3, ListElementValueSetIsOrderly
  <2>6. n \in DOMAIN s.heap /\ s.heap[n].kind = "ANT_LIST_ITEM"
    BY <2>3, <2>4 DEF SoundResult, Keeps
  <2> HIDE DEF s
  <2>7. s.err = "UE_NONE" => AttributedNode(s.heap, n)
    BY <2>5, <2>6 DEF NameChanges, AttributedNode
  <2>8. r = OrRemove([s EXCEPT !.out = n], n)
    BY <1>1, <1>2 DEF error
  <2>9. QED
    BY <2>2, <2>4, <2>5, <2>6, <2>7, <2>8, AddedLineResult
<1>3. CASE error # "UE_NONE"
  BY <1>1, <1>3, FailureIsOrderly
<1>4. QED
  BY <1>2, <1>3

\* A new section below a section type of its own, before it gets its attributes.
LEMMA NodeAddSection ==
    ASSUME NEW h, WellFormed(h), NEW c \in DOMAIN h, h[c].kind = "ANT_CONFIG",
           NEW g, g = NodeAdd(h, c, "ANT_SECTION_NAME"), NEW n, n = Newest(g),
           NEW t, t = g[n].parent
    PROVE  AddsSection(h, g, c, t, n)
<1> DEFINE f == Added(h, c, "ANT_SECTION_TYPE")
<1> DEFINE u == Len(h) + 1
<1> DEFINE l == Len(f) + 1
<1>1. "ANT_SECTION_TYPE" \in ChildKinds(h[c].kind)
  BY DEF ChildKinds
<1>2. AddChild(h, c, "ANT_SECTION_TYPE") = f
  BY AddChildAdds
<1>3. /\ WellFormed(f) /\ Len(f) = Len(h) + 1 /\ DOMAIN f = 1 .. Len(h) + 1
      /\ f[u].kind = "ANT_SECTION_TYPE"
  BY <1>1, AddedIsWellFormed
<1>4. g = AddChild(f, Newest(f), "ANT_SECTION_NAME")
  BY <1>2 DEF NodeAdd
<1> HIDE DEF f
<1>5. Newest(f) = u
  BY <1>3 DEF Newest
<1>6. g = Added(f, u, "ANT_SECTION_NAME")
  BY <1>3, <1>4, <1>5, AddChildAdds
<1>7. Len(h) \in Nat
  BY WellFormedUnfolds
<1>8. u \in DOMAIN f /\ "ANT_SECTION_NAME" \in ChildKinds(f[u].kind)
  BY <1>3, <1>7 DEF ChildKinds
<1>9. n = l
  <2>1. Len(g) = Len(f) + 1
    BY <1>3, <1>6, <1>8, AddedIsWellFormed
  <2>2. QED
    BY <2>1 DEF Newest
<1> HIDE DEF u, l
<1>10. AddsSection(h, g, c, u, l)
  BY <1>6, AddedSectionStays DEF f, u, l
<1>11. t = u
  BY <1>9, <1>10 DEF AddsSection
<1>12. QED
  BY <1>9, <1>10, <1>11

\* The type of a new section is not refused.
LEMMA NewSectionPasses ==
    ASSUME NEW g, NEW n, n # NoNode, g[n].parent # NoNode, g[n].kind = "ANT_SECTION_NAME",
           NEW type, type # NoString
    PROVE  CallError(g, n, {type}, "UNT_SECTION") = "UE_NONE"
<1>1. PublicType["ANT_SECTION_NAME"] = "UNT_SECTION" /\ "ANT_SECTION_NAME" \in DOMAIN PublicType
  BY DEF PublicType
<1>2. QED
  BY <1>1 DEF CallError, HandleError, NodeTypeError, Deleted

\* uci2_node_section_add leaves no section without a type or a name, and the section
\* types merged.
LEMMA SectionAddIsOrderly ==
    ASSUME NEW h, WellFormed(h), Orderly(h), NEW p \in DOMAIN h \cup {NoNode},
           NEW type \in TypeNames \cup {NoString}, NEW name \in Strings \cup {NoString},
           NEW r, r = SectionAdd(h, p, type, name)
    PROVE  OrderlyResult(r)
<1> DEFINE error == CallError(h, p, {type}, "UNT_ROOT")
<1> DEFINE g == NodeAdd(h, p, "ANT_SECTION_NAME")
<1> DEFINE n == Newest(g)
<1> DEFINE f == SectionTypeSet(g, n, type)
<1> DEFINE e == SectionNameSet(f.heap, n, name)
<1> DEFINE s == IF name = NoString THEN f ELSE IF f.err = "UE_NONE" THEN e ELSE f
<1>1. r = IF error # "UE_NONE" THEN Failure(h, error) ELSE OrRemove([s EXCEPT !.out = n], n)
  BY DEF SectionAdd, AddNode, Then
<1>2. CASE error = "UE_NONE"
  <2>1. p \in DOMAIN h /\ h[p].kind = "ANT_CONFIG" /\ type \in TypeNames /\ type # NoString
    BY <1>2, HandlePassed, CallErrorFacts, HandleErrorFacts
  <2> HIDE DEF error, g, n
  <2> DEFINE t == g[n].parent
  <2>2. /\ t \notin DOMAIN h /\ n \notin DOMAIN h /\ n # t
        /\ DOMAIN g = DOMAIN h \cup {t, n}
        /\ g[t].kind = "ANT_SECTION_TYPE" /\ g[t].parent = p
        /\ g[n].kind = "ANT_SECTION_NAME"
        /\ TypesStay(h, g, {p}) /\ LinesStay(h, g)
        /\ \A m \in DOMAIN h : AttributesStay(h, g, m)
    <3>1. AddsSection(h, g, p, t, n)
      BY <2>1, NodeAddSection DEF g, n
    <3>2. QED
      BY <3>1 DEF AddsSection
  <2>3. WellFormed(g) /\ Keeps(h, g) /\ n \in DOMAIN g
    BY <2>1, NodeAddIsSound DEF g, n
  <2> HIDE DEF t
  <2>4. OrderlyBut(g, {n, t}, {p})
    <3>1. OrderlyBut(h, {}, {p})
      BY OrderlyParts DEF OrderlyBut
    <3>2. \A m \in DOMAIN g \ {n, t} : AttributedNode(g, m)
      <4>1. \A m \in DOMAIN h : AttributedNode(h, m)
        BY <3>1 DEF OrderlyBut
      <4>2. QED
        BY <2>2, <4>1, AttributedStays
    <3>3. {p} \subseteq DOMAIN h
      BY <2>1
    <3>4. QED
      BY <2>2, <3>1, <3>2, <3>3, OrderlyStays
  <2>5. CallError(g, n, {type}, "UNT_SECTION") = "UE_NONE"
    <3>1. n # NoNode /\ t # NoNode
      BY <2>2, <2>3, NoNodeIsNoNode
    <3>2. QED
      BY <2>1, <2>2, <3>1, NewSectionPasses DEF t
  <2>6. /\ f.err \in {"UE_NONE", "ABORTED"}
        /\ f.err = "UE_NONE" => Orderly(f.heap)
    BY <2>1, <2>2, <2>3, <2>4, <2>5, SectionTypeSetIsOrderly DEF t
  <2>7. SoundResult(g, f)
    BY <2>1, <2>3, SectionTypeSetIsSound
  <2>8. n \in DOMAIN f.heap /\ WellFormed(f.heap)
    BY <2>3, <2>7 DEF SoundResult, Keeps
  <2> HIDE DEF f
  <2>9. SoundResult(f.heap, e)
    BY <2>8, NameSetIsSound DEF SectionNameSet
  <2>10. f.err = "UE_NONE" => Orderly(e.heap)
    <3>1. ASSUME f.err = "UE_NONE" PROVE Orderly(e.heap)
      <4>1. OrderlyBut(f.heap, {}, {})
        BY <2>6, <3>1, OrderlyParts
      <4>2. OrderlyBut(e.heap, {}, {})
        BY <2>8, <4>1, NameSetIsOrderly DEF SectionNameSet
      <4>3. QED
        BY <4>2, OrderlyParts
    <3>2. QED
      BY <3>1
  <2> HIDE DEF e
  <2>11. SoundResult(g, s)
    BY <2>7, <2>9, KeepsIsTransitive DEF SoundResult
  <2>12. s.err # "ABORTED" => Orderly(s.heap)
    BY <2>6, <2>10
  <2> HIDE DEF s
  <2>13. r = OrRemove([s EXCEPT !.out = n], n)
    BY <1>1, <1>2 DEF error
  <2>14. CASE s.err \in {"UE_NONE", "ABORTED"}
    <3>1. r.heap = s.heap /\ r.err = s.err
      BY <2>11, <2>13, <2>14, OrRemoveFacts
    <3>2. QED
      BY <2>12, <3>1 DEF OrderlyResult
  <2>15. CASE s.err \notin {"UE_NONE", "ABORTED"}
    <3>1. r.heap = NodeRemove(s.heap, n)
      BY <2>11, <2>13, <2>15, OrRemoveFacts
    <3>2. WellFormed(s.heap) /\ n \in DOMAIN s.heap
      BY <2>3, <2>11 DEF SoundResult, Keeps
    <3>3. OrderlyBut(s.heap, {}, {})
      BY <2>12, <2>15, OrderlyParts
    <3>4. OrderlyBut(r.heap, {}, {})
      BY <3>1, <3>2, <3>3, NodeRemoveIsOrderly
    <3>5. QED
      BY <3>4, OrderlyParts DEF OrderlyResult
  <2>16. QED
    BY <2>14, <2>15
<1>3. CASE error # "UE_NONE"
  BY <1>1, <1>3, FailureIsOrderly
<1>4. QED
  BY <1>2, <1>3

-----------------------------------------------------------------------------
(***************************************************************************)
(* The theorems about orderly heaps.                                       *)
(***************************************************************************)

\* Every call keeps an orderly heap orderly.
LEMMA NextIsOrderly ==
    ASSUME SoundState, Orderly(heap), Next
    PROVE  Orderly(heap')
<1>1. WellFormed(heap) /\ OrderlyBut(heap, {}, {})
  BY OrderlyParts DEF SoundState
<1>2. /\ OrNull(TypeNames) \subseteq Strings \cup {NoString}
      /\ OrNull(SectionNames) \subseteq Strings \cup {NoString}
      /\ OrNull(OptionNames) \subseteq Strings \cup {NoString}
      /\ OrNull(Values) \subseteq Strings \cup {NoString}
      /\ OrNull(TypeNames) = TypeNames \cup {NoString}
  BY DEF OrNull, Strings
<1>3. PICK n \in DOMAIN heap \cup {NoNode} :
          EditLines(n) \/ EditSections(n) \/ RetypeSection(n) \/ RemoveNode(n)
  BY DEF Next, Handles
<1>4. SUFFICES \E r : OrderlyResult(r) /\ Call(r)
  <2>1. ASSUME NEW r, OrderlyResult(r), Call(r)
        PROVE  Orderly(heap')
    BY <2>1 DEF Call, OrderlyResult
  <2>2. QED
    BY <2>1
<1>5. ASSUME NEW r, OrderlyBut(r.heap, {}, {}) PROVE OrderlyResult(r)
  BY <1>5, OrderlyParts DEF OrderlyResult
<1>6. CASE AddSection(n)
  BY <1>1, <1>2, <1>6, SectionAddIsOrderly DEF AddSection
<1>7. CASE AddOption(n)
  BY <1>1, <1>2, <1>7, OptionAddIsOrderly DEF AddOption
<1>8. CASE AddList(n)
  BY <1>1, <1>2, <1>8, ListAddIsOrderly DEF AddList
<1>9. CASE AddListElement(n)
  BY <1>1, <1>2, <1>9, ListElementAddIsOrderly DEF AddListElement
<1>10. CASE RenameSection(n)
  <2>1. PICK name \in OrNull(SectionNames) : Call(NameSet(heap, n, name, "UNT_SECTION"))
    BY <1>10 DEF RenameSection, SectionNameSet
  <2>2. OrderlyBut(NameSet(heap, n, name, "UNT_SECTION").heap, {}, {})
    BY <1>1, NameSetIsOrderly
  <2>3. QED
    BY <1>5, <2>1, <2>2
<1>11. CASE RenameOption(n)
  <2>1. PICK name \in OrNull(OptionNames) : Call(NameSet(heap, n, name, "UNT_OPTION"))
    BY <1>11 DEF RenameOption, OptionNameSet
  <2>2. OrderlyBut(NameSet(heap, n, name, "UNT_OPTION").heap, {}, {})
    BY <1>1, NameSetIsOrderly
  <2>3. QED
    BY <1>5, <2>1, <2>2
<1>12. CASE RenameList(n)
  <2>1. PICK name \in OrNull(OptionNames) : Call(NameSet(heap, n, name, "UNT_LIST"))
    BY <1>12 DEF RenameList, ListNameSet
  <2>2. OrderlyBut(NameSet(heap, n, name, "UNT_LIST").heap, {}, {})
    BY <1>1, NameSetIsOrderly
  <2>3. QED
    BY <1>5, <2>1, <2>2
<1>13. CASE SetOptionValue(n)
  <2>1. PICK value \in OrNull(Values) : Call(OptionValueSet(heap, n, value))
    BY <1>13 DEF SetOptionValue
  <2>2. OrderlyBut(OptionValueSet(heap, n, value).heap, {}, {})
    BY <1>1, OptionValueSetIsOrderly
  <2>3. QED
    BY <1>5, <2>1, <2>2
<1>14. CASE SetListElement(n)
  <2>1. PICK value \in OrNull(Values) : Call(ListElementValueSet(heap, n, value))
    BY <1>14 DEF SetListElement
  <2>2. OrderlyBut(ListElementValueSet(heap, n, value).heap, {}, {})
    BY <1>1, ListElementValueSetIsOrderly
  <2>3. QED
    BY <1>5, <2>1, <2>2
<1>15. CASE RetypeSection(n)
  <2>1. PICK type \in OrNull(TypeNames) : Call(SectionTypeSet(heap, n, type))
    BY <1>15 DEF RetypeSection
  <2> DEFINE error == CallError(heap, n, {type}, "UNT_SECTION")
  <2>2. CASE error # "UE_NONE"
    <3>1. SectionTypeSet(heap, n, type) = Failure(heap, error)
      BY <2>2 DEF SectionTypeSet
    <3>2. QED
      BY <2>1, <3>1, FailureIsOrderly
  <2>3. CASE error = "UE_NONE"
    <3>1. n \in DOMAIN heap /\ type \in TypeNames
      BY <1>2, <2>3, HandlePassed, CallErrorFacts
    <3> DEFINE t == heap[n].parent
    <3> DEFINE c == heap[t].parent
    <3>2. OrderlyBut(heap, {n, t}, {c})
      BY <1>1 DEF OrderlyBut
    <3>3. OrderlyResult(SectionTypeSet(heap, n, type))
      BY <1>1, <2>3, <3>1, <3>2, SectionTypeSetIsOrderly DEF OrderlyResult
    <3>4. QED
      BY <2>1, <3>3
  <2>4. QED
    BY <2>2, <2>3
<1>16. CASE RemoveNode(n)
  <2>1. OrderlyBut(NodeRemove(heap, n), {}, {})
    BY <1>1, NodeRemoveIsOrderly
  <2>2. OrderlyResult(Success(NodeRemove(heap, n), NoNode))
    BY <2>1, ResultFacts, OrderlyParts DEF OrderlyResult
  <2>3. QED
    BY <1>16, <2>2 DEF RemoveNode
<1>17. QED
  BY <1>3, <1>6, <1>7, <1>8, <1>9, <1>10, <1>11, <1>12, <1>13, <1>14, <1>15, <1>16
     DEF EditLines, EditSections

\* The inductive invariant with the other things the library keeps of the AST.
OrderlyState == SoundState /\ Orderly(heap)

\* The AST stays orderly however long the client goes on.
THEOREM SpecIsOrderly == Spec => []OrderlyState
<1>1. Init => OrderlyState
  BY InitIsSound, InitialAstsAssumption DEF Init, OrderlyState
<1>2. OrderlyState /\ [Next]_vars => OrderlyState'
  <2>1. ASSUME OrderlyState, Next PROVE OrderlyState'
    BY <2>1, NextIsSound, NextIsOrderly DEF OrderlyState
  <2>2. ASSUME OrderlyState, UNCHANGED vars PROVE OrderlyState'
    BY <2>2, StutterIsSound DEF OrderlyState, vars
  <2>3. QED
    BY <2>1, <2>2
<1>3. QED
  BY <1>1, <1>2, PTL DEF Spec

\* Of the section types with one name all but the first are deleted and empty.
THEOREM TypesStayMergedBelow == Spec => []TypesMerged
<1>1. OrderlyState => TypesMerged
  BY DEF OrderlyState, Orderly, TypesMerged
<1>2. QED
  BY <1>1, SpecIsOrderly, PTL

\* No two live options or lists of a section have one name.
THEOREM OptionNamesStayDistinct == Spec => []OptionNamesDistinct
<1>1. OrderlyState => OptionNamesDistinct
  BY DEF OrderlyState, Orderly, OptionNamesDistinct
<1>2. QED
  BY <1>1, SpecIsOrderly, PTL

\* No getter finds an attribute missing that a live node of the kind has.
THEOREM AttributesStayPresent == Spec => []AttributesPresent
<1>1. ASSUME OrderlyState, NEW n \in Node, Live(n)
      PROVE  /\ heap[n].kind = "ANT_SECTION_NAME" =>
                    /\ SectionTypeGetError(heap, n) = "UE_NONE"
                    /\ SectionNameGetError(heap, n) = "UE_NONE"
             /\ heap[n].kind = "ANT_OPTION" =>
                    /\ OptionNameGetError(heap, n) = "UE_NONE"
                    /\ OptionValueGetError(heap, n) = "UE_NONE"
             /\ heap[n].kind = "ANT_LIST" => ListNameGetError(heap, n) = "UE_NONE"
             /\ heap[n].kind = "ANT_LIST_ITEM" => ListElementValueGetError(heap, n) = "UE_NONE"
  <2>1. /\ n \in DOMAIN heap /\ WellFormed(heap) /\ heap[n].parent # NoNode
        /\ \A m \in DOMAIN heap : AttributedNode(heap, m)
    BY <1>1, OrderlyParts DEF OrderlyState, SoundState, Node, Live, Deleted, OrderlyBut
  <2>2. n # NoNode
    BY <2>1, NoNodeIsNoNode
  <2>3. /\ heap[n].kind = "ANT_SECTION_NAME" => HandleError(heap, n, "UNT_SECTION") = "UE_NONE"
        /\ heap[n].kind = "ANT_OPTION" => HandleError(heap, n, "UNT_OPTION") = "UE_NONE"
        /\ heap[n].kind = "ANT_LIST" => HandleError(heap, n, "UNT_LIST") = "UE_NONE"
        /\ heap[n].kind = "ANT_LIST_ITEM" => HandleError(heap, n, "UNT_LIST_ELEMENT") = "UE_NONE"
    BY <2>1, <2>2 DEF HandleError, NodeTypeError, Deleted, PublicType
  <2>4. heap[n].kind = "ANT_SECTION_NAME" =>
            heap[heap[n].parent].name # NoString /\ heap[n].name # NoString
    BY <2>1, ParentKinds DEF AttributedNode
  <2>5. /\ heap[n].kind \in LineKinds => heap[n].name # NoString
        /\ heap[n].kind = "ANT_OPTION" => heap[n].value # NoString
    BY <2>1 DEF AttributedNode, Deleted
  <2>6. heap[n].kind = "ANT_SECTION_NAME" => /\ SectionTypeGetError(heap, n) = "UE_NONE"
                                             /\ SectionNameGetError(heap, n) = "UE_NONE"
    BY <2>3, <2>4 DEF SectionTypeGetError, SectionNameGetError, GetterError
  <2>7. heap[n].kind = "ANT_OPTION" => /\ OptionNameGetError(heap, n) = "UE_NONE"
                                       /\ OptionValueGetError(heap, n) = "UE_NONE"
    BY <2>3, <2>5 DEF OptionNameGetError, OptionValueGetError, GetterError, LineKinds
  <2>8. heap[n].kind = "ANT_LIST" => ListNameGetError(heap, n) = "UE_NONE"
    BY <2>3, <2>5 DEF ListNameGetError, GetterError, LineKinds
  <2>9. heap[n].kind = "ANT_LIST_ITEM" => ListElementValueGetError(heap, n) = "UE_NONE"
    BY <2>3, <2>5 DEF ListElementValueGetError, GetterError, LineKinds
  <2>10. QED
    BY <2>6, <2>7, <2>8, <2>9
<1>2. OrderlyState => AttributesPresent
  BY <1>1 DEF AttributesPresent
<1>3. QED
  BY <1>2, SpecIsOrderly, PTL

-----------------------------------------------------------------------------
(***************************************************************************)
(* What keeps the sections below a type apart.                             *)
(***************************************************************************)

\* No section waits for a name, the counters are ahead of the names they gave, and the
\* names of live sections of one type differ.
Tidy(h) == Numbered(h) /\ SectionsDistinct(h)

\* From h to g no node is lost, and no deleted one comes back.
DeletedStay(h, g) ==
    DOMAIN h \subseteq DOMAIN g /\ \A m \in DOMAIN h : Deleted(h, m) => Deleted(g, m)

\* From h to g live section types lose sections at most.
SectionsStay(h, g) ==
    \A t \in DOMAIN g : g[t].kind = "ANT_SECTION_TYPE" /\ ~Deleted(g, t) =>
        /\ t \in DOMAIN h /\ h[t].kind = "ANT_SECTION_TYPE" /\ ~Deleted(h, t)
        /\ g[t].name = h[t].name /\ g[t].unnamed = h[t].unnamed
        /\ \A s \in KidSet(g, t) : ~Deleted(g, s) =>
              /\ s \in KidSet(h, t) /\ ~Deleted(h, s)
              /\ g[s].kind = h[s].kind /\ g[s].name = h[s].name

\* So the sections of g are as tidy as those of h.
StaysTidy(h, g) == DeletedStay(h, g) /\ (Tidy(h) => Tidy(g))

\* A heap is as tidy as itself.
LEMMA TidyIsReflexive == ASSUME NEW h PROVE StaysTidy(h, h)
BY DEF StaysTidy, DeletedStay

\* Two steps that keep the sections tidy keep them tidy together.
LEMMA TidyIsTransitive ==
    ASSUME NEW f, NEW g, NEW h, StaysTidy(f, g), StaysTidy(g, h)
    PROVE  StaysTidy(f, h)
BY DEF StaysTidy, DeletedStay

\* Where the sections stay, they stay tidy.
LEMMA SectionsStayTidy ==
    ASSUME NEW h, NEW g, DeletedStay(h, g), SectionsStay(h, g)
    PROVE  StaysTidy(h, g)
<1>1. SUFFICES ASSUME Tidy(h) PROVE Numbered(g) /\ SectionsDistinct(g)
  BY DEF StaysTidy, Tidy
<1>2. ASSUME NEW t \in DOMAIN g, g[t].kind = "ANT_SECTION_TYPE", ~Deleted(g, t),
             NEW s \in KidSet(g, t), ~Deleted(g, s)
      PROVE  /\ ~Waiting(g, s)
             /\ g[s].name \in UnnamedNames /\ g[s].name[1] = g[t].name
                   => g[s].name[2] < g[t].unnamed
  <2>1. /\ t \in DOMAIN h /\ h[t].kind = "ANT_SECTION_TYPE" /\ ~Deleted(h, t)
        /\ g[t].name = h[t].name /\ g[t].unnamed = h[t].unnamed
        /\ s \in KidSet(h, t) /\ ~Deleted(h, s)
        /\ g[s].kind = h[s].kind /\ g[s].name = h[s].name
    BY <1>2 DEF SectionsStay
  <2>2. /\ ~Waiting(h, s)
        /\ h[s].name \in UnnamedNames /\ h[s].name[1] = h[t].name
              => h[s].name[2] < h[t].unnamed
    BY <1>1, <2>1 DEF Tidy, Numbered
  <2>3. QED
    BY <1>2, <2>1, <2>2 DEF Waiting
<1>3. Numbered(g)
  BY <1>2 DEF Numbered, Waiting
<1>4. SectionsDistinct(g)
  BY <1>1 DEF SectionsStay, Tidy, SectionsDistinct
<1>5. QED
  BY <1>3, <1>4

\* A new line, a name of one, a value, and the removal of a node.
LEMMA AddedLineStaysTidy ==
    ASSUME NEW h, NEW g, NEW p \in DOMAIN h, NEW kind \in LineKinds, NEW L,
           h[p].kind # "ANT_SECTION_TYPE", WellFormed(h), Adds(h, g, p, kind, L)
    PROVE  StaysTidy(h, g)
<1>1. /\ DOMAIN g = DOMAIN h \cup {L} /\ g[L].kind = kind
      /\ \A m \in DOMAIN h : /\ g[m].kind = h[m].kind /\ g[m].name = h[m].name
                             /\ g[m].parent = h[m].parent /\ g[m].unnamed = h[m].unnamed
                             /\ m # p => KidSet(g, m) = KidSet(h, m)
  BY DEF Adds, AddedNode
<1>2. \A m \in DOMAIN h : KidSet(h, m) \subseteq DOMAIN h
  BY WellFormedUnfolds, KidsFacts
<1>3. DeletedStay(h, g) /\ SectionsStay(h, g)
  BY <1>1, <1>2 DEF DeletedStay, SectionsStay, Deleted, LineKinds
<1>4. QED
  BY <1>3, SectionsStayTidy

\* A line that gets a name leaves the sections as they are.
LEMMA NamedLineStaysTidy ==
    ASSUME NEW h, WellFormed(h), NEW g, NEW n, h[n].kind \in LineKinds, NEW x,
           NameChanges(h, g, n, x)
    PROVE  StaysTidy(h, g)
<1>1. \A m \in DOMAIN h : KidSet(g, m) = KidSet(h, m) /\ KidSet(h, m) \subseteq DOMAIN h
  BY SMTT(30), WellFormedUnfolds, KidsFacts DEF NameChanges, SameArray, KidSet
<1>2. \A t \in DOMAIN h : h[t].kind = "ANT_SECTION_TYPE" =>
          \A s \in KidSet(h, t) : h[s].kind = "ANT_SECTION_NAME"
  BY WellFormedUnfolds DEF LayeredNode, ChildKinds
<1>3. DeletedStay(h, g)
  BY DEF DeletedStay, Deleted, NameChanges
<1>4. SectionsStay(h, g)
  BY <1>1, <1>2 DEF SectionsStay, Deleted, LineKinds, NameChanges
<1>5. QED
  BY <1>3, <1>4, SectionsStayTidy

\* So does a node that gets a value.
LEMMA ValuedStaysTidy ==
    ASSUME NEW h, WellFormed(h), NEW g, NEW n, NEW x, ValueChanges(h, g, n, x)
    PROVE  StaysTidy(h, g)
<1>1. \A m \in DOMAIN h : KidSet(g, m) = KidSet(h, m) /\ KidSet(h, m) \subseteq DOMAIN h
  BY SMTT(30), WellFormedUnfolds, KidsFacts DEF ValueChanges, SameArray, KidSet
<1>2. DeletedStay(h, g)
  BY DEF DeletedStay, Deleted, ValueChanges
<1>3. SectionsStay(h, g)
  BY <1>1 DEF SectionsStay, Deleted, ValueChanges
<1>4. QED
  BY <1>2, <1>3, SectionsStayTidy

\* A node that is removed takes sections away.
LEMMA RemovedStaysTidy ==
    ASSUME NEW h, WellFormed(h), NEW n \in DOMAIN h \cup {NoNode}, NEW g, g = NodeRemove(h, n)
    PROVE  StaysTidy(h, g)
<1>1. CASE n = NoNode
  BY <1>1, TidyIsReflexive DEF NodeRemove
<1>2. CASE n # NoNode
  <2>1. ParentChanges(h, g, n, NoNode)
    BY <1>2, RemovedDetails DEF NodeRemove
  <2>2. \A m \in DOMAIN h : KidSet(g, m) = KidSet(h, m) /\ KidSet(h, m) \subseteq DOMAIN h
    <3>1. \A m \in DOMAIN h : KidSet(g, m) = KidSet(h, m)
      BY <2>1 DEF ParentChanges, SameArray, KidSet
    <3>2. \A m \in DOMAIN h : KidSet(h, m) \subseteq DOMAIN h
      BY WellFormedUnfolds, KidsFacts
    <3>3. QED
      BY <3>1, <3>2
  <2>3. \A m \in DOMAIN h : g[m].parent = h[m].parent \/ g[m].parent = NoNode
    BY <2>1 DEF ParentChanges
  <2>4. DeletedStay(h, g) /\ SectionsStay(h, g)
    BY <2>1, <2>2, <2>3 DEF DeletedStay, SectionsStay, Deleted, ParentChanges
  <2>5. QED
    BY <2>4, SectionsStayTidy
<1>3. QED
  BY <1>1, <1>2

\* A section that is not deleted has the section type that holds it for a parent.
LEMMA LiveSections ==
    ASSUME NEW h, WellFormed(h), NEW t \in DOMAIN h, h[t].kind = "ANT_SECTION_TYPE"
    PROVE  /\ t # NoNode /\ t # Pool
           /\ \A s \in KidSet(h, t) : s \in DOMAIN h /\ h[s].kind = "ANT_SECTION_NAME"
           /\ \A s \in KidSet(h, t) : h[s].parent # NoNode => h[s].parent = t
           /\ \A s \in DOMAIN h : h[s].parent = t => s \in KidSet(h, t)
<1>1. t # NoNode /\ t # Pool
  BY WellFormedUnfolds DEF NoNode, Pool
<1>2. \A s \in KidSet(h, t) : s \in DOMAIN h /\ h[s].kind = "ANT_SECTION_NAME"
  <2>1. KidSet(h, t) \subseteq DOMAIN h
    BY WellFormedUnfolds, KidsFacts
  <2>2. \A s \in KidSet(h, t) : h[s].kind \in ChildKinds(h[t].kind)
    BY WellFormedUnfolds DEF LayeredNode
  <2>3. QED
    BY <2>1, <2>2 DEF ChildKinds
<1>3. ASSUME NEW s \in KidSet(h, t), h[s].parent # NoNode PROVE h[s].parent = t
  <2>1. s \in DOMAIN h /\ h[s].parent \in DOMAIN h
    BY <1>2, <1>3, ParentKinds
  <2>2. s \in KidSet(h, h[s].parent)
    BY <2>1 DEF WellFormed, ParentsAgree
  <2>3. PICK k \in 1 .. h[t].number, l \in 1 .. h[h[s].parent].number :
            h[t].children[k] = s /\ h[h[s].parent].children[l] = s
    BY <2>2 DEF KidSet
  <2>4. QED
    BY <2>1, <2>3 DEF WellFormed, DisjointChildren
<1>4. \A s \in DOMAIN h : h[s].parent = t => s \in KidSet(h, t)
  BY DEF WellFormed, ParentsAgree
<1>5. QED
  BY <1>1, <1>2, <1>3, <1>4

\* A section gets a name that no live section of its type has, and no "@...".
LEMMA NamedSectionStaysTidy ==
    ASSUME NEW h, WellFormed(h), NEW g, NEW n \in DOMAIN h, h[n].kind = "ANT_SECTION_NAME",
           h[n].parent # NoNode, NEW x, NameChanges(h, g, n, x), ~NameTaken(h, n, x)
    PROVE  /\ DeletedStay(h, g)
           /\ x \notin AtNames => StaysTidy(h, g)
<1>1. DeletedStay(h, g)
  BY DEF DeletedStay, Deleted, NameChanges
<1>2. SUFFICES ASSUME x \notin AtNames, Tidy(h) PROVE Numbered(g) /\ SectionsDistinct(g)
  BY <1>1 DEF StaysTidy, Tidy
<1>3. \A t \in DOMAIN h : KidSet(g, t) = KidSet(h, t)
  BY DEF NameChanges, SameArray, KidSet
<1>4. x # Placeholder /\ x \notin UnnamedNames
  BY <1>2 DEF AtNames
<1>5. ASSUME NEW t \in DOMAIN g, g[t].kind = "ANT_SECTION_TYPE", ~Deleted(g, t)
      PROVE  /\ t \in DOMAIN h /\ h[t].kind = "ANT_SECTION_TYPE" /\ ~Deleted(h, t)
             /\ g[t] = h[t] /\ KidSet(g, t) = KidSet(h, t)
  BY <1>3, <1>5 DEF NameChanges, Deleted
<1>6. Numbered(g)
  <2>1. ASSUME NEW t \in DOMAIN g, g[t].kind = "ANT_SECTION_TYPE", ~Deleted(g, t),
               NEW s \in KidSet(g, t)
        PROVE  /\ ~Waiting(g, s)
               /\ ~Deleted(g, s) /\ g[s].name \in UnnamedNames /\ g[s].name[1] = g[t].name
                     => g[s].name[2] < g[t].unnamed
    <3>1. s \in DOMAIN h
      BY <1>5, <2>1, LiveSections
    <3>2. CASE s = n
      BY <1>4, <3>2 DEF Waiting, NameChanges
    <3>3. CASE s # n
      <4>1. g[s] = h[s]
        BY <3>1, <3>3 DEF NameChanges
      <4>2. QED
        BY <1>2, <1>5, <2>1, <4>1 DEF Tidy, Numbered, Waiting, Deleted
    <3>4. QED
      BY <3>2, <3>3
  <2>2. QED
    BY <2>1 DEF Numbered
<1>7. SectionsDistinct(g)
  <2>1. ASSUME NEW t \in DOMAIN g, g[t].kind = "ANT_SECTION_TYPE", ~Deleted(g, t),
               NEW k \in KidSet(g, t), NEW l \in KidSet(g, t),
               ~Deleted(g, k), ~Deleted(g, l), g[k].name = g[l].name, k # l
        PROVE  FALSE
    <3>1. k \in DOMAIN h /\ l \in DOMAIN h
      BY <1>5, <2>1, LiveSections
    <3>2. ~Deleted(h, k) /\ ~Deleted(h, l)
      BY <2>1, <3>1 DEF Deleted, NameChanges
    <3>3. \A s \in KidSet(h, t) : ~Deleted(h, s) /\ s # n => ~(n \in KidSet(h, t)) \/ h[s].name # x
      <4>1. n \in KidSet(h, t) => h[n].parent = t
        BY <1>5, <2>1, LiveSections
      <4>2. QED
        BY <4>1 DEF NameTaken
    <3>4. g[n].name = x /\ \A s \in DOMAIN h : s # n => g[s].name = h[s].name
      BY DEF NameChanges
    <3>5. CASE k # n /\ l # n
      BY <1>2, <1>5, <2>1, <3>1, <3>2, <3>4, <3>5 DEF Tidy, SectionsDistinct
    <3>6. CASE k = n \/ l = n
      BY <1>5, <2>1, <3>1, <3>2, <3>3, <3>4, <3>6
    <3>7. QED
      BY <3>5, <3>6
  <2>2. QED
    BY <2>1 DEF SectionsDistinct
<1>8. QED
  BY <1>6, <1>7

-----------------------------------------------------------------------------
(***************************************************************************)
(* uci2_node_section_add: the type of the new section is merged with the   *)
(* others, and the section is numbered.                                    *)
(***************************************************************************)

\* From h to g section n is new and maybe a section type above it; other nodes keep
\* their parents or are removed.
BringsIn(h, g, n) ==
    /\ n \notin DOMAIN h /\ n \in DOMAIN g /\ DOMAIN h \subseteq DOMAIN g
    /\ g[n].kind = "ANT_SECTION_NAME"
    /\ \A s \in DOMAIN h :
          /\ g[s].kind = h[s].kind /\ g[s].name = h[s].name
          /\ g[s].parent # NoNode =>
                g[s].parent = h[s].parent /\ g[s].unnamed = h[s].unnamed
    /\ \A s \in DOMAIN g \ DOMAIN h : s # n => g[s].kind = "ANT_SECTION_TYPE"

\* From h to g live section types get no section but n below u, and no name changes.
OnlyGets(h, g, n, u) ==
    \A t \in DOMAIN g : g[t].kind = "ANT_SECTION_TYPE" /\ ~Deleted(g, t) =>
        /\ t \in DOMAIN h => /\ h[t].kind = "ANT_SECTION_TYPE" /\ ~Deleted(h, t)
                             /\ g[t].name = h[t].name
                             /\ h[t].unnamed \in Nat /\ g[t].unnamed \in Nat
                             /\ h[t].unnamed <= g[t].unnamed
        /\ \A s \in KidSet(g, t) : ~Deleted(g, s) =>
              \/ s = n /\ t = u
              \/ /\ s # n /\ t \in DOMAIN h /\ s \in KidSet(h, t) /\ ~Deleted(h, s)
                 /\ g[s].kind = h[s].kind /\ g[s].name = h[s].name

\* From h to g section n has got a name from the counter of section type u.
GivenName(h, g, n, u) ==
    \E i \in Nat : /\ g[n].name = UnnamedName(g[u].name, i)
                   /\ g[u].unnamed \in Nat /\ i < g[u].unnamed
                   /\ u \in DOMAIN h => h[u].unnamed <= i

\* A section type that is not deleted, and a section below it that is not either.
LiveType(h, t) == t \in DOMAIN h /\ h[t].kind = "ANT_SECTION_TYPE" /\ ~Deleted(h, t)
LiveKid(h, t, s) == s \in KidSet(h, t) /\ ~Deleted(h, s)

\* That keeps the sections tidy.
LEMMA NewSectionStaysTidy ==
    ASSUME NEW h, NEW g, NEW n, NEW u, OnlyGets(h, g, n, u), GivenName(h, g, n, u), Tidy(h),
           g[u].name \in TypeNames
    PROVE  Tidy(g)
<1>1. PICK i \in Nat : /\ g[n].name = UnnamedName(g[u].name, i)
                       /\ g[u].unnamed \in Nat /\ i < g[u].unnamed
                       /\ u \in DOMAIN h => h[u].unnamed <= i
  BY DEF GivenName
<1>2. /\ g[n].name \in UnnamedNames /\ g[n].name # Placeholder
      /\ g[n].name[1] = g[u].name /\ g[n].name[2] = i
  BY <1>1, NamesAssumption DEF UnnamedName, UnnamedNames
<1> DEFINE Type(t) == t \in DOMAIN g /\ g[t].kind = "ANT_SECTION_TYPE" /\ ~Deleted(g, t)
<1> DEFINE Kid(t, s) == s \in KidSet(g, t) /\ ~Deleted(g, s)
<1>3. ASSUME NEW t, Type(t), NEW s, Kid(t, s), s # n
      PROVE  /\ t \in DOMAIN h /\ h[t].kind = "ANT_SECTION_TYPE" /\ ~Deleted(h, t)
             /\ g[t].name = h[t].name /\ s \in KidSet(h, t) /\ ~Deleted(h, s)
             /\ h[t].unnamed \in Nat /\ g[t].unnamed \in Nat /\ h[t].unnamed <= g[t].unnamed
             /\ g[s].kind = h[s].kind /\ g[s].name = h[s].name
             /\ ~Waiting(h, s)
             /\ h[s].name \in UnnamedNames /\ h[s].name[1] = h[t].name
                   => h[s].name[2] < h[t].unnamed
  <2>1. /\ t \in DOMAIN h /\ h[t].kind = "ANT_SECTION_TYPE" /\ ~Deleted(h, t)
        /\ g[t].name = h[t].name /\ s \in KidSet(h, t) /\ ~Deleted(h, s)
        /\ h[t].unnamed \in Nat /\ g[t].unnamed \in Nat /\ h[t].unnamed <= g[t].unnamed
        /\ g[s].kind = h[s].kind /\ g[s].name = h[s].name
    BY <1>3 DEF OnlyGets
  <2>2. /\ ~Waiting(h, s)
        /\ h[s].name \in UnnamedNames /\ h[s].name[1] = h[t].name
              => h[s].name[2] < h[t].unnamed
    BY <2>1 DEF Tidy, Numbered
  <2>3. QED
    BY <2>1, <2>2
<1>4. ASSUME NEW t, Type(t), Kid(t, n) PROVE t = u
  BY <1>4 DEF OnlyGets
<1>5. \A s : h[s].name \in UnnamedNames => h[s].name[2] \in Nat
  BY DEF UnnamedNames
<1>6. ASSUME NEW t, Type(t), NEW s, Kid(t, s)
      PROVE  /\ ~Waiting(g, s)
             /\ g[s].name \in UnnamedNames /\ g[s].name[1] = g[t].name
                   => g[s].name[2] < g[t].unnamed
  <2>1. CASE s = n
    BY <1>1, <1>2, <1>4, <1>6, <2>1 DEF Waiting
  <2>2. CASE s # n
    BY <1>3, <1>5, <1>6, <2>2 DEF Waiting
  <2>3. QED
    BY <2>1, <2>2
<1>7. Numbered(g)
  BY <1>6 DEF Numbered, Waiting
<1>8. ASSUME NEW t, Type(t), NEW s, Kid(t, s), s # n, Kid(t, n)
      PROVE  g[s].name # g[n].name
  <2>1. t = u
    BY <1>4, <1>8
  <2>2. u \in DOMAIN h /\ h[u].unnamed \in Nat /\ g[u].name = h[u].name
        /\ (g[s].name \in UnnamedNames /\ g[s].name[1] = g[u].name
              => g[s].name[2] < h[u].unnamed)
    BY <1>3, <1>8, <2>1
  <2>3. g[s].name = g[n].name => g[s].name[2] = i /\ i < h[u].unnamed
    BY <1>2, <2>2
  <2>4. QED
    BY <1>1, <2>2, <2>3
<1>9. ASSUME NEW t, Type(t), NEW k, Kid(t, k), NEW l, Kid(t, l), g[k].name = g[l].name
      PROVE  k = l
  <2>1. CASE k # n /\ l # n
    BY <1>3, <1>9, <2>1 DEF Tidy, SectionsDistinct
  <2>2. CASE k = n \/ l = n
    BY <1>8, <1>9, <2>2
  <2>3. QED
    BY <2>1, <2>2
<1>10. SectionsDistinct(g)
  BY <1>9 DEF SectionsDistinct
<1>11. QED
  BY <1>7, <1>10 DEF Tidy

\* Numbering the new section, and nothing else, gives it such a name.
LEMMA NumberedSectionIsBroughtIn ==
    ASSUME NEW h, WellFormed(h), Tidy(h), NEW g, WellFormed(g), NEW n, BringsIn(h, g, n),
           \A t \in DOMAIN g : g[t].kind = "ANT_SECTION_TYPE" => g[t].name # NoString,
           NEW u, u = g[n].parent, u # NoNode, NEW c, c = g[u].parent, c # NoNode,
           NEW f, WellFormed(f), NameChanges(g, f, n, Placeholder),
           NEW e, Numbers(f, e, c)
    PROVE  OnlyGets(h, e, n, u) /\ GivenName(h, e, n, u) /\ e[u].name \in TypeNames
<1>1. /\ n \notin DOMAIN h /\ n \in DOMAIN g /\ DOMAIN h \subseteq DOMAIN g
      /\ g[n].kind = "ANT_SECTION_NAME"
      /\ \A s \in DOMAIN h :
            /\ g[s].kind = h[s].kind /\ g[s].name = h[s].name
            /\ g[s].parent # NoNode =>
                  g[s].parent = h[s].parent /\ g[s].unnamed = h[s].unnamed
      /\ \A s \in DOMAIN g \ DOMAIN h : s # n => g[s].kind = "ANT_SECTION_TYPE"
  BY DEF BringsIn
<1>2. /\ u \in DOMAIN g /\ g[u].kind = "ANT_SECTION_TYPE"
      /\ c \in DOMAIN g /\ g[c].kind = "ANT_CONFIG"
  BY <1>1, ParentKinds
<1>4. WellFormed(f) /\ NameChanges(g, f, n, Placeholder)
  OBVIOUS
<1>5. /\ DOMAIN f = DOMAIN g /\ f[n].name = Placeholder
      /\ \A s \in DOMAIN g : /\ f[s].kind = g[s].kind /\ f[s].parent = g[s].parent
                             /\ f[s].unnamed = g[s].unnamed
                             /\ s # n => f[s].name = g[s].name
  BY <1>4 DEF NameChanges
<1>6. c \in DOMAIN f /\ f[c].kind = "ANT_CONFIG" /\ u \in DOMAIN f /\ n \in DOMAIN f
      /\ f[u].kind = "ANT_SECTION_TYPE" /\ f[u].parent = c /\ f[n].parent = u
  BY <1>1, <1>2, <1>5
<1>7. \A t \in DOMAIN f : f[t].kind = "ANT_SECTION_TYPE" =>
          f[t].name \in TypeNames /\ f[t].unnamed \in Nat
  <2>1. ASSUME NEW t \in DOMAIN f, f[t].kind = "ANT_SECTION_TYPE"
        PROVE  f[t].name \in TypeNames /\ f[t].unnamed \in Nat
    <3>1. TypedNode(f, t) /\ f[t].unnamed \in Nat
      BY WellFormedUnfolds, <1>4, NodeFields
    <3>2. f[t].name # NoString
      BY <1>1, <1>5, <2>1
    <3>3. QED
      BY <2>1, <3>1, <3>2 DEF TypedNode
  <2>2. QED
    BY <2>1
<1>8. ASSUME NEW t, LiveType(f, t), t \in DOMAIN h
      PROVE  /\ h[t].kind = "ANT_SECTION_TYPE" /\ h[t].parent # NoNode
             /\ f[t].name = h[t].name /\ f[t].unnamed = h[t].unnamed
  BY <1>1, <1>5, <1>8 DEF LiveType, Deleted
<1>9. ASSUME NEW t, LiveType(f, t), NEW s, LiveKid(f, t, s), s # n
      PROVE  /\ t \in DOMAIN h /\ s \in KidSet(h, t) /\ h[s].parent # NoNode
             /\ f[s].kind = h[s].kind /\ f[s].name = h[s].name
             /\ ~Waiting(f, s)
  <2>1. /\ t # NoNode /\ t # Pool
        /\ s \in DOMAIN f /\ f[s].kind = "ANT_SECTION_NAME" /\ f[s].parent = t
    BY <1>4, <1>9, LiveSections DEF LiveType, LiveKid, Deleted
  <2>2. s \in DOMAIN h /\ h[s].parent = t /\ f[s].kind = h[s].kind /\ f[s].name = h[s].name
    BY <1>1, <1>5, <1>9, <2>1
  <2>3. t \in DOMAIN h
    <3>1. h[s].parent \in DOMAIN h \cup {NoNode, Pool}
      BY <2>2, WellFormedUnfolds, NodeFields
    <3>2. QED
      BY <2>1, <2>2, <3>1
  <2>4. h[t].kind = "ANT_SECTION_TYPE" /\ h[t].parent # NoNode
    BY <1>8, <1>9, <2>3
  <2>5. s \in KidSet(h, t)
    BY <2>2, <2>3, <2>4, LiveSections
  <2>6. ~Waiting(h, s)
    BY <2>3, <2>4, <2>5 DEF Tidy, Numbered, Deleted
  <2>7. QED
    BY <2>1, <2>2, <2>3, <2>5, <2>6 DEF Waiting, Deleted
<1>10. \A s : WaitsBelow(f, c, s) => s = n
  <2>1. ASSUME NEW s, WaitsBelow(f, c, s) PROVE s = n
    <3>1. PICK t \in NamedTypes(f, c) : \E k \in WaitingAt(f, t) : f[t].children[k] = s
      BY <2>1 DEF WaitsBelow
    <3>2. t \in DOMAIN f /\ f[t].kind = "ANT_SECTION_TYPE" /\ s \in KidSet(f, t) /\ Waiting(f, s)
      BY <1>4, <1>6, <3>1, WaitsBelowFacts
    <3>3. f[t].parent # NoNode
      BY <3>1 DEF NamedTypes, Deleted
    <3>4. f[s].parent # NoNode
      BY <3>2 DEF Waiting, Deleted
    <3>5. QED
      BY <1>9, <3>2, <3>3, <3>4 DEF LiveType, LiveKid, Deleted
  <2>2. QED
    BY <2>1
<1>11. u \in NamedTypes(f, c)
  <2>1. u \in KidSet(f, c)
    BY <1>4, <1>6 DEF WellFormed, ParentsAgree
  <2>2. f[u].name # NoString
    BY <1>6, <1>7, NamesAssumption DEF Strings
  <2>3. QED
    BY <1>6, <2>1, <2>2 DEF NamedTypes, Deleted
<1>12. PICK k \in 1 .. f[u].number : f[u].children[k] = n
  BY <1>4, <1>6, LiveSections DEF KidSet
<1>13. WaitingAt(f, u) = {k}
  <2>1. Waiting(f, n)
    BY <1>1, <1>2, <1>5, <1>6, LiveSections, <1>4 DEF Waiting, Deleted
  <2>2. \A l \in WaitingAt(f, u) : WaitsBelow(f, c, f[u].children[l])
    BY <1>11 DEF WaitsBelow
  <2>3. \A l \in WaitingAt(f, u) : f[u].children[l] = n
    BY <1>10, <2>2
  <2>4. k \in WaitingAt(f, u)
    BY <1>12, <2>1 DEF WaitingAt
  <2>5. \A l \in WaitingAt(f, u) : l = k
    BY <1>4, <1>6, <1>11, <1>12, <2>3, <2>4, WaitsBelowFacts
  <2>6. QED
    BY <2>4, <2>5
<1>14. NameAt(f, u, k) = UnnamedName(f[u].name, f[u].unnamed)
  <2>1. {l \in WaitingAt(f, u) : l < k} = {}
    <3>1. k \in Nat
      BY <1>4, <1>6, WellFormedUnfolds, NodeFields
    <3>2. QED
      BY <1>13, <3>1
  <2>2. Cardinality({l \in WaitingAt(f, u) : l < k}) = 0
    BY <2>1, FS_EmptySet
  <2>3. f[u].unnamed + 0 = f[u].unnamed
    BY <1>6, <1>7
  <2>4. QED
    BY <2>2, <2>3 DEF NameAt
<1>15. Cardinality(WaitingAt(f, u)) = 1
  BY <1>13, FS_Singleton
<1>16. /\ DOMAIN e = DOMAIN f
       /\ \A m \in DOMAIN f :
             /\ e[m].kind = f[m].kind /\ e[m].parent = f[m].parent /\ SameArray(f, e, m)
             /\ m \in NamedTypes(f, c) =>
                   e[m].unnamed = f[m].unnamed + Cardinality(WaitingAt(f, m))
             /\ m \notin NamedTypes(f, c) => e[m].unnamed = f[m].unnamed
             /\ ~ WaitsBelow(f, c, m) => e[m].name = f[m].name
       /\ \A t \in NamedTypes(f, c) : \A l \in WaitingAt(f, t) :
             e[f[t].children[l]].name = NameAt(f, t, l)
  BY DEF Numbers
<1>17. /\ DOMAIN e = DOMAIN f
       /\ \A m \in DOMAIN f : /\ e[m].kind = f[m].kind /\ e[m].parent = f[m].parent
                              /\ m # n => e[m].name = f[m].name
  BY <1>10, <1>16
<1>18. \A t \in DOMAIN f : KidSet(e, t) = KidSet(f, t)
  BY <1>16 DEF SameArray, KidSet
<1>19. e[u].unnamed = f[u].unnamed + 1 /\ e[u].name = f[u].name /\ u # n
       /\ e[n].name = UnnamedName(f[u].name, f[u].unnamed)
  <2>1. u # n
    BY <1>1, <1>2
  <2>2. e[f[u].children[k]].name = NameAt(f, u, k)
    BY <1>11, <1>13, <1>16
  <2>3. QED
    BY <1>6, <1>11, <1>12, <1>14, <1>15, <1>16, <1>17, <2>1, <2>2
<1>20. ASSUME NEW t \in DOMAIN e, e[t].kind = "ANT_SECTION_TYPE", ~Deleted(e, t)
       PROVE  /\ LiveType(f, t) /\ t # n /\ e[t].name = f[t].name
              /\ f[t].unnamed \in Nat /\ e[t].unnamed \in Nat /\ f[t].unnamed <= e[t].unnamed
  <2>1. LiveType(f, t) /\ t # n
    <3>1. t \in DOMAIN f /\ t \in DOMAIN g
      BY <1>5, <1>17
    <3>2. f[t].kind = "ANT_SECTION_TYPE" /\ f[t].parent # NoNode
      BY <1>17, <1>20, <3>1 DEF Deleted
    <3>3. t # n
      BY <1>1, <1>5, <3>1, <3>2
    <3>4. QED
      BY <3>1, <3>2, <3>3 DEF LiveType, Deleted
  <2>2. f[t].unnamed \in Nat /\ Cardinality(WaitingAt(f, t)) \in Nat
    <3>1. Sound(f) /\ t \in DOMAIN f
      BY <1>4, <1>17, <1>20, WellFormedParts
    <3>2. QED
      BY <1>7, <2>1, <3>1, WaitingFacts DEF LiveType, Deleted
  <2>3. e[t].unnamed = f[t].unnamed \/ e[t].unnamed = f[t].unnamed + Cardinality(WaitingAt(f, t))
    BY <1>16, <2>1 DEF LiveType, Deleted
  <2>4. QED
    BY <1>17, <2>1, <2>2, <2>3 DEF LiveType, Deleted
<1>21. ASSUME NEW t \in DOMAIN e, e[t].kind = "ANT_SECTION_TYPE", ~Deleted(e, t), t \in DOMAIN h
       PROVE  /\ h[t].kind = "ANT_SECTION_TYPE" /\ ~Deleted(h, t)
              /\ e[t].name = h[t].name
              /\ h[t].unnamed \in Nat /\ e[t].unnamed \in Nat
              /\ h[t].unnamed <= e[t].unnamed
  BY <1>8, <1>20, <1>21 DEF Deleted
<1>22. ASSUME NEW t \in DOMAIN e, e[t].kind = "ANT_SECTION_TYPE", ~Deleted(e, t),
              NEW s \in KidSet(e, t), ~Deleted(e, s)
       PROVE  \/ s = n /\ t = u
              \/ /\ s # n /\ t \in DOMAIN h /\ s \in KidSet(h, t) /\ ~Deleted(h, s)
                 /\ e[s].kind = h[s].kind /\ e[s].name = h[s].name
  <2>1. LiveType(f, t) /\ s \in KidSet(f, t) /\ s \in DOMAIN f
    <3>1. LiveType(f, t) /\ s \in KidSet(f, t)
      BY <1>17, <1>18, <1>20, <1>22
    <3>2. QED
      BY <1>4, <3>1, LiveSections DEF LiveType, Deleted
  <2>2. LiveKid(f, t, s)
    BY <1>17, <1>22, <2>1 DEF LiveKid, Deleted
  <2>3. CASE s = n
    <3>1. f[n].parent = t
      BY <1>4, <2>1, <2>2, <2>3, LiveSections DEF LiveType, LiveKid, Deleted
    <3>2. QED
      BY <1>6, <2>3, <3>1
  <2>4. CASE s # n
    <3>1. /\ t \in DOMAIN h /\ s \in KidSet(h, t) /\ h[s].parent # NoNode
          /\ f[s].kind = h[s].kind /\ f[s].name = h[s].name
      BY <1>9, <2>1, <2>2, <2>4
    <3>2. e[s].kind = f[s].kind /\ e[s].name = f[s].name
      BY <1>17, <2>1, <2>4
    <3>3. QED
      BY <2>4, <3>1, <3>2 DEF Deleted
  <2>5. QED
    BY <2>3, <2>4
<1>23. \E i \in Nat : /\ e[n].name = UnnamedName(e[u].name, i)
                      /\ e[u].unnamed \in Nat /\ i < e[u].unnamed
                      /\ u \in DOMAIN h => h[u].unnamed <= i
  <2>1. f[u].unnamed \in Nat
    BY <1>6, <1>7
  <2>2. u \in DOMAIN h => h[u].unnamed = f[u].unnamed
    <3>1. LiveType(f, u)
      BY <1>4, <1>6, <1>2, NoNodeIsNoNode DEF LiveType, Deleted
    <3>2. QED
      BY <1>8, <3>1
  <2>3. f[u].unnamed + 1 \in Nat /\ f[u].unnamed < f[u].unnamed + 1
    BY <2>1
  <2>4. /\ e[n].name = UnnamedName(e[u].name, f[u].unnamed)
        /\ e[u].unnamed \in Nat /\ f[u].unnamed < e[u].unnamed
    BY <1>19, <2>3
  <2>5. u \in DOMAIN h => h[u].unnamed <= f[u].unnamed
    BY <2>1, <2>2
  <2>6. QED
    BY <2>1, <2>4, <2>5
<1>24. e[u].name \in TypeNames
  BY <1>6, <1>7, <1>19
<1>25. \A t \in DOMAIN e : e[t].kind = "ANT_SECTION_TYPE" /\ ~Deleted(e, t) =>
           /\ t \in DOMAIN h => /\ h[t].kind = "ANT_SECTION_TYPE" /\ ~Deleted(h, t)
                                /\ e[t].name = h[t].name
                                /\ h[t].unnamed \in Nat /\ e[t].unnamed \in Nat
                                /\ h[t].unnamed <= e[t].unnamed
           /\ \A s \in KidSet(e, t) : ~Deleted(e, s) =>
                 \/ s = n /\ t = u
                 \/ /\ s # n /\ t \in DOMAIN h /\ s \in KidSet(h, t) /\ ~Deleted(h, s)
                    /\ e[s].kind = h[s].kind /\ e[s].name = h[s].name
  BY <1>21, <1>22
<1>26. OnlyGets(h, e, n, u)
  BY <1>25 DEF OnlyGets
<1>27. GivenName(h, e, n, u)
  BY <1>23 DEF GivenName
<1>28. QED
  BY <1>24, <1>26, <1>27

\* Of the section types below a config node where one type was added at the end, the
\* merge empties no other than that one: those it deletes were empty before.
LEMMA OnlyNewIsOrphan ==
    ASSUME NEW h, WellFormed(h), Orderly(h), NEW c \in DOMAIN h, h[c].kind = "ANT_CONFIG",
           NEW g, WellFormed(g), NEW t, NEW n, AddsSection(h, g, c, t, n),
           NEW x, NEW f, WellFormed(f), NameChanges(g, f, t, x),
           NEW s, Orphan(f, Kids(f, c), s)
    PROVE  s = n
<1> DEFINE kids == Kids(f, c)
<1> DEFINE N == h[c].number
<1>1. /\ t \notin DOMAIN h /\ DOMAIN g = DOMAIN h \cup {t, n} /\ KidSet(g, t) = {n}
      /\ g[c].number = N + 1 /\ g[c].children[N + 1] = t
      /\ \A k \in 1 .. N : g[c].children[k] = h[c].children[k]
      /\ \A m \in DOMAIN h : /\ g[m].name = h[m].name
                             /\ m # c => g[m] = h[m]
  BY DEF AddsSection
<1>2. /\ DOMAIN f = DOMAIN g
      /\ \A m \in DOMAIN g : SameArray(g, f, m) /\ (m # t => f[m] = g[m])
  BY DEF NameChanges
<1>3. N \in Nat /\ c \in DOMAIN f /\ f[c].number = N + 1
  BY <1>1, <1>2, WellFormedUnfolds, NodeFields DEF SameArray
<1>4. /\ kids \in Seq(DOMAIN f) /\ DOMAIN kids = 1 .. N + 1
      /\ Range(kids) = KidSet(f, c)
      /\ \A k \in 1 .. N : kids[k] = h[c].children[k]
      /\ kids[N + 1] = t
  <2>1. /\ kids \in Seq(DOMAIN f) /\ DOMAIN kids = 1 .. N + 1 /\ Range(kids) = KidSet(f, c)
        /\ \A k \in 1 .. N + 1 : kids[k] = f[c].children[k]
    BY SMTT(30), <1>3, WellFormedUnfolds, KidsFacts
  <2>2. f[c].children = g[c].children
    BY <1>1, <1>2 DEF SameArray
  <2>3. QED
    BY <1>1, <1>3, <2>1, <2>2
<1> HIDE DEF kids
<1>5. PICK w \in Twins(f, kids) : s \in KidSet(f, w)
  BY DEF Orphan, kids
<1>6. w \in Range(kids) /\ Heir(f, kids, w) # w
  BY DEF Twins
<1>7. PICK i \in 1 .. N + 1 : kids[i] = w
  BY <1>4, <1>6 DEF Range
<1>8. CASE i = N + 1
  <2>1. w = t /\ t \in DOMAIN g
    BY <1>1, <1>4, <1>7, <1>8
  <2>2. KidSet(f, t) = {n}
    BY <1>1, <1>2, <2>1 DEF SameArray, KidSet
  <2>3. QED
    BY <1>5, <2>1, <2>2
<1>9. CASE i # N + 1
  <2>1. i \in 1 .. N
    BY <1>3, <1>9
  <2>2. f[kids[i]].name # NoString
    BY <1>6, <1>7 DEF Heir
  <2>3. PICK k \in DOMAIN kids : /\ k <= i
                                 /\ Heir(f, kids, kids[i]) = kids[k]
                                 /\ f[kids[k]].name = f[kids[i]].name
    <3>1. i \in DOMAIN kids /\ kids \in Seq(DOMAIN f)
      BY <1>4, <1>7
    <3>2. \E k \in DOMAIN kids :
             /\ k <= i
             /\ Heir(f, kids, kids[i]) = kids[k]
             /\ f[kids[k]].name = f[kids[i]].name
             /\ \A j \in 1 .. k - 1 : f[kids[j]].name # f[kids[i]].name
      BY <2>2, <3>1, HeirIsFirst
    <3>3. QED
      BY <3>2
  <2>4. k # i /\ k \in 1 .. N /\ k < i
    BY <1>3, <1>4, <1>6, <1>7, <2>1, <2>3
  <2>5. /\ h[c].children[i] = kids[i] /\ h[c].children[k] = kids[k]
        /\ kids[i] \in DOMAIN h /\ kids[k] \in DOMAIN h
    <3>1. KidSet(h, c) \subseteq DOMAIN h
      BY WellFormedUnfolds, KidsFacts
    <3>2. QED
      BY <1>4, <2>1, <2>4, <3>1 DEF KidSet
  <2>6. h[kids[i]].name = h[kids[k]].name
    BY <1>1, <1>2, <2>3, <2>5
  <2>7. h[kids[i]].number = 0
    BY <2>1, <2>4, <2>5, <2>6 DEF Orderly, Merged, MergedBelow
  <2>8. kids[i] # c
    <3>1. h[kids[i]].kind = "ANT_SECTION_TYPE"
      <4>1. kids[i] \in KidSet(h, c)
        BY <2>1, <2>5 DEF KidSet
      <4>2. QED
        BY SMTT(30), <4>1, WellFormedUnfolds DEF LayeredNode, ChildKinds
    <3>2. QED
      BY <3>1
  <2>9. f[kids[i]].number = 0
    BY <1>1, <1>2, <2>5, <2>7, <2>8 DEF SameArray
  <2>10. KidSet(f, w) = {}
    BY <1>7, <2>9 DEF KidSet
  <2>11. QED
    BY <1>5, <2>10
<1>10. QED
  BY <1>8, <1>9

\* So the merge brings the new section in and changes no other parent but to NULL.
LEMMA MergeBringsIn ==
    ASSUME NEW h, WellFormed(h), Orderly(h), NEW c \in DOMAIN h, h[c].kind = "ANT_CONFIG",
           NEW g, WellFormed(g), NEW t, NEW n, AddsSection(h, g, c, t, n),
           NEW x \in TypeNames, NEW f, WellFormed(f), NameChanges(g, f, t, x),
           NEW m, m = AstNodeMerge(f, c)
    PROVE  /\ BringsIn(h, m, n)
           /\ \A u \in DOMAIN m : m[u].kind = "ANT_SECTION_TYPE" => m[u].name # NoString
<1>1. /\ t \notin DOMAIN h /\ n \notin DOMAIN h /\ n # t
      /\ DOMAIN g = DOMAIN h \cup {t, n}
      /\ g[t].kind = "ANT_SECTION_TYPE" /\ g[n].kind = "ANT_SECTION_NAME"
      /\ \A s \in DOMAIN h : /\ g[s].kind = h[s].kind /\ g[s].name = h[s].name
                             /\ g[s].parent = h[s].parent /\ g[s].unnamed = h[s].unnamed
  BY DEF AddsSection
<1>2. /\ DOMAIN f = DOMAIN g /\ f[t].name = x
      /\ \A s \in DOMAIN g : /\ f[s].kind = g[s].kind /\ f[s].parent = g[s].parent
                             /\ f[s].unnamed = g[s].unnamed
                             /\ s # t => f[s].name = g[s].name
  BY DEF NameChanges
<1>3. c \in DOMAIN f /\ f[c].kind = "ANT_CONFIG"
  BY <1>1, <1>2
<1>4. DOMAIN m = DOMAIN f /\ \A s \in DOMAIN f : m[s].kind = f[s].kind /\ m[s].name = f[s].name
  BY <1>3, MergedIsWellFormed
<1>5. ASSUME NEW s \in DOMAIN f, s # n, m[s].parent # NoNode
      PROVE  m[s].parent = f[s].parent /\ m[s].unnamed = f[s].unnamed
  <2>1. ~Orphan(f, Kids(f, c), s)
    BY <1>5, OnlyNewIsOrphan
  <2>2. /\ s \notin KidSet(f, c) => m[s].unnamed = f[s].unnamed
        /\ s \notin KidSet(f, c) /\ ~ Orphan(f, Kids(f, c), s) => m[s].parent = f[s].parent
        /\ s \in Twins(f, Kids(f, c)) => m[s].parent = NoNode
        /\ s \in KidSet(f, c) \ Twins(f, Kids(f, c)) =>
              m[s].parent = f[s].parent /\ m[s].unnamed = f[s].unnamed
    BY <1>3, MergedDetails
  <2>3. QED
    BY <1>5, <2>1, <2>2
<1>6. BringsIn(h, m, n)
  BY <1>1, <1>2, <1>4, <1>5 DEF BringsIn
<1>7. ASSUME NEW u \in DOMAIN m, m[u].kind = "ANT_SECTION_TYPE" PROVE m[u].name # NoString
  <2>1. CASE u = t
    <3>1. x # NoString
      BY NamesAssumption DEF Strings
    <3>2. QED
      BY <1>2, <1>4, <1>7, <2>1, <3>1
  <2>2. CASE u # t
    <3>1. u \in DOMAIN h /\ h[u].kind = "ANT_SECTION_TYPE" /\ m[u].name = h[u].name
      BY <1>1, <1>2, <1>4, <1>7, <2>2
    <3>2. QED
      BY <3>1 DEF Orderly, Attributed
  <2>3. QED
    BY <2>1, <2>2
<1>8. QED
  BY <1>6, <1>7

\* Where a section is brought in, no other node comes back.
LEMMA BroughtInStays ==
    ASSUME NEW h, NEW g, NEW n, BringsIn(h, g, n)
    PROVE  DeletedStay(h, g)
BY DEF DeletedStay, Deleted, BringsIn

\* The new section is numbered, and the sections stay tidy.
LEMMA RenumberedStaysTidy ==
    ASSUME NEW h, WellFormed(h), NEW g, WellFormed(g), NEW n, BringsIn(h, g, n),
           \A t \in DOMAIN g : g[t].kind = "ANT_SECTION_TYPE" => g[t].name # NoString,
           g[n].parent # NoNode, NEW r, r = Renumbered(g, n), r.err = "UE_NONE"
    PROVE  StaysTidy(h, r.heap)
<1> DEFINE u == g[n].parent
<1> DEFINE c == g[u].parent
<1> DEFINE f == [g EXCEPT ![n].name = Placeholder]
<1> DEFINE e == UnnamedSectionNameSet(f, c)
<1>1. c # NoNode /\ r.heap = e
  BY SMTT(30), ResultFacts DEF Renumbered, Asserted
<1>2. n \in DOMAIN g /\ g[n].kind = "ANT_SECTION_NAME"
  BY DEF BringsIn
<1>3. c \in DOMAIN g /\ g[c].kind = "ANT_CONFIG"
  BY <1>1, <1>2, ParentKinds
<1>4. Placeholder \in Strings
  BY DEF Strings, AtNames
<1>5. WellFormed(f) /\ NameChanges(g, f, n, Placeholder)
  BY <1>2, <1>4, NamedIsWellFormed, NamedDetails
<1> HIDE DEF u, c, f
<1>6. c \in DOMAIN f /\ f[c].kind = "ANT_CONFIG"
  BY <1>3, <1>5 DEF NameChanges
<1>7. Numbers(f, e, c)
  BY <1>5, <1>6, NumberedDetails
<1> HIDE DEF e
<1>8. DeletedStay(h, e)
  <2>1. DOMAIN e = DOMAIN g /\ \A m \in DOMAIN g : e[m].parent = g[m].parent
    BY <1>5, <1>7 DEF NameChanges, Numbers
  <2>2. QED
    BY <2>1, BroughtInStays DEF DeletedStay, Deleted
<1>9. Tidy(h) => Tidy(e)
  <2>1. ASSUME Tidy(h) PROVE Tidy(e)
    <3>1. OnlyGets(h, e, n, u) /\ GivenName(h, e, n, u) /\ e[u].name \in TypeNames
      BY <1>1, <1>5, <1>7, <2>1, NumberedSectionIsBroughtIn DEF u, c
    <3>2. QED
      BY <2>1, <3>1, NewSectionStaysTidy
  <2>2. QED
    BY <2>1
<1>10. QED
  BY <1>1, <1>8, <1>9 DEF StaysTidy

\* The type of a new section is set, and the sections stay tidy.
LEMMA NewSectionTypeStaysTidy ==
    ASSUME NEW h, WellFormed(h), Orderly(h), NEW c \in DOMAIN h, h[c].kind = "ANT_CONFIG",
           h[c].parent # NoNode, NEW g, WellFormed(g), NEW t, NEW n, AddsSection(h, g, c, t, n),
           NEW type \in TypeNames, CallError(g, n, {type}, "UNT_SECTION") = "UE_NONE",
           NEW r, r = SectionTypeSet(g, n, type), r.err = "UE_NONE"
    PROVE  StaysTidy(h, r.heap)
<1> DEFINE f == [g EXCEPT ![t].name = type]
<1> DEFINE m == AstNodeMerge(f, c)
<1>1. /\ g[n].parent = t /\ g[t].parent = c /\ g[n].name = NoString
      /\ t \in DOMAIN g /\ n \in DOMAIN g /\ c \in DOMAIN g /\ c # t /\ n # t
      /\ g[n].kind = "ANT_SECTION_NAME" /\ g[t].kind = "ANT_SECTION_TYPE"
      /\ g[c].kind = "ANT_CONFIG"
  BY DEF AddsSection
<1>2. r = LET merged == IF c = NoNode \/ Deleted(f, c) THEN Failure(f, "ABORTED")
                        ELSE Success(m, NoNode)
          IN  IF merged.err = "UE_NONE" THEN Renumbered(merged.heap, n) ELSE merged
  BY ZenonT(30), <1>1 DEF SectionTypeSet, Asserted, Then, Renumbered
<1> HIDE DEF m
<1>3. r = Renumbered(m, n)
  BY <1>2, ResultFacts
<1>4. WellFormed(f) /\ NameChanges(g, f, t, type)
  <2>1. type \in Strings
    BY DEF Strings
  <2>2. QED
    BY <1>1, <2>1, NamedIsWellFormed, NamedDetails
<1> HIDE DEF f
<1>5. /\ c \in DOMAIN f /\ f[c].kind = "ANT_CONFIG" /\ n \in DOMAIN f
      /\ f[n].kind = "ANT_SECTION_NAME" /\ f[n].parent = t /\ t \in DOMAIN f
  BY <1>1, <1>4 DEF NameChanges
<1>6. WellFormed(m)
  BY <1>4, <1>5, MergedIsWellFormed DEF m
<1>7. m[n].parent # NoNode
  <2>1. m[n].parent \in DOMAIN f
    BY <1>4, <1>5, MergedIsWellFormed DEF m
  <2>2. QED
    BY <1>4, <2>1, NoNodeIsNoNode
<1>8. /\ BringsIn(h, m, n)
      /\ \A u \in DOMAIN m : m[u].kind = "ANT_SECTION_TYPE" => m[u].name # NoString
  BY <1>4, MergeBringsIn DEF m
<1>9. QED
  BY <1>3, <1>6, <1>7, <1>8, RenumberedStaysTidy

-----------------------------------------------------------------------------
(***************************************************************************)
(* The calls of a client that leaves the types of the sections alone.      *)
(***************************************************************************)

\* Naming an option or a list leaves the sections as tidy as they were.
LEMMA NameSetStaysTidy ==
    ASSUME NEW h, WellFormed(h), NEW n \in DOMAIN h \cup {NoNode}, NEW name,
           NEW type \in {"UNT_OPTION", "UNT_LIST"}, NEW r, r = NameSet(h, n, name, type)
    PROVE  StaysTidy(h, r.heap)
<1> DEFINE error == CallError(h, n, {name}, type)
<1> DEFINE g == [h EXCEPT ![n].name = name]
<1>1. r.heap = h \/ (error = "UE_NONE" /\ r.heap = g)
  BY ResultFacts DEF NameSet
<1>2. CASE error = "UE_NONE"
  <2>1. n \in DOMAIN h /\ h[n].kind \in LineKinds
    BY <1>2, HandlePassed, CallErrorFacts, HandleErrorFacts DEF LineKinds
  <2>2. StaysTidy(h, g)
    BY <2>1, NamedDetails, NamedLineStaysTidy
  <2>3. QED
    BY <1>1, <2>2, TidyIsReflexive
<1>3. CASE error # "UE_NONE"
  BY <1>1, <1>3, TidyIsReflexive
<1>4. QED
  BY <1>2, <1>3

\* So does naming a section, but for the names "@...".
LEMMA SectionNameSetStaysTidy ==
    ASSUME NEW h, WellFormed(h), NEW n \in DOMAIN h \cup {NoNode}, NEW name,
           NEW r, r = SectionNameSet(h, n, name)
    PROVE  /\ DeletedStay(h, r.heap)
           /\ name \notin AtNames => StaysTidy(h, r.heap)
<1> DEFINE error == CallError(h, n, {name}, "UNT_SECTION")
<1> DEFINE g == [h EXCEPT ![n].name = name]
<1>1. r.heap = h \/ (error = "UE_NONE" /\ ~NameTaken(h, n, name) /\ r.heap = g)
  BY ResultFacts DEF SectionNameSet, NameSet
<1>2. StaysTidy(h, h) /\ DeletedStay(h, h)
  BY TidyIsReflexive DEF StaysTidy
<1>3. CASE error = "UE_NONE" /\ ~NameTaken(h, n, name) /\ r.heap = g
  <2>1. n \in DOMAIN h /\ h[n].kind = "ANT_SECTION_NAME" /\ h[n].parent # NoNode
    BY <1>3, HandlePassed, CallErrorFacts, HandleErrorFacts
  <2>2. NameChanges(h, g, n, name)
    BY <2>1, NamedDetails
  <2> HIDE DEF g
  <2>3. DeletedStay(h, g) /\ (name \notin AtNames => StaysTidy(h, g))
    BY <1>3, <2>1, <2>2, NamedSectionStaysTidy
  <2>4. QED
    BY <1>3, <2>3
<1>4. QED
  BY <1>1, <1>2, <1>3

\* So do the values of options and list elements.
LEMMA ValueSetStaysTidy ==
    ASSUME NEW h, WellFormed(h), NEW n \in DOMAIN h \cup {NoNode}, NEW value
    PROVE  /\ StaysTidy(h, OptionValueSet(h, n, value).heap)
           /\ StaysTidy(h, ListElementValueSet(h, n, value).heap)
<1>1. StaysTidy(h, OptionValueSet(h, n, value).heap)
  <2> DEFINE error == CallError(h, n, {value}, "UNT_OPTION")
  <2> DEFINE g == [h EXCEPT ![n].value = value]
  <2>1. OptionValueSet(h, n, value) = IF error # "UE_NONE" THEN Failure(h, error)
                                      ELSE Success(g, NoNode)
    BY DEF OptionValueSet
  <2>2. CASE error = "UE_NONE"
    <3>1. n \in DOMAIN h
      BY <2>2, HandlePassed
    <3>2. StaysTidy(h, g)
      BY <3>1, ValuedDetails, ValuedStaysTidy
    <3>3. QED
      BY <2>1, <2>2, <3>2, ResultFacts
  <2>3. CASE error # "UE_NONE"
    BY <2>1, <2>3, ResultFacts, TidyIsReflexive
  <2>4. QED
    BY <2>2, <2>3
<1>2. StaysTidy(h, ListElementValueSet(h, n, value).heap)
  <2> DEFINE error == CallError(h, n, {value}, "UNT_LIST_ELEMENT")
  <2> DEFINE g == [h EXCEPT ![n].name = value]
  <2>1. ListElementValueSet(h, n, value) = IF error # "UE_NONE" THEN Failure(h, error)
                                           ELSE Success(g, NoNode)
    BY DEF ListElementValueSet
  <2>2. CASE error = "UE_NONE"
    <3>1. n \in DOMAIN h /\ h[n].kind \in LineKinds
      BY <2>2, HandlePassed, CallErrorFacts, HandleErrorFacts DEF LineKinds
    <3>2. StaysTidy(h, g)
      BY <3>1, NamedDetails, NamedLineStaysTidy
    <3>3. QED
      BY <2>1, <2>2, <3>2, ResultFacts
  <2>3. CASE error # "UE_NONE"
    BY <2>1, <2>3, ResultFacts, TidyIsReflexive
  <2>4. QED
    BY <2>2, <2>3
<1>3. QED
  BY <1>1, <1>2

\* A new line, before it gets its attributes.
LEMMA NodeAddLineStaysTidy ==
    ASSUME NEW h, WellFormed(h), NEW p \in DOMAIN h,
           h[p].kind \in {"ANT_SECTION_NAME", "ANT_OPTION", "ANT_LIST"},
           NEW kind \in LineKinds, kind \in ChildKinds(h[p].kind),
           NEW g, g = NodeAdd(h, p, kind)
    PROVE  WellFormed(g) /\ StaysTidy(h, g) /\ Newest(g) \in DOMAIN g
<1>1. kind # "ANT_SECTION_NAME"
  BY DEF LineKinds
<1>2. Adds(h, g, p, kind, Len(h) + 1)
  BY <1>1, AddChildAdds, AddedDetails DEF NodeAdd
<1>3. QED
  BY <1>1, <1>2, NodeAddIsSound, AddedLineStaysTidy

\* Giving it up leaves the sections as they are, too.
LEMMA AddedTidily ==
    ASSUME NEW h, NEW g, NEW s, SoundResult(g, s), NEW n \in DOMAIN g,
           NEW r, r = OrRemove([s EXCEPT !.out = n], n)
    PROVE  /\ DeletedStay(h, s.heap) => DeletedStay(h, r.heap)
           /\ StaysTidy(h, s.heap) => StaysTidy(h, r.heap)
<1>1. WellFormed(s.heap) /\ n \in DOMAIN s.heap
  BY DEF SoundResult, Keeps
<1>2. r.heap = s.heap \/ r.heap = NodeRemove(s.heap, n)
  BY OrRemoveFacts
<1>3. StaysTidy(s.heap, r.heap)
  BY <1>1, <1>2, RemovedStaysTidy, TidyIsReflexive
<1>4. QED
  BY <1>3, TidyIsTransitive DEF StaysTidy, DeletedStay

\* Whatever uci2_node_option_add returns, the sections are as tidy as before.
LEMMA OptionAddStaysTidy ==
    ASSUME NEW h, WellFormed(h), NEW p \in DOMAIN h \cup {NoNode},
           NEW name \in Strings \cup {NoString}, NEW value \in Strings \cup {NoString},
           NEW r, r = OptionAdd(h, p, name, value)
    PROVE  StaysTidy(h, r.heap)
<1> DEFINE error == CallError(h, p, {name, value}, "UNT_SECTION")
<1> DEFINE g == NodeAdd(h, p, "ANT_OPTION")
<1> DEFINE n == Newest(g)
<1> DEFINE f == OptionNameSet(g, n, name)
<1> DEFINE e == OptionValueSet(f.heap, n, value)
<1> DEFINE s == IF f.err = "UE_NONE" THEN e ELSE f
<1>1. r = IF error # "UE_NONE" THEN Failure(h, error) ELSE OrRemove([s EXCEPT !.out = n], n)
  BY DEF OptionAdd, AddNode, Then
<1>2. CASE error = "UE_NONE"
  <2>1. /\ p \in DOMAIN h /\ h[p].kind = "ANT_SECTION_NAME"
        /\ "ANT_OPTION" \in ChildKinds(h[p].kind) /\ "ANT_OPTION" \in LineKinds
    BY <1>2, HandlePassed, CallErrorFacts, HandleErrorFacts DEF ChildKinds, LineKinds
  <2> HIDE DEF error, g
  <2>2. WellFormed(g) /\ StaysTidy(h, g) /\ n \in DOMAIN g
    BY <2>1, NodeAddLineStaysTidy DEF g
  <2> HIDE DEF n
  <2>3. SoundResult(g, f) /\ StaysTidy(g, f.heap)
    BY <2>2, NameSetIsSound, NameSetStaysTidy DEF OptionNameSet
  <2>4. n \in DOMAIN f.heap /\ WellFormed(f.heap)
    BY <2>2, <2>3 DEF SoundResult, Keeps
  <2> HIDE DEF f
  <2>5. SoundResult(f.heap, e) /\ StaysTidy(f.heap, e.heap)
    BY <2>4, OptionValueSetIsSound, ValueSetStaysTidy
  <2> HIDE DEF e
  <2>6. SoundResult(g, s) /\ StaysTidy(h, s.heap)
    BY <2>2, <2>3, <2>5, KeepsIsTransitive, TidyIsTransitive DEF SoundResult
  <2> HIDE DEF s
  <2>7. r = OrRemove([s EXCEPT !.out = n], n)
    BY <1>1, <1>2 DEF error
  <2>8. QED
    BY <2>2, <2>6, <2>7, AddedTidily
<1>3. CASE error # "UE_NONE"
  BY <1>1, <1>3, ResultFacts, TidyIsReflexive
<1>4. QED
  BY <1>2, <1>3

\* Whatever uci2_node_list_add returns, the sections are as tidy as before.
LEMMA ListAddStaysTidy ==
    ASSUME NEW h, WellFormed(h), NEW p \in DOMAIN h \cup {NoNode},
           NEW name \in Strings \cup {NoString}, NEW r, r = ListAdd(h, p, name)
    PROVE  StaysTidy(h, r.heap)
<1> DEFINE error == CallError(h, p, {name}, "UNT_SECTION")
<1> DEFINE g == NodeAdd(h, p, "ANT_LIST")
<1> DEFINE n == Newest(g)
<1> DEFINE s == ListNameSet(g, n, name)
<1>1. r = IF error # "UE_NONE" THEN Failure(h, error) ELSE OrRemove([s EXCEPT !.out = n], n)
  BY DEF ListAdd, AddNode
<1>2. CASE error = "UE_NONE"
  <2>1. /\ p \in DOMAIN h /\ h[p].kind = "ANT_SECTION_NAME"
        /\ "ANT_LIST" \in ChildKinds(h[p].kind) /\ "ANT_LIST" \in LineKinds
    BY <1>2, HandlePassed, CallErrorFacts, HandleErrorFacts DEF ChildKinds, LineKinds
  <2> HIDE DEF error, g
  <2>2. WellFormed(g) /\ StaysTidy(h, g) /\ n \in DOMAIN g
    BY <2>1, NodeAddLineStaysTidy DEF g
  <2> HIDE DEF n
  <2>3. SoundResult(g, s) /\ StaysTidy(g, s.heap)
    BY <2>2, NameSetIsSound, NameSetStaysTidy DEF ListNameSet
  <2> HIDE DEF s
  <2>4. r = OrRemove([s EXCEPT !.out = n], n)
    BY <1>1, <1>2 DEF error
  <2>5. QED
    BY <2>2, <2>3, <2>4, AddedTidily, TidyIsTransitive
<1>3. CASE error # "UE_NONE"
  BY <1>1, <1>3, ResultFacts, TidyIsReflexive
<1>4. QED
  BY <1>2, <1>3

\* Whatever uci2_node_list_element_add returns, the sections are as tidy as before.
LEMMA ListElementAddStaysTidy ==
    ASSUME NEW h, WellFormed(h), NEW p \in DOMAIN h \cup {NoNode},
           NEW value \in Strings \cup {NoString}, NEW r, r = ListElementAdd(h, p, value)
    PROVE  StaysTidy(h, r.heap)
<1> DEFINE error == CallError(h, p, {value}, "UNT_LIST")
<1> DEFINE g == NodeAdd(h, p, "ANT_LIST_ITEM")
<1> DEFINE n == Newest(g)
<1> DEFINE s == ListElementValueSet(g, n, value)
<1>1. r = IF error # "UE_NONE" THEN Failure(h, error) ELSE OrRemove([s EXCEPT !.out = n], n)
  BY DEF ListElementAdd, AddNode
<1>2. CASE error = "UE_NONE"
  <2>1. /\ p \in DOMAIN h /\ h[p].kind = "ANT_LIST"
        /\ "ANT_LIST_ITEM" \in ChildKinds(h[p].kind) /\ "ANT_LIST_ITEM" \in LineKinds
    BY <1>2, HandlePassed, CallErrorFacts, HandleErrorFacts DEF ChildKinds, LineKinds
  <2> HIDE DEF error, g
  <2>2. WellFormed(g) /\ StaysTidy(h, g) /\ n \in DOMAIN g
    BY <2>1, NodeAddLineStaysTidy DEF g
  <2> HIDE DEF n
  <2>3. SoundResult(g, s) /\ StaysTidy(g, s.heap)
    BY <2>2, ListElementValueSetIsSound, ValueSetStaysTidy
  <2> HIDE DEF s
  <2>4. r = OrRemove([s EXCEPT !.out = n], n)
    BY <1>1, <1>2 DEF error
  <2>5. QED
    BY <2>2, <2>3, <2>4, AddedTidily, TidyIsTransitive
<1>3. CASE error # "UE_NONE"
  BY <1>1, <1>3, ResultFacts, TidyIsReflexive
<1>4. QED
  BY <1>2, <1>3

\* Setting a type that is not refused fails in no other way than by an assertion.
LEMMA SectionTypeSetEnds ==
    ASSUME NEW h, NEW n, NEW type, CallError(h, n, {type}, "UNT_SECTION") = "UE_NONE",
           NEW r, r = SectionTypeSet(h, n, type)
    PROVE  r.err \in {"UE_NONE", "ABORTED"}
<1> DEFINE t == h[n].parent
<1> DEFINE c == h[t].parent
<1> DEFINE f == [h EXCEPT ![t].name = type]
<1> DEFINE merged == IF c = NoNode \/ Deleted(f, c) THEN Failure(f, "ABORTED")
                     ELSE Success(AstNodeMerge(f, c), NoNode)
<1>1. r = IF h[n].name \in AtNames \cup {NoString}
          THEN IF merged.err = "UE_NONE" THEN Renumbered(merged.heap, n) ELSE merged
          ELSE merged
  BY DEF SectionTypeSet, Asserted, Then, Renumbered
<1>2. merged.err \in {"UE_NONE", "ABORTED"}
  BY ResultFacts
<1>3. \A g : Renumbered(g, n).err \in {"UE_NONE", "ABORTED"}
  BY ResultFacts DEF Renumbered, Asserted
<1> HIDE DEF merged
<1>4. QED
  BY <1>1, <1>2, <1>3

\* uci2_node_section_add brings no node back, and the sections are as tidy as before
\* unless the name is "@...".
LEMMA SectionAddStaysTidy ==
    ASSUME NEW h, WellFormed(h), Orderly(h), NEW p \in DOMAIN h \cup {NoNode},
           NEW type \in TypeNames \cup {NoString}, NEW name \in Strings \cup {NoString},
           NEW r, r = SectionAdd(h, p, type, name), r.err # "ABORTED"
    PROVE  /\ DeletedStay(h, r.heap)
           /\ name \notin AtNames => StaysTidy(h, r.heap)
<1> DEFINE error == CallError(h, p, {type}, "UNT_ROOT")
<1> DEFINE g == NodeAdd(h, p, "ANT_SECTION_NAME")
<1> DEFINE n == Newest(g)
<1> DEFINE f == SectionTypeSet(g, n, type)
<1> DEFINE e == SectionNameSet(f.heap, n, name)
<1> DEFINE s == IF name = NoString THEN f ELSE IF f.err = "UE_NONE" THEN e ELSE f
<1>1. r = IF error # "UE_NONE" THEN Failure(h, error) ELSE OrRemove([s EXCEPT !.out = n], n)
  BY DEF SectionAdd, AddNode, Then
<1>2. CASE error = "UE_NONE"
  <2>1. /\ p \in DOMAIN h /\ h[p].kind = "ANT_CONFIG" /\ h[p].parent # NoNode
        /\ type \in TypeNames /\ type # NoString
    BY <1>2, HandlePassed, CallErrorFacts, HandleErrorFacts
  <2> HIDE DEF error, g, n
  <2> DEFINE t == g[n].parent
  <2>2. AddsSection(h, g, p, t, n)
    BY <2>1, NodeAddSection DEF g, n
  <2>3. WellFormed(g) /\ Keeps(h, g) /\ n \in DOMAIN g
    BY <2>1, NodeAddIsSound DEF g, n
  <2>4. CallError(g, n, {type}, "UNT_SECTION") = "UE_NONE"
    <3>1. n # NoNode /\ t # NoNode /\ g[n].kind = "ANT_SECTION_NAME"
      BY <2>2, <2>3, NoNodeIsNoNode DEF AddsSection
    <3>2. QED
      BY <2>1, <3>1, NewSectionPasses
  <2> HIDE DEF t
  <2>5. f.err = "UE_NONE" => StaysTidy(h, f.heap)
    BY <2>1, <2>2, <2>3, <2>4, NewSectionTypeStaysTidy
  <2>6. SoundResult(g, f) /\ f.err \in {"UE_NONE", "ABORTED"}
    <3>1. SoundResult(g, f)
      BY <2>1, <2>3, SectionTypeSetIsSound
    <3>2. f.err \in {"UE_NONE", "ABORTED"}
      BY <2>4, SectionTypeSetEnds DEF f
    <3>3. QED
      BY <3>1, <3>2
  <2>7. n \in DOMAIN f.heap /\ WellFormed(f.heap)
    BY <2>3, <2>6 DEF SoundResult, Keeps
  <2> HIDE DEF f
  <2>8. SoundResult(f.heap, e)
    BY <2>7, NameSetIsSound DEF SectionNameSet
  <2>9. /\ DeletedStay(f.heap, e.heap)
        /\ name \notin AtNames => StaysTidy(f.heap, e.heap)
    BY <2>7, SectionNameSetStaysTidy
  <2> HIDE DEF e
  <2>10. SoundResult(g, s)
    BY <2>6, <2>8, KeepsIsTransitive DEF SoundResult
  <2>11. s.err # "ABORTED" => /\ DeletedStay(h, s.heap)
                              /\ name \notin AtNames => StaysTidy(h, s.heap)
    <3>1. s.err # "ABORTED" => f.err = "UE_NONE"
      BY <2>6
    <3>2. f.err = "UE_NONE" => DeletedStay(h, e.heap) /\ DeletedStay(h, f.heap)
      BY <2>5, <2>9 DEF StaysTidy, DeletedStay
    <3>3. f.err = "UE_NONE" /\ name \notin AtNames => StaysTidy(h, e.heap) /\ StaysTidy(h, f.heap)
      BY <2>5, <2>9, TidyIsTransitive
    <3>4. QED
      BY <3>1, <3>2, <3>3
  <2> HIDE DEF s
  <2>12. r = OrRemove([s EXCEPT !.out = n], n)
    BY <1>1, <1>2 DEF error
  <2>13. r.err = s.err
    BY <2>10, <2>12, OrRemoveFacts
  <2>14. /\ DeletedStay(h, s.heap) => DeletedStay(h, r.heap)
         /\ StaysTidy(h, s.heap) => StaysTidy(h, r.heap)
    BY <2>3, <2>10, <2>12, AddedTidily
  <2>15. QED
    BY <2>11, <2>13, <2>14
<1>3. CASE error # "UE_NONE"
  <2>1. r.heap = h
    BY <1>1, <1>3, ResultFacts
  <2>2. StaysTidy(h, h)
    BY TidyIsReflexive
  <2>3. DeletedStay(h, h)
    BY <2>2 DEF StaysTidy
  <2>4. QED
    BY <2>1, <2>2, <2>3
<1>4. QED
  BY <1>2, <1>3

-----------------------------------------------------------------------------
(***************************************************************************)
(* The theorems about a client that retypes no section.                    *)
(***************************************************************************)

\* A call of such a client brings no node back, and leaves the sections as tidy as
\* before unless it names one "@...".
LEMMA KeepTypesStaysTidy ==
    ASSUME SoundState, Orderly(heap), KeepTypes
    PROVE  /\ DeletedStay(heap, heap')
           /\ SectionNames \cap AtNames = {} => StaysTidy(heap, heap')
<1> DEFINE Good(g) == /\ DeletedStay(heap, g)
                      /\ SectionNames \cap AtNames = {} => StaysTidy(heap, g)
<1>1. WellFormed(heap) /\ OrderlyBut(heap, {}, {})
  BY OrderlyParts DEF SoundState
<1>2. /\ OrNull(TypeNames) \subseteq Strings \cup {NoString}
      /\ OrNull(SectionNames) \subseteq Strings \cup {NoString}
      /\ OrNull(OptionNames) \subseteq Strings \cup {NoString}
      /\ OrNull(Values) \subseteq Strings \cup {NoString}
      /\ OrNull(TypeNames) = TypeNames \cup {NoString}
  BY DEF OrNull, Strings
<1>3. PICK n \in DOMAIN heap \cup {NoNode} : EditLines(n) \/ EditSections(n) \/ RemoveNode(n)
  BY DEF KeepTypes, Handles
<1>4. \A g : StaysTidy(heap, g) => Good(g)
  BY DEF StaysTidy
<1>5. Good(heap)
  BY <1>4, TidyIsReflexive
<1>6. \A name \in OrNull(SectionNames) : SectionNames \cap AtNames = {} => name \notin AtNames
  BY NamesAssumption DEF OrNull, Strings
<1> HIDE DEF Good
<1>7. SUFFICES \E r : (r.err # "ABORTED" => Good(r.heap)) /\ Call(r)
  <2>1. ASSUME NEW r, r.err # "ABORTED" => Good(r.heap), Call(r)
        PROVE  Good(heap')
    BY <1>5, <2>1 DEF Call
  <2>2. QED
    BY <2>1 DEF Good
<1>8. CASE AddSection(n)
  <2>1. PICK type \in OrNull(TypeNames), name \in OrNull(SectionNames) :
            Call(SectionAdd(heap, n, type, name))
    BY <1>8 DEF AddSection
  <2> DEFINE r == SectionAdd(heap, n, type, name)
  <2>2. r.err # "ABORTED" => Good(r.heap)
    BY <1>1, <1>2, <1>6, SectionAddStaysTidy DEF Good
  <2>3. QED
    BY <2>1, <2>2
<1>9. CASE AddOption(n)
  BY <1>1, <1>2, <1>4, <1>9, OptionAddStaysTidy DEF AddOption
<1>10. CASE AddList(n)
  BY <1>1, <1>2, <1>4, <1>10, ListAddStaysTidy DEF AddList
<1>11. CASE AddListElement(n)
  BY <1>1, <1>2, <1>4, <1>11, ListElementAddStaysTidy DEF AddListElement
<1>12. CASE RenameSection(n)
  <2>1. PICK name \in OrNull(SectionNames) : Call(SectionNameSet(heap, n, name))
    BY <1>12 DEF RenameSection
  <2>2. Good(SectionNameSet(heap, n, name).heap)
    BY <1>1, <1>6, SectionNameSetStaysTidy DEF Good
  <2>3. QED
    BY <2>1, <2>2
<1>13. CASE RenameOption(n)
  BY <1>1, <1>4, <1>13, NameSetStaysTidy DEF RenameOption, OptionNameSet
<1>14. CASE RenameList(n)
  BY <1>1, <1>4, <1>14, NameSetStaysTidy DEF RenameList, ListNameSet
<1>15. CASE SetOptionValue(n)
  BY <1>1, <1>4, <1>15, ValueSetStaysTidy DEF SetOptionValue
<1>16. CASE SetListElement(n)
  BY <1>1, <1>4, <1>16, ValueSetStaysTidy DEF SetListElement
<1>17. CASE RemoveNode(n)
  <2>1. StaysTidy(heap, NodeRemove(heap, n))
    BY <1>1, RemovedStaysTidy
  <2>2. Good(Success(NodeRemove(heap, n), NoNode).heap)
    BY <1>4, <2>1, ResultFacts
  <2>3. QED
    BY <1>17, <2>2 DEF RemoveNode
<1>18. QED
  BY <1>3, <1>8, <1>9, <1>10, <1>11, <1>12, <1>13, <1>14, <1>15, <1>16, <1>17
     DEF EditLines, EditSections

\* Such a client is one of the clients of Spec.
LEMMA KeepTypesIsNext == KeepTypes => Next
BY DEF KeepTypes, Next

\* So what holds whatever a client does holds here.
LEMMA SpecKeepTypesIsOrderly == SpecKeepTypes => []OrderlyState
<1>1. SpecKeepTypes => Spec
  BY KeepTypesIsNext, PTL DEF SpecKeepTypes, Spec
<1>2. QED
  BY <1>1, SpecIsOrderly, PTL

\* A removed node does not come back, whatever is added and renamed: only retyping a
\* section makes a merge that gives a deleted section type its sections back.
THEOREM DeletedNodesStayDeleted == SpecKeepTypes => DeletedStaysDeleted
<1> DEFINE Stay == \A n \in Node : Deleted(heap, n) => Deleted(heap', n)
<1>1. OrderlyState /\ [KeepTypes]_vars => Stay
  <2>1. DeletedStay(heap, heap') => Stay
    BY DEF DeletedStay, Node
  <2>2. UNCHANGED vars => Stay
    BY DEF vars, Deleted
  <2>3. QED
    BY <2>1, <2>2, KeepTypesStaysTidy DEF OrderlyState
<1> HIDE DEF Stay
<1>2. QED
  BY <1>1, SpecKeepTypesIsOrderly, PTL DEF SpecKeepTypes, DeletedStaysDeleted, Stay

\* The live sections of one type have different names, if they have from the start and
\* no client uses a name "@...", which the library gives to unnamed sections.
THEOREM SectionNamesStayDistinct ==
    ASSUME SectionNames \cap AtNames = {}, \A h \in InitialAsts : SectionsDistinct(h)
    PROVE  SpecKeepTypes => []SectionNamesDistinct
<1>1. Init => Tidy(heap)
  BY InitialAstsAssumption DEF Init, Tidy
<1>2. OrderlyState /\ Tidy(heap) /\ [KeepTypes]_vars => Tidy(heap)'
  <2>1. ASSUME OrderlyState, Tidy(heap), KeepTypes PROVE Tidy(heap')
    BY <2>1, KeepTypesStaysTidy DEF OrderlyState, StaysTidy
  <2>2. ASSUME Tidy(heap), UNCHANGED vars PROVE Tidy(heap')
    BY <2>2 DEF vars
  <2>3. QED
    BY <2>1, <2>2
<1>3. Tidy(heap) => SectionNamesDistinct
  BY DEF Tidy, SectionNamesDistinct
<1>4. QED
  BY <1>1, <1>2, <1>3, SpecKeepTypesIsOrderly, PTL DEF SpecKeepTypes

-----------------------------------------------------------------------------
(***************************************************************************)
(* uci2_node_get.                                                          *)
(***************************************************************************)

\* What a loop over the children finds is a child with the name.
LEMMA SearchFacts ==
    ASSUME NEW h, WellFormed(h), NEW n \in DOMAIN h, NEW name, NEW r, r = Search(h, n, name),
           r.err = "UE_NONE"
    PROVE  r.heap = h /\ r.out \in KidSet(h, n) /\ h[r.out].name = name
<1> DEFINE kids == Kids(h, n)
           I == {i \in 1 .. Len(kids) : h[kids[i]].name \in {name, NoString}}
           stop == IF I # {} THEN Min(I) ELSE 0
<1>1. Len(kids) = h[n].number /\ h[n].number \in Nat
      /\ \A k \in 1 .. h[n].number : kids[k] \in KidSet(h, n)
  <2>1. TypedNode(h, n)
    BY WellFormedUnfolds
  <2>2. h[n].number \in Nat
    BY <2>1, NodeFields
  <2>3. Len(kids) = h[n].number /\ KidSet(h, n) = {kids[k] : k \in 1 .. h[n].number}
    BY <2>1, KidsFacts
  <2>4. QED
    BY <2>2, <2>3
<1>2. r = IF stop = 0 THEN Failure(h, "UE_NODE_NOT_FOUND")
          ELSE IF h[kids[stop]].name = NoString THEN Failure(h, "ABORTED")
          ELSE Success(h, kids[stop])
  BY DEF Search, SelectInSeq
<1>3. stop # 0 /\ h[kids[stop]].name # NoString /\ r = Success(h, kids[stop])
  <2> HIDE DEF stop
  <2>1. Failure(h, "UE_NODE_NOT_FOUND").err # "UE_NONE" /\ Failure(h, "ABORTED").err # "UE_NONE"
    BY ResultFacts
  <2>2. QED
    BY <1>2, <2>1
<1>4. stop \in I
  <2>1. I # {} /\ stop = Min(I)
    BY <1>3
  <2>2. I \subseteq 1 .. h[n].number
    BY <1>1
  <2>3. Min(I) \in I
    <3> HIDE DEF I
    <3>1. QED
      BY <1>1, <2>1, <2>2, LeastIsIn
  <2>4. QED
    BY <2>1, <2>3
<1>5. stop \in 1 .. h[n].number /\ h[kids[stop]].name \in {name, NoString}
  BY <1>1, <1>4
<1>6. QED
  <2> HIDE DEF stop, kids
  <2>1. r.heap = h /\ r.out = kids[stop]
    BY <1>3, ResultFacts
  <2>2. QED
    BY <1>1, <1>3, <1>5, <2>1

\* The section that the loops over all sections end with is below a section type, and
\* has the name.
LEMMA SearchSectionsFacts ==
    ASSUME NEW h, WellFormed(h), NEW c \in DOMAIN h, NEW name,
           NEW r, r = SearchSections(h, c, name), r.err = "UE_NONE"
    PROVE  \E t \in KidSet(h, c) : r.heap = h /\ r.out \in KidSet(h, t) /\ h[r.out].name = name
<1> DEFINE kids  == Kids(h, c)
           found == [i \in DOMAIN kids |-> Search(h, kids[i], name)]
           I     == {i \in 1 .. Len(found) : found[i].err = "UE_NONE"}
           last  == IF I # {} THEN Max(I) ELSE 0
<1>1. /\ h[c].number \in Nat /\ DOMAIN kids = 1 .. h[c].number
      /\ \A k \in 1 .. h[c].number : kids[k] \in KidSet(h, c) /\ kids[k] \in DOMAIN h
  <2>1. TypedNode(h, c)
    BY WellFormedUnfolds
  <2>2. h[c].number \in Nat
    BY <2>1, NodeFields
  <2>3. /\ DOMAIN kids = 1 .. h[c].number /\ KidSet(h, c) \subseteq DOMAIN h
        /\ KidSet(h, c) = {kids[k] : k \in 1 .. h[c].number}
    BY <2>1, KidsFacts
  <2>4. QED
    BY <2>2, <2>3
<1>2. Len(found) = h[c].number
  BY <1>1
<1>3. \/ r = Failure(h, "ABORTED") \/ r = Failure(h, "UE_NODE_NOT_FOUND")
      \/ last # 0 /\ r = found[last]
  BY DEF SearchSections, SeqMap, SelectLastInSeq
<1>4. last # 0 /\ r = found[last]
  <2> HIDE DEF last, found
  <2>1. QED
    BY <1>3, ResultFacts
<1>5. last \in 1 .. h[c].number /\ r = Search(h, kids[last], name)
  <2>1. I # {} /\ last = Max(I)
    BY <1>4
  <2>2. I \subseteq 1 .. h[c].number
    BY <1>2
  <2>3. Max(I) \in I
    <3> HIDE DEF I
    <3>1. QED
      BY <1>1, <2>1, <2>2, LeastIsIn
  <2>4. last \in 1 .. h[c].number
    BY <2>1, <2>2, <2>3
  <2> HIDE DEF last
  <2>5. QED
    BY <1>1, <1>4, <2>4
<1>6. kids[last] \in KidSet(h, c) /\ kids[last] \in DOMAIN h
  BY <1>1, <1>5
<1>7. QED
  <2> HIDE DEF last, kids
  <2>1. r.heap = h /\ r.out \in KidSet(h, kids[last]) /\ h[r.out].name = name
    BY <1>5, <1>6, SearchFacts
  <2>2. QED
    BY <1>6, <2>1

\* A match that is deleted does not count.
LEMMA IfLiveFacts ==
    ASSUME NEW r, IfLive(r).err = "UE_NONE"
    PROVE  IfLive(r) = r /\ ~Deleted(r.heap, r.out)
<1>1. Failure(r.heap, "UE_NODE_NOT_FOUND").err # "UE_NONE"
  BY ResultFacts
<1>2. QED
  BY <1>1 DEF IfLive

\* The config node is one.
LEMMA ConfigNodeFacts ==
    ASSUME NEW h, WellFormed(h), Rooted(h), ConfigNode(h) # NoNode
    PROVE  ConfigNode(h) \in DOMAIN h /\ h[ConfigNode(h)].kind = "ANT_CONFIG"
           /\ ~Deleted(h, ConfigNode(h))
<1> DEFINE root == Root(h)
           kids == Kids(h, root)
           I    == {i \in 1 .. Len(kids) : ~Deleted(h, kids[i]) /\ h[kids[i]].kind = "ANT_CONFIG"}
           at   == IF I # {} THEN Min(I) ELSE 0
<1>1. root \in DOMAIN h
  BY DEF Rooted, Root
<1> HIDE DEF root
<1>2. /\ h[root].number \in Nat /\ Len(kids) = h[root].number
      /\ \A k \in 1 .. h[root].number : kids[k] \in DOMAIN h
  BY <1>1, WellFormedUnfolds, KidsFacts, NodeFields
<1>3. ConfigNode(h) = IF at = 0 THEN NoNode ELSE kids[at]
  BY DEF ConfigNode, SelectInSeq, root
<1>4. at # 0 /\ I # {} /\ at = Min(I) /\ ConfigNode(h) = kids[at]
  BY <1>3
<1>5. at \in I
  <2>1. I \subseteq 1 .. h[root].number
    BY <1>2
  <2>2. Min(I) \in I
    <3>1. I # {}
      BY <1>4
    <3> HIDE DEF I
    <3>2. QED
      BY <1>2, <2>1, <3>1, LeastIsIn
  <2>3. QED
    BY <1>4, <2>2
<1>6. at \in 1 .. h[root].number /\ ~Deleted(h, kids[at]) /\ h[kids[at]].kind = "ANT_CONFIG"
  BY <1>2, <1>5
<1>7. QED
  <2> HIDE DEF at, kids
  <2>1. QED
    BY <1>2, <1>4, <1>6

\* What uci2_node_get finds in an orderly heap is what it was asked for.
LEMMA NodeGetIsSound ==
    ASSUME NEW h, WellFormed(h), Rooted(h), NEW section, section # NoString,
           NEW option, option # NoString, NEW r, r = NodeGet(h, section, option),
           r.err = "UE_NONE"
    PROVE  /\ ~Deleted(h, r.out) /\ h[r.out].name = option
           /\ h[r.out].kind \in {"ANT_OPTION", "ANT_LIST"}
           /\ ~Deleted(h, h[r.out].parent) /\ h[h[r.out].parent].name = section
<1> DEFINE config == ConfigNode(h)
           all    == SearchSections(h, config, section)
           found  == IfLive(all)
           any    == Search(found.heap, found.out, option)
           line   == IfLive(any)
<1>1. /\ config # NoNode
      /\ r = IF found.err = "UE_NONE" THEN line ELSE found
  <2> HIDE DEF config
  <2>1. Failure(h, "UE_NODE_NOT_FOUND").err # "UE_NONE"
    BY ResultFacts
  <2>2. r = IF config = NoNode THEN Failure(h, "UE_NODE_NOT_FOUND")
            ELSE IF found.err = "UE_NONE" THEN line ELSE found
    BY DEF NodeGet, Then, config
  <2>3. QED
    BY <2>1, <2>2
<1>2. config \in DOMAIN h /\ h[config].kind = "ANT_CONFIG"
  BY <1>1, ConfigNodeFacts
<1> HIDE DEF config
<1>3. found.err = "UE_NONE" /\ r = line
  <2> HIDE DEF found, line
  <2>1. QED
    BY <1>1
<1>4. found = all /\ ~Deleted(all.heap, all.out)
  <2> HIDE DEF all
  <2>1. QED
    BY <1>3, IfLiveFacts
<1>5. PICK t \in KidSet(h, config) :
        all.heap = h /\ all.out \in KidSet(h, t) /\ h[all.out].name = section
  <2>1. all.err = "UE_NONE"
    BY <1>3, <1>4
  <2> HIDE DEF found
  <2>2. QED
    BY <1>2, <2>1, SearchSectionsFacts
<1> DEFINE s == all.out
<1>6. found.heap = h /\ found.out = s /\ ~Deleted(h, s) /\ h[s].name = section
  BY <1>4, <1>5
<1>7. s \in DOMAIN h /\ h[s].kind = "ANT_SECTION_NAME"
  <2>1. t \in DOMAIN h /\ h[t].kind \in ChildKinds("ANT_CONFIG")
    BY <1>2, WellFormedUnfolds, KidsFacts DEF LayeredNode
  <2>2. h[t].kind = "ANT_SECTION_TYPE"
    BY <2>1 DEF ChildKinds
  <2>3. QED
    BY <1>5, <2>1, <2>2, LiveSections
<1> HIDE DEF s, found
<1>8. line = any /\ ~Deleted(any.heap, any.out)
  <2> HIDE DEF any
  <2>1. QED
    BY <1>3, IfLiveFacts
<1>9. any = Search(h, s, option) /\ any.err = "UE_NONE"
  BY <1>3, <1>6, <1>8
<1> HIDE DEF any, line
<1>10. any.heap = h /\ any.out \in KidSet(h, s) /\ h[any.out].name = option
  BY <1>7, <1>9, SearchFacts
<1> DEFINE m == any.out
<1>11. r.out = m /\ ~Deleted(h, m) /\ h[m].name = option /\ m \in KidSet(h, s)
  BY <1>3, <1>8, <1>10
<1> HIDE DEF m
<1>12. m \in DOMAIN h /\ h[m].kind \in {"ANT_OPTION", "ANT_LIST"}
  <2>1. m \in DOMAIN h /\ h[m].kind \in ChildKinds("ANT_SECTION_NAME")
    BY <1>7, <1>11, WellFormedUnfolds, KidsFacts DEF LayeredNode
  <2>2. QED
    BY <2>1 DEF ChildKinds
<1>13. h[m].parent = s
  <2>1. h[m].parent \in DOMAIN h
    <3>1. TypedNode(h, m) /\ LayeredNode(h, m)
      BY <1>12, WellFormedUnfolds
    <3>2. h[m].parent # Pool
      BY <1>12, <3>1 DEF LayeredNode, PoolKinds
    <3>3. QED
      BY <1>11, <1>12, <3>1, <3>2, NodeFields DEF Deleted
  <2>2. m \in KidSet(h, h[m].parent)
    BY <1>12, <2>1 DEF WellFormed, ParentsAgree
  <2>3. QED
    BY <1>7, <1>11, <2>1, <2>2 DEF WellFormed, DisjointChildren, KidSet
<1>14. QED
  BY <1>6, <1>11, <1>12, <1>13

\* uci2_node_get returns no deleted node, no node of another name and none of another
\* section, for any names and any edits before it.
THEOREM NodeGetStaysSound == Spec => []NodeGetSound
<1>1. OrderlyState => NodeGetSound
  <2> SUFFICES ASSUME OrderlyState, NEW section \in SectionQueries, NEW option \in OptionNames,
                      NEW r, r = NodeGet(heap, section, option), r.err = "UE_NONE"
               PROVE  /\ Live(r.out) /\ heap[r.out].name = option
                      /\ heap[r.out].kind \in {"ANT_OPTION", "ANT_LIST"}
                      /\ Live(heap[r.out].parent) /\ heap[heap[r.out].parent].name = section
    BY DEF NodeGetSound
  <2>1. WellFormed(heap) /\ Rooted(heap)
    BY DEF OrderlyState, SoundState, Orderly
  <2>2. section \in Strings /\ option \in Strings
    BY DEF SectionQueries, Strings, AtNames, UnnamedNames, UnnamedName
  <2>3. section # NoString /\ option # NoString
    BY <2>2, NamesAssumption
  <2>4. QED
    BY <2>1, <2>3, NodeGetIsSound DEF Live
<1>2. QED
  BY <1>1, SpecIsOrderly, PTL

=============================================================================
