---------------------------- MODULE UciAstProofs ----------------------------
(***************************************************************************)
(* What the operations of src/src/ast.c preserve: a heap whose nodes are   *)
(* typed and layered stays so, and so does one whose links agree.          *)
(***************************************************************************)
EXTENDS UciAst, SequencesExt, SequenceTheorems, WellFoundedInduction, FiniteSetTheorems, TLAPS

-----------------------------------------------------------------------------
(***************************************************************************)
(* Facts about FlattenSeq, which the merge of ast_node_merge is stated     *)
(* with, and the induction over the natural numbers they rest on.          *)
(***************************************************************************)

\* The order < on natural numbers as a set of pairs.
NatLess == {ss \in Nat \X Nat : ss[1] < ss[2]}

\* The order < on natural numbers has no infinite descent.
LEMMA NatLessIsWellFounded == IsWellFoundedOn(NatLess, Nat)
BY NatLessThanWellFounded DEF OpToRel, NatLess

\* Induction for a set of numbers: one that contains 0, and with each number the
\* next one, contains them all.
LEMMA SetInduction ==
    ASSUME NEW S, 0 \in S, \A n \in Nat : n \in S => n + 1 \in S
    PROVE  Nat \subseteq S
<1>1. SUFFICES ASSUME Nat \ S # {} PROVE FALSE
  OBVIOUS
<1>2. PICK n \in Nat \ S : \A m \in Nat \ S : ~ (<<m, n>> \in NatLess)
  <2>1. \A T : T \subseteq Nat /\ T # {} =>
            \E n \in T : \A m \in T : ~ (<<m, n>> \in NatLess)
    BY NatLessIsWellFounded, WFMin
  <2>2. QED
    BY <1>1, <2>1
<1>3. n - 1 \in Nat /\ <<n - 1, n>> \in NatLess
  BY DEF NatLess
<1>4. n - 1 \in S
  BY <1>2, <1>3
<1>5. QED
  BY <1>3, <1>4

\* A non-empty set of numbers has a least element.
LEMMA LeastNumber ==
    ASSUME NEW T, T \subseteq Nat, T # {}
    PROVE  \E n \in T : \A m \in T : n <= m
<1>1. PICK n \in T : \A m \in T : ~ (<<m, n>> \in NatLess)
  BY NatLessIsWellFounded, WFMin
<1>2. ASSUME NEW m \in T PROVE n <= m
  <2>1. m \in Nat /\ n \in Nat
    OBVIOUS
  <2>2. ~ (m < n)
    BY <1>1, <2>1 DEF NatLess
  <2>3. QED
    BY <2>1, <2>2
<1>3. QED
  BY <1>2

\* The least and the greatest of some numbers are among them.
LEMMA LeastIsIn ==
    ASSUME NEW T, NEW N \in Nat, T \subseteq 1 .. N, T # {}
    PROVE  /\ Min(T) \in T /\ \A m \in T : Min(T) <= m
           /\ Max(T) \in T /\ \A m \in T : m <= Max(T)
<1>1. \E n \in T : \A m \in T : n <= m
  <2>1. T \subseteq Nat
    OBVIOUS
  <2>2. QED
    BY <2>1, LeastNumber
<1>2. \E n \in T : \A m \in T : n >= m
  <2> DEFINE D == {N - m : m \in T}
  <2>1. D \subseteq Nat /\ D # {}
    <3>1. \A m \in T : N - m \in Nat
      <4>1. \A m \in 1 .. N : N - m \in Nat
        OBVIOUS
      <4>2. QED
        BY <4>1
    <3>2. QED
      BY <3>1
  <2>2. PICK d \in D : \A e \in D : d <= e
    BY <2>1, LeastNumber
  <2>3. PICK n \in T : d = N - n
    BY <2>2
  <2>4. ASSUME NEW m \in T PROVE n >= m
    <3>1. N - m \in D
      OBVIOUS
    <3>2. d <= N - m
      BY <2>2, <3>1
    <3>3. n \in Nat /\ m \in Nat
      OBVIOUS
    <3>4. QED
      BY <3>2, <3>3, <2>3
  <2>5. QED
    BY <2>4
<1>3. Min(T) \in T /\ \A m \in T : Min(T) <= m
  BY <1>1 DEF Min
<1>4. Max(T) \in T /\ \A m \in T : Max(T) >= m
  BY <1>2 DEF Max
<1>5. QED
  BY <1>3, <1>4

\* Two sequences put together.
LEMMA Joined ==
    ASSUME NEW S, NEW s \in Seq(S), NEW t \in Seq(S)
    PROVE  /\ s \o t \in Seq(S) /\ Len(s \o t) = Len(s) + Len(t) /\ DOMAIN (s \o t) = 1 .. Len(s) + Len(t)
           /\ Len(s) \in Nat /\ Len(t) \in Nat
           /\ DOMAIN s = 1 .. Len(s) /\ DOMAIN t = 1 .. Len(t)
           /\ \A k \in 1 .. Len(s) : (s \o t)[k] = s[k]
           /\ \A k \in 1 .. Len(t) : (s \o t)[Len(s) + k] = t[k]
<1> DEFINE joined == s \o t
<1>1. /\ joined \in Seq(S) /\ Len(joined) = Len(s) + Len(t)
      /\ \A k \in 1 .. Len(s) + Len(t) : joined[k] = IF k <= Len(s) THEN s[k] ELSE t[k - Len(s)]
  BY ConcatProperties
<1>2. Len(s) \in Nat /\ Len(t) \in Nat /\ DOMAIN s = 1 .. Len(s) /\ DOMAIN t = 1 .. Len(t)
  BY LenProperties
<1> HIDE DEF joined
<1>3. DOMAIN joined = 1 .. Len(s) + Len(t)
  BY <1>1, LenProperties
<1>4. ASSUME NEW k \in 1 .. Len(t) PROVE joined[Len(s) + k] = t[k]
  <2>1. Len(s) + k \in 1 .. Len(s) + Len(t) /\ ~(Len(s) + k <= Len(s)) /\ (Len(s) + k) - Len(s) = k
    BY <1>2
  <2>2. QED
    BY <1>1, <2>1
<1>5. QED
  BY <1>1, <1>2, <1>3, <1>4 DEF joined

\* The i-th value of the recursion FlattenSeq runs through.
FlattenStep(f, seqs, i) == IF i = 1 THEN seqs[i] ELSE f[i - 1] \o seqs[i]

\* The recursion of FlattenSeq has a solution for the first n sequences.
LEMMA FlattenExists ==
    ASSUME NEW seqs
    PROVE  \A n \in Nat : \E f : f = [i \in 1 .. n |-> FlattenStep(f, seqs, i)]
<1> DEFINE Solved == {n \in Nat : \E f : f = [i \in 1 .. n |-> FlattenStep(f, seqs, i)]}
<1>1. 0 \in Solved
  <2> DEFINE f == [i \in 1 .. 0 |-> seqs]
  <2>1. f = [i \in 1 .. 0 |-> FlattenStep(f, seqs, i)]
    OBVIOUS
  <2>2. QED
    BY <2>1
<1>2. ASSUME NEW n \in Nat, n \in Solved PROVE n + 1 \in Solved
  <2>1. PICK f : f = [i \in 1 .. n |-> FlattenStep(f, seqs, i)]
    BY <1>2
  <2> DEFINE g == [i \in 1 .. n + 1 |-> IF i = n + 1 THEN FlattenStep(f, seqs, i) ELSE f[i]]
  <2>2. ASSUME NEW i \in 1 .. n + 1 PROVE g[i] = FlattenStep(g, seqs, i)
    <3>1. CASE i = n + 1
      BY <3>1 DEF FlattenStep
    <3>2. CASE i # n + 1
      <4>1. i \in 1 .. n /\ g[i] = f[i]
        BY <3>2
      <4>2. f[i] = FlattenStep(f, seqs, i)
        BY <2>1, <4>1
      <4>3. i # 1 => g[i - 1] = f[i - 1]
        BY <4>1
      <4>4. QED
        BY <4>1, <4>2, <4>3 DEF FlattenStep
    <3>3. QED
      BY <3>1, <3>2
  <2>3. g = [i \in 1 .. n + 1 |-> FlattenStep(g, seqs, i)]
    BY <2>2
  <2> HIDE DEF g
  <2>4. \E k : k = [i \in 1 .. n + 1 |-> FlattenStep(k, seqs, i)]
    BY <2>3
  <2>5. QED
    BY <2>4
<1>3. QED
  BY <1>1, <1>2, SetInduction

\* FlattenSeq is the last value of that recursion.
LEMMA FlattenUnfolds ==
    ASSUME NEW S, NEW seqs \in Seq(S), seqs # <<>>
    PROVE  \E f : /\ f = [i \in 1 .. Len(seqs) |-> FlattenStep(f, seqs, i)]
                  /\ FlattenSeq(seqs) = f[Len(seqs)]
<1>1. Len(seqs) \in Nat /\ Len(seqs) # 0
  BY EmptySeq, LenProperties
<1> DEFINE f == CHOOSE f : f = [i \in 1 .. Len(seqs) |->
                                   IF i = 1 THEN seqs[i] ELSE f[i - 1] \o seqs[i]]
<1>2. f = [i \in 1 .. Len(seqs) |-> FlattenStep(f, seqs, i)]
  BY <1>1, FlattenExists DEF FlattenStep
<1>3. FlattenSeq(seqs) = f[Len(seqs)]
  BY <1>1 DEF FlattenSeq
<1>4. QED
  BY <1>2, <1>3

\* s is made of the entries of the first n sequences: each entry of s is one of
\* theirs, each of theirs is in s, and s has no entry twice if they have none.
MadeOf(s, seqs, n) ==
    /\ \A p \in 1 .. Len(s) : \E j \in 1 .. n : \E k \in 1 .. Len(seqs[j]) : s[p] = seqs[j][k]
    /\ \A j \in 1 .. n : \A k \in 1 .. Len(seqs[j]) : \E p \in 1 .. Len(s) : s[p] = seqs[j][k]
    /\ (\A j, m \in 1 .. n : \A k \in 1 .. Len(seqs[j]), l \in 1 .. Len(seqs[m]) :
            seqs[j][k] = seqs[m][l] => j = m /\ k = l)
       => \A p, q \in 1 .. Len(s) : s[p] = s[q] => p = q

\* One more sequence.
LEMMA MadeOfNext ==
    ASSUME NEW S, NEW seqs \in Seq(Seq(S)), NEW n \in Nat, n + 1 <= Len(seqs),
           NEW s \in Seq(S), MadeOf(s, seqs, n)
    PROVE  s \o seqs[n + 1] \in Seq(S) /\ MadeOf(s \o seqs[n + 1], seqs, n + 1)
<1> DEFINE t == seqs[n + 1]
<1> DEFINE u == s \o t
<1>1. t \in Seq(S) /\ \A j \in 1 .. n + 1 : seqs[j] \in Seq(S)
  OBVIOUS
<1>2. u \in Seq(S) /\ Len(s) \in Nat /\ Len(t) \in Nat /\ Len(u) = Len(s) + Len(t)
  BY <1>1
<1>3. /\ \A p \in 1 .. Len(s) : u[p] = s[p]
      /\ \A k \in 1 .. Len(t) : u[Len(s) + k] = t[k]
  BY <1>1, <1>2
<1> HIDE DEF t, u
<1>4. \A p \in 1 .. Len(u) : \/ p \in 1 .. Len(s) /\ u[p] = s[p]
                             \/ p - Len(s) \in 1 .. Len(t) /\ u[p] = t[p - Len(s)]
  <2> SUFFICES ASSUME NEW p \in 1 .. Len(u), p \notin 1 .. Len(s)
               PROVE  p - Len(s) \in 1 .. Len(t) /\ u[p] = t[p - Len(s)]
    BY <1>3
  <2>1. p - Len(s) \in 1 .. Len(t) /\ Len(s) + (p - Len(s)) = p
    BY <1>2
  <2>2. u[Len(s) + (p - Len(s))] = t[p - Len(s)]
    BY <1>3, <2>1
  <2>3. QED
    BY <2>1, <2>2
<1>5. ASSUME NEW p \in 1 .. Len(u)
      PROVE  \E j \in 1 .. n + 1 : \E k \in 1 .. Len(seqs[j]) : u[p] = seqs[j][k]
  <2>1. CASE p \in 1 .. Len(s) /\ u[p] = s[p]
    <3>1. PICK j \in 1 .. n : \E k \in 1 .. Len(seqs[j]) : s[p] = seqs[j][k]
      BY <2>1 DEF MadeOf
    <3>2. j \in 1 .. n + 1
      OBVIOUS
    <3>3. QED
      BY <2>1, <3>1, <3>2
  <2>2. CASE p - Len(s) \in 1 .. Len(t) /\ u[p] = t[p - Len(s)]
    BY <2>2 DEF t
  <2>3. QED
    BY <1>4, <2>1, <2>2
<1>6. ASSUME NEW j \in 1 .. n + 1, NEW k \in 1 .. Len(seqs[j])
      PROVE  \E p \in 1 .. Len(u) : u[p] = seqs[j][k]
  <2>1. CASE j = n + 1
    <3>1. k \in 1 .. Len(t) /\ t[k] = seqs[j][k]
      BY <2>1 DEF t
    <3>2. Len(s) + k \in 1 .. Len(u)
      BY <1>2, <3>1
    <3>3. u[Len(s) + k] = t[k]
      BY <1>3, <3>1
    <3>4. QED
      BY <3>1, <3>2, <3>3
  <2>2. CASE j # n + 1
    <3>1. j \in 1 .. n
      BY <2>2
    <3>2. PICK p \in 1 .. Len(s) : s[p] = seqs[j][k]
      BY <3>1 DEF MadeOf
    <3>3. p \in 1 .. Len(u) /\ u[p] = s[p]
      BY <1>2, <1>3
    <3>4. QED
      BY <3>2, <3>3
  <2>3. QED
    BY <2>1, <2>2
<1>7. ASSUME \A j, m \in 1 .. n + 1 : \A k \in 1 .. Len(seqs[j]), l \in 1 .. Len(seqs[m]) :
                 seqs[j][k] = seqs[m][l] => j = m /\ k = l,
             NEW p \in 1 .. Len(u), NEW q \in 1 .. Len(u), u[p] = u[q]
      PROVE  p = q
  <2>1. \A j, m \in 1 .. n : \A k \in 1 .. Len(seqs[j]), l \in 1 .. Len(seqs[m]) :
            seqs[j][k] = seqs[m][l] => j = m /\ k = l
    <3>1. \A j \in 1 .. n : j \in 1 .. n + 1
      OBVIOUS
    <3>2. QED
      BY <1>7, <3>1
  <2>2. \A a, b \in 1 .. Len(s) : s[a] = s[b] => a = b
    BY <2>1 DEF MadeOf
  <2>3. \A a, b \in 1 .. Len(t) : t[a] = t[b] => a = b
    BY SMTT(30), <1>7 DEF t
  <2>4. ASSUME NEW a \in 1 .. Len(s), NEW b \in 1 .. Len(t) PROVE s[a] # t[b]
    <3>1. PICK j \in 1 .. n : \E k \in 1 .. Len(seqs[j]) : s[a] = seqs[j][k]
      BY DEF MadeOf
    <3>2. PICK k \in 1 .. Len(seqs[j]) : s[a] = seqs[j][k]
      BY <3>1
    <3>3. j \in 1 .. n + 1 /\ n + 1 \in 1 .. n + 1 /\ j # n + 1
      OBVIOUS
    <3>4. b \in 1 .. Len(seqs[n + 1]) /\ t[b] = seqs[n + 1][b]
      BY DEF t
    <3>5. seqs[j][k] = seqs[n + 1][b] => j = n + 1
      BY <1>7, <3>2, <3>3, <3>4
    <3>6. QED
      BY <3>2, <3>3, <3>4, <3>5
  <2>5. CASE p \in 1 .. Len(s) /\ u[p] = s[p]
    <3>1. q \in 1 .. Len(s) /\ u[q] = s[q]
      BY ZenonT(30), <1>4, <1>7, <2>4, <2>5
    <3>2. QED
      BY <1>7, <2>2, <2>5, <3>1
  <2>6. CASE p - Len(s) \in 1 .. Len(t) /\ u[p] = t[p - Len(s)]
    <3>1. q - Len(s) \in 1 .. Len(t) /\ u[q] = t[q - Len(s)]
      BY <1>4, <1>7, <2>4, <2>6
    <3>2. p - Len(s) = q - Len(s)
      BY <1>7, <2>3, <2>6, <3>1
    <3>3. QED
      BY <1>2, <3>2
  <2>7. QED
    BY <1>4, <2>5, <2>6
<1>8. MadeOf(u, seqs, n + 1)
  BY <1>5, <1>6, <1>7 DEF MadeOf
<1>9. QED
  BY <1>2, <1>8 DEF t, u

\* What FlattenSeq returns for a sequence of sequences of members of S.
LEMMA FlattenFacts ==
    ASSUME NEW S, NEW seqs \in Seq(Seq(S))
    PROVE  /\ FlattenSeq(seqs) \in Seq(S)
           /\ MadeOf(FlattenSeq(seqs), seqs, Len(seqs))
<1>1. CASE seqs = <<>>
  <2>1. FlattenSeq(seqs) = <<>>
    BY <1>1 DEF FlattenSeq
  <2>2. Len(seqs) = 0 /\ 1 .. 0 = {} /\ Len(FlattenSeq(seqs)) = 0
    BY <1>1, <2>1
  <2>3. FlattenSeq(seqs) \in Seq(S)
    BY <2>1
  <2>4. MadeOf(FlattenSeq(seqs), seqs, Len(seqs))
    BY <2>2 DEF MadeOf
  <2>5. QED
    BY <2>3, <2>4
<1>2. CASE seqs # <<>>
  <2>1. Len(seqs) \in Nat /\ Len(seqs) >= 1
    BY <1>2, EmptySeq, LenProperties
  <2>2. PICK f : /\ f = [i \in 1 .. Len(seqs) |-> FlattenStep(f, seqs, i)]
                 /\ FlattenSeq(seqs) = f[Len(seqs)]
    BY <1>2, FlattenUnfolds
  <2>3. \A i \in 1 .. Len(seqs) : f[i] = FlattenStep(f, seqs, i)
    BY <2>2
  <2> DEFINE Done == {n \in Nat : n + 1 <= Len(seqs) =>
                          f[n + 1] \in Seq(S) /\ MadeOf(f[n + 1], seqs, n + 1)}
  <2>4. 0 \in Done
    <3>1. f[1] = seqs[1] /\ seqs[1] \in Seq(S)
      BY <2>1, <2>3 DEF FlattenStep
    <3>2. MadeOf(seqs[1], seqs, 1)
      <4>1. 1 .. 1 = {1}
        OBVIOUS
      <4>2. QED
        BY <4>1 DEF MadeOf
    <3>3. QED
      BY <3>1, <3>2
  <2>5. ASSUME NEW n \in Nat, n \in Done PROVE n + 1 \in Done
    <3>1. SUFFICES ASSUME n + 2 <= Len(seqs)
                   PROVE  f[n + 2] \in Seq(S) /\ MadeOf(f[n + 2], seqs, n + 2)
      <4>1. n + 1 + 1 = n + 2
        OBVIOUS
      <4>2. QED
        BY <4>1
    <3>2. f[n + 1] \in Seq(S) /\ MadeOf(f[n + 1], seqs, n + 1)
      BY <2>1, <2>5, <3>1
    <3>3. f[n + 2] = f[n + 1] \o seqs[n + 2]
      <4>1. n + 2 \in 1 .. Len(seqs) /\ n + 2 # 1 /\ (n + 2) - 1 = n + 1
        BY <2>1, <3>1
      <4>2. QED
        BY <2>3, <4>1 DEF FlattenStep
    <3>4. n + 1 \in Nat /\ (n + 1) + 1 = n + 2
      OBVIOUS
    <3>5. f[n + 1] \o seqs[(n + 1) + 1] \in Seq(S)
          /\ MadeOf(f[n + 1] \o seqs[(n + 1) + 1], seqs, (n + 1) + 1)
      BY <3>1, <3>2, <3>4, MadeOfNext
    <3>6. QED
      BY <3>3, <3>4, <3>5
  <2>6. Nat \subseteq Done
    BY <2>4, <2>5, SetInduction
  <2>7. (Len(seqs) - 1) + 1 = Len(seqs) /\ Len(seqs) - 1 \in Done
    <3>1. Len(seqs) - 1 \in Nat /\ (Len(seqs) - 1) + 1 = Len(seqs)
      BY <2>1
    <3> HIDE DEF Done
    <3>2. QED
      BY <2>6, <3>1
  <2>8. QED
    BY <2>1, <2>2, <2>7
<1>3. QED
  BY <1>1, <1>2

-----------------------------------------------------------------------------
(***************************************************************************)
(* The parts of the invariants, and the nodes they speak of.               *)
(***************************************************************************)

\* The parts of TypedAst and LayeredAst that speak of one node.
TypedNode(h, n) ==
    /\ h[n] \in AstNode(DOMAIN h)
    /\ h[n].number <= Len(h[n].children)
    /\ h[n].kind = "ANT_SECTION_TYPE" => h[n].name \in TypeNames \cup {NoString}

LayeredNode(h, n) ==
    /\ \A m \in KidSet(h, n) : h[m].kind \in ChildKinds(h[n].kind)
    /\ h[n].parent \in DOMAIN h => h[n].kind \in ChildKinds(h[h[n].parent].kind)
    /\ h[n].parent = Pool => h[n].kind \in PoolKinds

Sound(h) == TypedAst(h) /\ LayeredAst(h)

\* A heap is a function on 1 .. Len(h) whose nodes have the parts.
LEMMA TypedUnfolds ==
    ASSUME NEW h, TypedAst(h)
    PROVE  /\ Len(h) \in Nat
           /\ DOMAIN h = 1 .. Len(h)
           /\ h = [n \in DOMAIN h |-> h[n]]
           /\ \A n \in DOMAIN h : TypedNode(h, n)
<1>1. h \in Seq(AstNode(DOMAIN h))
  BY DEF TypedAst
<1>2. Len(h) \in Nat /\ DOMAIN h = 1 .. Len(h) /\ h \in [1 .. Len(h) -> AstNode(DOMAIN h)]
  BY <1>1, LenProperties
<1>3. \A n \in DOMAIN h : h[n] \in AstNode(DOMAIN h)
  BY <1>2
<1>4. QED
  BY <1>2, <1>3 DEF TypedAst, TypedNode

LEMMA SoundUnfolds ==
    ASSUME NEW h, Sound(h)
    PROVE  /\ Len(h) \in Nat
           /\ DOMAIN h = 1 .. Len(h)
           /\ h = [n \in DOMAIN h |-> h[n]]
           /\ \A n \in DOMAIN h : TypedNode(h, n) /\ LayeredNode(h, n)
BY TypedUnfolds DEF Sound, LayeredAst, LayeredNode

\* A function from 1 .. N to typed and layered nodes is a sound heap.
LEMMA SoundFolds ==
    ASSUME NEW h, NEW N \in Nat, h = [n \in 1 .. N |-> h[n]],
           \A n \in 1 .. N : TypedNode(h, n) /\ LayeredNode(h, n)
    PROVE  Sound(h) /\ Len(h) = N /\ DOMAIN h = 1 .. N
<1>1. DOMAIN h = 1 .. N
  OBVIOUS
<1>2. h \in [1 .. N -> AstNode(DOMAIN h)]
  <2>1. \A n \in 1 .. N : h[n] \in AstNode(DOMAIN h)
    BY DEF TypedNode
  <2>2. QED
    BY <2>1
<1>3. h \in Seq(AstNode(DOMAIN h))
  BY <1>2, SeqDef
<1>4. Len(h) = N
  BY <1>1, <1>3, LenProperties
<1>5. QED
  BY <1>1, <1>3, <1>4 DEF Sound, TypedAst, LayeredAst, TypedNode, LayeredNode

\* The fields of a node of a sound heap.
LEMMA NodeFields ==
    ASSUME NEW h, NEW n \in DOMAIN h, TypedNode(h, n)
    PROVE  /\ h[n] = [kind |-> h[n].kind, name |-> h[n].name, value |-> h[n].value,
                      parent |-> h[n].parent, children |-> h[n].children,
                      number |-> h[n].number, unnamed |-> h[n].unnamed]
           /\ h[n].kind \in NodeKinds
           /\ h[n].name \in Strings \cup {NoString}
           /\ h[n].value \in Strings \cup {NoString}
           /\ h[n].parent \in DOMAIN h \cup {NoNode, Pool}
           /\ h[n].children \in Seq(DOMAIN h)
           /\ h[n].number \in Nat
           /\ h[n].number <= Len(h[n].children)
           /\ h[n].unnamed \in Nat
BY DEF TypedNode, AstNode

\* The children of a node of a sound heap.
LEMMA KidsFacts ==
    ASSUME NEW h, NEW n \in DOMAIN h, TypedNode(h, n)
    PROVE  /\ KidSet(h, n) \subseteq DOMAIN h
           /\ Kids(h, n) \in Seq(DOMAIN h)
           /\ Len(Kids(h, n)) = h[n].number
           /\ DOMAIN Kids(h, n) = 1 .. h[n].number
           /\ \A k \in 1 .. h[n].number : Kids(h, n)[k] = h[n].children[k]
           /\ KidSet(h, n) = {Kids(h, n)[k] : k \in 1 .. h[n].number}
           /\ Range(Kids(h, n)) = KidSet(h, n)
<1> DEFINE c == h[n].children
<1> DEFINE r == h[n].number
<1>1. c \in Seq(DOMAIN h) /\ r \in Nat /\ r <= Len(c)
  BY NodeFields
<1>2. Kids(h, n) = SubSeq(c, 1, r) /\ KidSet(h, n) = {c[k] : k \in 1 .. r}
  BY DEF Kids, KidSet
<1> HIDE DEF c, r
<1>3. /\ SubSeq(c, 1, r) \in Seq(DOMAIN h) /\ Len(SubSeq(c, 1, r)) = r
      /\ \A k \in 1 .. r : SubSeq(c, 1, r)[k] = c[k]
  BY <1>1
<1>4. DOMAIN SubSeq(c, 1, r) = 1 .. r
  BY <1>3
<1>5. \A k \in 1 .. r : c[k] \in DOMAIN h
  BY <1>1
<1>6. QED
  BY <1>2, <1>3, <1>4, <1>5 DEF c, r, Range

\* A node stays one when there are more nodes.
LEMMA NodeGrows ==
    ASSUME NEW D, NEW E, D \subseteq E, NEW r \in AstNode(D)
    PROVE  r \in AstNode(E)
<1>1. r.children \in Seq(D) /\ r.parent \in D \cup {NoNode, Pool}
  BY DEF AstNode
<1>2. r.children \in Seq(E) /\ r.parent \in E \cup {NoNode, Pool}
  BY <1>1, SeqMonotonic
<1>3. QED
  BY <1>2 DEF AstNode

-----------------------------------------------------------------------------
(***************************************************************************)
(* A new node below an old one, and changes of one node.                   *)
(***************************************************************************)

\* ast_node_new followed by ast_node_add below node p.
Added(h, p, kind) ==
    AstNodeAdd(AstNodeNew(h, kind, NoString, NoString), p, Len(h) + 1)

\* The node it creates.
AddedNode(p, kind) ==
    [kind |-> kind, name |-> NoString, value |-> NoString, parent |-> p,
     children |-> <<>>, number |-> 0, unnamed |-> 0]

\* Node r with the children c.
Holding(r, c) ==
    [kind |-> r.kind, name |-> r.name, value |-> r.value, parent |-> r.parent,
     children |-> c, number |-> Len(c), unnamed |-> r.unnamed]

\* It is still a node.
LEMMA HoldingIsNode ==
    ASSUME NEW D, NEW E, D \subseteq E, NEW r \in AstNode(D), NEW c \in Seq(E)
    PROVE  Holding(r, c) \in AstNode(E)
<1>1. r \in AstNode(E) /\ Len(c) \in Nat
  BY NodeGrows, LenProperties
<1>2. QED
  BY <1>1 DEF AstNode, Holding

\* The nodes of the heap those two leave behind.
LEMMA AddedNodes ==
    ASSUME NEW h, Sound(h), NEW p \in DOMAIN h, NEW kind, NEW g, g = Added(h, p, kind)
    PROVE  /\ g = [n \in 1 .. Len(h) + 1 |-> g[n]]
           /\ g[Len(h) + 1] = AddedNode(p, kind)
           /\ g[p] = Holding(h[p], Append(Kids(h, p), Len(h) + 1))
           /\ \A n \in DOMAIN h : n # p => g[n] = h[n]
<1> DEFINE L == Len(h) + 1
<1> DEFINE f == AstNodeNew(h, kind, NoString, NoString)
<1> DEFINE x == NewNode(kind, NoString, NoString)
<1>1. Len(h) \in Nat /\ DOMAIN h = 1 .. Len(h) /\ h \in Seq(AstNode(DOMAIN h))
  BY SoundUnfolds DEF Sound, TypedAst
<1>2. /\ f = [n \in 1 .. L |-> f[n]] /\ f[L] = x
      /\ \A n \in DOMAIN h : f[n] = h[n]
  <2>1. f = Append(h, x)
    BY DEF AstNodeNew
  <2> DEFINE S == AstNode(DOMAIN h) \cup {x}
  <2>2. h \in Seq(S) /\ x \in S
    BY <1>1, SeqMonotonic
  <2> HIDE DEF S, x, f
  <2>3. f \in Seq(S) /\ Len(f) = L /\ f[L] = x /\ \A n \in 1 .. Len(h) : f[n] = h[n]
    BY <2>1, <2>2, AppendProperties
  <2>4. f = [n \in 1 .. L |-> f[n]]
    BY <2>3, LenProperties
  <2>5. QED
    BY <1>1, <2>3, <2>4
<1>3. p \in 1 .. L /\ L \in 1 .. L /\ p # L /\ f[p] = h[p]
  <2> HIDE DEF f
  <2>1. QED
    BY SMTT(30), <1>1, <1>2
<1>4. Kids(f, p) = Kids(h, p)
  BY <1>3 DEF Kids
<1>5. g = [f EXCEPT ![L].parent = p, ![p].children = Append(Kids(f, p), L),
                    ![p].number = @ + 1]
  BY DEF Added, AstNodeAdd
<1> HIDE DEF f
<1>6. g = [n \in 1 .. L |-> g[n]]
  BY <1>2, <1>5
<1>7. g[p] = [f[p] EXCEPT !.children = Append(Kids(f, p), L), !.number = @ + 1]
  BY <1>2, <1>3, <1>5
<1>8. g[L] = [f[L] EXCEPT !.parent = p]
  BY <1>2, <1>3, <1>5
<1>9. \A n \in DOMAIN h : n # p => g[n] = h[n]
  <2>1. \A n \in DOMAIN h : n \in 1 .. L /\ n # L
    BY <1>1
  <2>2. QED
    BY <1>2, <1>5, <2>1
<1>10. g[L] = AddedNode(p, kind)
  BY SMTT(30), <1>2, <1>8 DEF AddedNode, NewNode
<1>11. g[p] = Holding(h[p], Append(Kids(h, p), L))
  <2>1. h[p] \in AstNode(DOMAIN h) /\ Kids(h, p) \in Seq(DOMAIN h) /\ Len(Kids(h, p)) = h[p].number
    BY SoundUnfolds, KidsFacts DEF TypedNode
  <2>2. Len(Append(Kids(h, p), L)) = h[p].number + 1
    <3>1. Kids(h, p) \in Seq(DOMAIN h \cup {L}) /\ L \in DOMAIN h \cup {L}
      BY <2>1, SeqMonotonic
    <3>2. QED
      BY <2>1, <3>1, AppendProperties
  <2>3. g[p] = [h[p] EXCEPT !.children = Append(Kids(h, p), L), !.number = h[p].number + 1]
    BY <1>3, <1>4, <1>7
  <2>4. QED
    BY <2>1, <2>2, <2>3 DEF AstNode, Holding
<1>12. QED
  BY <1>6, <1>9, <1>10, <1>11

\* They keep the heap sound where the kinds fit, and touch no other node but p.
LEMMA AddedIsSound ==
    ASSUME NEW h, Sound(h), NEW p \in DOMAIN h, NEW kind \in ChildKinds(h[p].kind),
           NEW g, g = Added(h, p, kind)
    PROVE  /\ Sound(g)
           /\ Len(g) = Len(h) + 1
           /\ DOMAIN g = 1 .. Len(h) + 1
           /\ g[Len(h) + 1].kind = kind /\ g[Len(h) + 1].parent = p
           /\ \A n \in DOMAIN h : g[n].kind = h[n].kind /\ g[n].parent = h[n].parent
<1> DEFINE L == Len(h) + 1
<1> DEFINE c == Append(Kids(h, p), L)
<1>1. /\ Len(h) \in Nat /\ DOMAIN h = 1 .. Len(h)
      /\ \A n \in DOMAIN h : TypedNode(h, n) /\ LayeredNode(h, n)
  BY SoundUnfolds
<1>2. /\ g = [n \in 1 .. L |-> g[n]]
      /\ g[L] = AddedNode(p, kind)
      /\ g[p] = Holding(h[p], c)
      /\ \A n \in DOMAIN h : n # p => g[n] = h[n]
  BY AddedNodes
<1> HIDE DEF c
<1>3. /\ DOMAIN g = 1 .. L /\ p \in 1 .. L /\ L \in 1 .. L /\ p # L /\ L \notin DOMAIN h
      /\ DOMAIN h \subseteq 1 .. L
      /\ \A n \in 1 .. L : n \in DOMAIN h \/ n = L
  BY <1>1, <1>2
<1>4. /\ g[L].kind = kind /\ g[L].parent = p /\ g[L].children = <<>> /\ g[L].number = 0
      /\ g[L].name = NoString /\ g[L].value = NoString /\ g[L].unnamed = 0
  BY <1>2 DEF AddedNode
<1>5. /\ g[p].kind = h[p].kind /\ g[p].parent = h[p].parent /\ g[p].name = h[p].name
      /\ g[p].children = c /\ g[p].number = Len(c)
  BY <1>2 DEF Holding
<1>6. \A n \in DOMAIN h : g[n].kind = h[n].kind /\ g[n].parent = h[n].parent
  BY <1>2, <1>5
<1>7. kind \in NodeKinds
  BY DEF ChildKinds, NodeKinds
<1>8. c \in Seq(1 .. L) /\ Len(c) = h[p].number + 1
  <2>1. Kids(h, p) \in Seq(DOMAIN h) /\ Len(Kids(h, p)) = h[p].number
    BY <1>1, KidsFacts
  <2>2. Kids(h, p) \in Seq(1 .. L)
    BY <1>3, <2>1, SeqMonotonic
  <2>3. QED
    BY <1>3, <2>1, <2>2 DEF c
<1>9. ASSUME NEW n \in 1 .. L PROVE TypedNode(g, n)
  <2>1. CASE n = L
    <3>1. g[L] \in AstNode(1 .. L)
      <4>1. <<>> \in Seq(1 .. L)
        OBVIOUS
      <4>2. AddedNode(p, kind) \in AstNode(1 .. L)
        BY <1>3, <1>7, <4>1 DEF AddedNode, AstNode
      <4>3. QED
        BY <1>2, <4>2
    <3>2. g[L].number <= Len(g[L].children)
      BY <1>4
    <3>3. QED
      BY <1>3, <1>4, <2>1, <3>1, <3>2 DEF TypedNode
  <2>2. CASE n = p
    <3>1. g[p] \in AstNode(1 .. L)
      <4>1. h[p] \in AstNode(DOMAIN h) /\ c \in Seq(1 .. L)
        BY <1>1, <1>8 DEF TypedNode
      <4>2. Holding(h[p], c) \in AstNode(1 .. L)
        BY <1>3, <4>1, HoldingIsNode
      <4>3. QED
        BY <1>2, <4>2
    <3>2. g[p].number <= Len(g[p].children)
      BY <1>5, <1>8
    <3>3. QED
      BY <1>1, <1>3, <1>5, <2>2, <3>1, <3>2 DEF TypedNode
  <2>3. CASE n \in DOMAIN h /\ n # p
    <3>1. g[n] = h[n] /\ h[n] \in AstNode(1 .. L)
      BY <1>1, <1>2, <1>3, <2>3, NodeGrows DEF TypedNode
    <3>2. QED
      BY <1>1, <1>3, <2>3, <3>1 DEF TypedNode
  <2>4. QED
    BY <1>3, <2>1, <2>2, <2>3
<1>10. ASSUME NEW n \in 1 .. L PROVE LayeredNode(g, n)
  <2>1. CASE n = L
    <3>1. KidSet(g, L) = {}
      BY <1>4 DEF KidSet
    <3>2. g[L].parent # Pool
      BY <1>1, <1>4 DEF Pool
    <3>3. QED
      BY <1>4, <1>5, <2>1, <3>1, <3>2 DEF LayeredNode
  <2>2. CASE n \in DOMAIN h
    <3>1. g[n].parent \in DOMAIN g => g[n].parent \in DOMAIN h
      <4>1. h[n].parent \in DOMAIN h \cup {NoNode, Pool}
        BY <1>1, <2>2, NodeFields
      <4>2. NoNode \notin 1 .. L /\ Pool \notin 1 .. L
        BY <1>1 DEF NoNode, Pool
      <4>3. QED
        BY <1>3, <1>6, <2>2, <4>1, <4>2
    <3>2. ASSUME NEW m \in KidSet(g, n) PROVE g[m].kind \in ChildKinds(g[n].kind)
      <4>1. CASE n # p
        <5>1. m \in KidSet(h, n) /\ m \in DOMAIN h
          <6>1. KidSet(g, n) = KidSet(h, n)
            <7>1. g[n] = h[n]
              BY <1>2, <2>2, <4>1
            <7>2. QED
              BY <7>1 DEF KidSet
          <6>2. QED
            BY <1>1, <2>2, <3>2, <6>1, KidsFacts
        <5>2. QED
          BY <1>1, <1>6, <2>2, <5>1 DEF LayeredNode
      <4>2. CASE n = p
        <5>1. PICK k \in 1 .. h[p].number + 1 : m = c[k]
          BY <1>5, <1>8, <3>2, <4>2 DEF KidSet
        <5>2. m = L \/ m \in KidSet(h, p)
          <6>1. /\ Kids(h, p) \in Seq(DOMAIN h) /\ Len(Kids(h, p)) = h[p].number
                /\ h[p].number \in Nat
                /\ KidSet(h, p) = {Kids(h, p)[i] : i \in 1 .. h[p].number}
            BY <1>1, KidsFacts, NodeFields
          <6>2. k = h[p].number + 1 => c[k] = L
            BY <6>1 DEF c
          <6>3. k # h[p].number + 1 => k \in 1 .. h[p].number /\ c[k] = Kids(h, p)[k]
            BY <6>1 DEF c
          <6>4. QED
            BY <5>1, <6>1, <6>2, <6>3
        <5>3. m \in KidSet(h, p) => m \in DOMAIN h /\ h[m].kind \in ChildKinds(h[p].kind)
          BY <1>1, KidsFacts DEF LayeredNode
        <5>4. QED
          BY <1>4, <1>5, <1>6, <4>2, <5>2, <5>3
      <4>3. QED
        BY <4>1, <4>2
    <3>3. QED
      BY <1>1, <1>6, <2>2, <3>1, <3>2 DEF LayeredNode
  <2>3. QED
    BY <1>3, <2>1, <2>2
<1>11. L \in Nat
  BY <1>1
<1>12. Sound(g) /\ Len(g) = L
  BY <1>2, <1>9, <1>10, <1>11, SoundFolds
<1>13. QED
  BY <1>3, <1>4, <1>6, <1>12

\* What g may differ from h in at node n and still be sound: the kinds stay, the
\* children it has now could have been there, and so could its parent.
KeepsNode(h, g, n) ==
    /\ g[n] \in AstNode(DOMAIN h)
    /\ g[n].kind = h[n].kind
    /\ g[n].number <= Len(g[n].children)
    /\ h[n].kind = "ANT_SECTION_TYPE" => g[n].name \in TypeNames \cup {NoString}
    /\ \A m \in KidSet(g, n) : h[m].kind \in ChildKinds(h[n].kind)
    /\ \/ g[n].parent \in {h[n].parent, NoNode}
       \/ g[n].parent \in DOMAIN h /\ h[n].kind \in ChildKinds(h[g[n].parent].kind)

\* Node n has the children it had.
SameArray(h, g, n) == g[n].children = h[n].children /\ g[n].number = h[n].number

\* A heap whose nodes keep their kinds and arrays, and have parents of the right
\* kind or none, is sound if it was before.
LEMMA KeptIsSound ==
    ASSUME NEW h, Sound(h), NEW g, g = [n \in DOMAIN h |-> g[n]],
           \A n \in DOMAIN h : KeepsNode(h, g, n)
    PROVE  Sound(g) /\ Len(g) = Len(h) /\ DOMAIN g = DOMAIN h
<1>1. /\ Len(h) \in Nat /\ DOMAIN h = 1 .. Len(h) /\ DOMAIN g = DOMAIN h
      /\ \A n \in DOMAIN h : TypedNode(h, n) /\ LayeredNode(h, n)
  BY SoundUnfolds
<1>2. ASSUME NEW n \in DOMAIN h PROVE TypedNode(g, n)
  BY <1>1 DEF KeepsNode, TypedNode
<1>3. ASSUME NEW n \in DOMAIN h PROVE LayeredNode(g, n)
  <2>1. KidSet(g, n) \subseteq DOMAIN g
    BY <1>1, <1>2, KidsFacts
  <2>2. \A m \in KidSet(g, n) : g[m].kind \in ChildKinds(g[n].kind)
    BY <1>1, <2>1 DEF KeepsNode
  <2>3. Pool \notin DOMAIN h /\ NoNode \notin DOMAIN h /\ Pool # NoNode
    BY <1>1 DEF Pool, NoNode
  <2>4. g[n].parent \in DOMAIN h => g[n].kind \in ChildKinds(g[g[n].parent].kind)
    BY <1>1, <2>3 DEF KeepsNode, LayeredNode
  <2>5. g[n].parent = Pool => g[n].kind \in PoolKinds
    BY <1>1, <2>3 DEF KeepsNode, LayeredNode
  <2>6. QED
    BY <1>1, <2>2, <2>4, <2>5 DEF LayeredNode
<1>4. QED
  BY <1>1, <1>2, <1>3, SoundFolds

\* A node that is what it was is kept.
LEMMA SameIsKept ==
    ASSUME NEW h, Sound(h), NEW g, NEW n \in DOMAIN h, g[n] = h[n]
    PROVE  KeepsNode(h, g, n)
<1>1. TypedNode(h, n) /\ LayeredNode(h, n) /\ KidSet(g, n) = KidSet(h, n)
  BY SoundUnfolds DEF KidSet
<1>2. QED
  BY <1>1 DEF KeepsNode, TypedNode, LayeredNode

\* A node that gets a name, a value or a NULL parent is kept.
LEMMA NamedIsSound ==
    ASSUME NEW h, Sound(h), NEW n \in DOMAIN h, NEW x \in Strings \cup {NoString},
           h[n].kind = "ANT_SECTION_TYPE" => x \in TypeNames \cup {NoString},
           NEW g, g = [h EXCEPT ![n].name = x]
    PROVE  /\ Sound(g) /\ Len(g) = Len(h) /\ DOMAIN g = DOMAIN h
           /\ \A m \in DOMAIN h : /\ g[m].kind = h[m].kind /\ g[m].parent = h[m].parent
                                  /\ SameArray(h, g, m)
<1>1. h = [m \in DOMAIN h |-> h[m]] /\ TypedNode(h, n) /\ LayeredNode(h, n)
  BY SoundUnfolds
<1>2. /\ g = [m \in DOMAIN h |-> g[m]]
      /\ g[n] = [h[n] EXCEPT !.name = x]
      /\ \A m \in DOMAIN h : m # n => g[m] = h[m]
  BY <1>1
<1>3. /\ g[n] \in AstNode(DOMAIN h) /\ g[n].kind = h[n].kind /\ g[n].parent = h[n].parent
      /\ g[n].children = h[n].children /\ g[n].number = h[n].number /\ g[n].name = x
  BY <1>1, <1>2 DEF TypedNode, AstNode
<1>4. KidSet(g, n) = KidSet(h, n)
  BY <1>3 DEF KidSet
<1>5. KeepsNode(h, g, n)
  BY <1>1, <1>3, <1>4 DEF KeepsNode, TypedNode, LayeredNode
<1>6. \A m \in DOMAIN h : KeepsNode(h, g, m)
  BY <1>2, <1>5, SameIsKept
<1>7. QED
  BY ZenonT(30), <1>2, <1>3, <1>6, KeptIsSound DEF SameArray

\* Setting the value of a node keeps a heap sound, and moves no node.
LEMMA ValuedIsSound ==
    ASSUME NEW h, Sound(h), NEW n \in DOMAIN h, NEW x \in Strings \cup {NoString},
           NEW g, g = [h EXCEPT ![n].value = x]
    PROVE  /\ Sound(g) /\ Len(g) = Len(h) /\ DOMAIN g = DOMAIN h
           /\ \A m \in DOMAIN h : /\ g[m].kind = h[m].kind /\ g[m].parent = h[m].parent
                                  /\ SameArray(h, g, m)
<1>1. h = [m \in DOMAIN h |-> h[m]] /\ TypedNode(h, n) /\ LayeredNode(h, n)
  BY SoundUnfolds
<1>2. /\ g = [m \in DOMAIN h |-> g[m]]
      /\ g[n] = [h[n] EXCEPT !.value = x]
      /\ \A m \in DOMAIN h : m # n => g[m] = h[m]
  BY <1>1
<1>3. /\ g[n] \in AstNode(DOMAIN h) /\ g[n].kind = h[n].kind /\ g[n].parent = h[n].parent
      /\ g[n].children = h[n].children /\ g[n].number = h[n].number /\ g[n].name = h[n].name
  BY <1>1, <1>2 DEF TypedNode, AstNode
<1>4. KidSet(g, n) = KidSet(h, n)
  BY <1>3 DEF KidSet
<1>5. KeepsNode(h, g, n)
  BY <1>1, <1>3, <1>4 DEF KeepsNode, TypedNode, LayeredNode
<1>6. \A m \in DOMAIN h : KeepsNode(h, g, m)
  BY <1>2, <1>5, SameIsKept
<1>7. QED
  BY ZenonT(30), <1>2, <1>3, <1>6, KeptIsSound DEF SameArray

\* Clearing the parent pointer of a node, as uci2_node_remove does, keeps a heap
\* sound, and moves no other node.
LEMMA RemovedIsSound ==
    ASSUME NEW h, Sound(h), NEW n \in DOMAIN h, NEW g, g = [h EXCEPT ![n].parent = NoNode]
    PROVE  /\ Sound(g) /\ Len(g) = Len(h) /\ DOMAIN g = DOMAIN h
           /\ \A m \in DOMAIN h : /\ g[m].kind = h[m].kind
                                  /\ g[m].parent \in {h[m].parent, NoNode}
                                  /\ SameArray(h, g, m)
<1>1. h = [m \in DOMAIN h |-> h[m]] /\ TypedNode(h, n) /\ LayeredNode(h, n)
  BY SoundUnfolds
<1>2. /\ g = [m \in DOMAIN h |-> g[m]]
      /\ g[n] = [h[n] EXCEPT !.parent = NoNode]
      /\ \A m \in DOMAIN h : m # n => g[m] = h[m]
  BY <1>1
<1>3. /\ g[n] \in AstNode(DOMAIN h) /\ g[n].kind = h[n].kind /\ g[n].parent = NoNode
      /\ g[n].children = h[n].children /\ g[n].number = h[n].number /\ g[n].name = h[n].name
  BY <1>1, <1>2 DEF TypedNode, AstNode
<1>4. KidSet(g, n) = KidSet(h, n)
  BY <1>3 DEF KidSet
<1>5. KeepsNode(h, g, n)
  BY <1>1, <1>3, <1>4 DEF KeepsNode, TypedNode, LayeredNode
<1>6. \A m \in DOMAIN h : KeepsNode(h, g, m)
  BY <1>2, <1>5, SameIsKept
<1>7. QED
  BY ZenonT(30), <1>2, <1>3, <1>6, KeptIsSound DEF SameArray

-----------------------------------------------------------------------------
(***************************************************************************)
(* ast_node_merge below a config node.                                     *)
(***************************************************************************)

\* The heir of a child is a child with its name, and its own heir.
LEMMA HeirFacts ==
    ASSUME NEW h, NEW D, NEW kids \in Seq(D), NEW m \in Range(kids)
    PROVE  /\ Heir(h, kids, m) \in Range(kids)
           /\ h[Heir(h, kids, m)].name = h[m].name
           /\ Heir(h, kids, Heir(h, kids, m)) = Heir(h, kids, m)
<1> DEFINE first(x) == CHOOSE i \in DOMAIN kids :
                           /\ h[kids[i]].name = x
                           /\ \A j \in 1 .. i - 1 : h[kids[j]].name # x
<1>1. CASE h[m].name = NoString
  BY <1>1 DEF Heir
<1>2. CASE h[m].name # NoString
  <2>1. DOMAIN kids = 1 .. Len(kids) /\ Len(kids) \in Nat
    BY LenProperties
  <2> DEFINE x == h[m].name
  <2> DEFINE T == {i \in DOMAIN kids : h[kids[i]].name = x}
  <2>2. T \subseteq Nat /\ T # {}
    BY <2>1 DEF Range
  <2>3. PICK k \in T : \A i \in T : k <= i
    <3> HIDE DEF T
    <3>1. QED
      BY <2>2, LeastNumber
  <2>4. \A j \in 1 .. k - 1 : h[kids[j]].name # x
    BY <2>1, <2>3
  <2>5. first(x) \in DOMAIN kids /\ h[kids[first(x)]].name = x
    BY <2>3, <2>4
  <2>6. Heir(h, kids, m) = kids[first(x)]
    BY <1>2 DEF Heir
  <2>7. h[Heir(h, kids, m)].name = x
    BY <2>5, <2>6
  <2>8. Heir(h, kids, Heir(h, kids, m)) = kids[first(x)]
    BY <1>2, <2>7 DEF Heir
  <2> HIDE DEF first
  <2>9. QED
    BY <2>5, <2>6, <2>7, <2>8 DEF Range
<1>3. QED
  BY <1>1, <1>2

\* What a node inherits are sections, if its siblings are section types.
LEMMA InheritedFacts ==
    ASSUME NEW h, Sound(h), NEW kids \in Seq(DOMAIN h), NEW m,
           \A t \in Range(kids) : h[t].kind = "ANT_SECTION_TYPE"
    PROVE  Inherited(h, kids, m) \in Seq({n \in DOMAIN h : h[n].kind = "ANT_SECTION_NAME"})
<1> DEFINE S == {n \in DOMAIN h : h[n].kind = "ANT_SECTION_NAME"}
<1> DEFINE e(j) == IF kids[j] \in Twins(h, kids) /\ Heir(h, kids, kids[j]) = m
                   THEN Kids(h, kids[j]) ELSE <<>>
<1>1. DOMAIN kids = 1 .. Len(kids) /\ Len(kids) \in Nat
  BY LenProperties
<1>2. ASSUME NEW j \in DOMAIN kids PROVE Kids(h, kids[j]) \in Seq(S)
  <2> DEFINE t == kids[j]
  <2>1. t \in DOMAIN h /\ h[t].kind = "ANT_SECTION_TYPE"
    BY <1>1 DEF Range
  <2>2. TypedNode(h, t) /\ LayeredNode(h, t)
    BY <2>1, SoundUnfolds
  <2>3. /\ KidSet(h, t) \subseteq DOMAIN h /\ Kids(h, t) \in Seq(DOMAIN h)
        /\ Len(Kids(h, t)) = h[t].number /\ KidSet(h, t) = {Kids(h, t)[k] : k \in 1 .. h[t].number}
    BY <2>1, <2>2, KidsFacts
  <2>4. \A n \in KidSet(h, t) : n \in S
    BY <2>1, <2>2, <2>3 DEF LayeredNode, ChildKinds
  <2>5. \A k \in 1 .. Len(Kids(h, t)) : Kids(h, t)[k] \in S
    BY <2>3, <2>4
  <2> HIDE DEF S
  <2>6. Kids(h, t) \in [1 .. Len(Kids(h, t)) -> S] /\ Len(Kids(h, t)) \in Nat
    BY <2>3, <2>5, LenProperties
  <2>7. QED
    BY <2>6, SeqDef
<1> HIDE DEF S
<1>3. \A j \in DOMAIN kids : e(j) \in Seq(S)
  BY <1>2
<1>4. [j \in DOMAIN kids |-> e(j)] \in Seq(Seq(S))
  <2> HIDE DEF e
  <2>1. [j \in 1 .. Len(kids) |-> e(j)] \in [1 .. Len(kids) -> Seq(S)]
    BY <1>1, <1>3
  <2>2. QED
    BY <1>1, <2>1, SeqDef
<1>5. Inherited(h, kids, m) = FlattenSeq([j \in DOMAIN kids |-> e(j)])
  BY DEF Inherited
<1>6. QED
  BY <1>4, <1>5, FlattenFacts DEF S

\* A child of the merged node that inherits, what it holds then, and a node whose
\* parent is emptied.
Inherits(h, kids, m) == m \in Range(kids) \ Twins(h, kids) /\ Inherited(h, kids, m) # <<>>
Endowed(h, kids, m) == Kids(h, m) \o Inherited(h, kids, m)
Orphan(h, kids, m) == \E t \in Twins(h, kids) : m \in KidSet(h, t)

\* A node that holds other children, and one that has another parent.
Endow(r, all) == [r EXCEPT !.children = all, !.number = Len(all)]
Move(r, parent) == [r EXCEPT !.parent = parent]

\* No child of node c is a child of one of them.
Apart(h, c) == \A t \in KidSet(h, c) : KidSet(h, t) \cap KidSet(h, c) = {}

\* What the merge makes of each node: a twin is emptied, a child that inherits holds
\* what it inherits, an orphan moves, and all other nodes stay as they are.
LEMMA MergedArms ==
    ASSUME NEW h, TypedAst(h), NEW c \in DOMAIN h, Apart(h, c),
           NEW g, g = AstNodeMerge(h, c)
    PROVE  /\ g = [m \in DOMAIN h |-> g[m]]
           /\ Kids(h, c) \in Seq(DOMAIN h) /\ Twins(h, Kids(h, c)) \subseteq Range(Kids(h, c))
           /\ Range(Kids(h, c)) = KidSet(h, c) /\ KidSet(h, c) \subseteq DOMAIN h
           /\ \A m : Orphan(h, Kids(h, c), m) => m \in DOMAIN h /\ m \notin KidSet(h, c)
           /\ \A m \in DOMAIN h :
                 /\ m \in Twins(h, Kids(h, c)) => g[m] = Emptied(h[m])
                 /\ Inherits(h, Kids(h, c), m) =>
                       g[m] = Endow(h[m], Endowed(h, Kids(h, c), m))
                 /\ Orphan(h, Kids(h, c), m) =>
                       g[m] = Move(h[m], NewParent(h, Kids(h, c), m))
                 /\ m \notin Twins(h, Kids(h, c)) /\ ~ Inherits(h, Kids(h, c), m)
                    /\ ~ Orphan(h, Kids(h, c), m) =>
                       g[m] = h[m]
<1> DEFINE kids == Kids(h, c)
<1> DEFINE twins == Twins(h, kids)
<1> DEFINE new(m) == CASE m \in twins -> Emptied(h[m])
                       [] Inherits(h, kids, m) ->
                             Endow(h[m], Endowed(h, kids, m))
                       [] Orphan(h, kids, m) -> Move(h[m], NewParent(h, kids, m))
                       [] OTHER -> h[m]
<1>1. \A n \in DOMAIN h : TypedNode(h, n)
  BY TypedUnfolds
<1>2. kids \in Seq(DOMAIN h) /\ Range(kids) = KidSet(h, c) /\ KidSet(h, c) \subseteq DOMAIN h
  BY <1>1, KidsFacts
<1>3. twins \subseteq Range(kids)
  BY DEF Twins
<1>4. \A m : Orphan(h, kids, m) => m \in DOMAIN h /\ m \notin KidSet(h, c)
  <2>1. \A t \in twins : t \in KidSet(h, c) /\ KidSet(h, t) \subseteq DOMAIN h
    BY <1>1, <1>2, <1>3, KidsFacts
  <2> HIDE DEF twins
  <2>2. QED
    BY <2>1 DEF Orphan, Apart, twins
<1>6. g = [m \in DOMAIN h |-> new(m)]
  BY DEF AstNodeMerge, Inherits, Endowed, Orphan, Endow, Move
<1>7. \A m : /\ m \in twins => ~ Inherits(h, kids, m) /\ ~ Orphan(h, kids, m)
             /\ Inherits(h, kids, m) => ~ Orphan(h, kids, m)
  BY <1>2, <1>3, <1>4 DEF Inherits
<1> HIDE DEF twins
<1>8. ASSUME NEW m
      PROVE  /\ m \in twins => new(m) = Emptied(h[m])
             /\ Inherits(h, kids, m) =>
                   new(m) = Endow(h[m], Endowed(h, kids, m))
             /\ Orphan(h, kids, m) => new(m) = Move(h[m], NewParent(h, kids, m))
             /\ m \notin twins /\ ~ Inherits(h, kids, m) /\ ~ Orphan(h, kids, m) =>
                   new(m) = h[m]
  <2>1. CASE m \in twins
    BY <1>7, <2>1
  <2>2. CASE m \notin twins /\ Inherits(h, kids, m)
    BY <1>7, <2>2
  <2>3. CASE m \notin twins /\ ~ Inherits(h, kids, m)
    BY <2>3
  <2>4. QED
    BY <2>1, <2>2, <2>3
<1> HIDE DEF new
<1>9. g = [m \in DOMAIN h |-> g[m]] /\ \A m \in DOMAIN h : g[m] = new(m)
  BY <1>6
<1>10. QED
  BY <1>2, <1>3, <1>4, <1>8, <1>9 DEF twins

\* Below a config node the children are section types and the orphans sections.
LEMMA MergedKinds ==
    ASSUME NEW h, Sound(h), NEW c \in DOMAIN h, h[c].kind = "ANT_CONFIG"
    PROVE  /\ Apart(h, c)
           /\ \A t \in Range(Kids(h, c)) : t \in DOMAIN h /\ h[t].kind = "ANT_SECTION_TYPE"
           /\ \A m : Orphan(h, Kids(h, c), m) => m \in DOMAIN h /\ h[m].kind = "ANT_SECTION_NAME"
<1>1. \A n \in DOMAIN h : TypedNode(h, n) /\ LayeredNode(h, n)
  BY SoundUnfolds
<1>2. Range(Kids(h, c)) = KidSet(h, c) /\ KidSet(h, c) \subseteq DOMAIN h
  BY <1>1, KidsFacts
<1>3. \A t \in KidSet(h, c) : t \in DOMAIN h /\ h[t].kind = "ANT_SECTION_TYPE"
  BY <1>1, <1>2 DEF LayeredNode, ChildKinds
<1>4. \A t \in KidSet(h, c) : \A m \in KidSet(h, t) :
         m \in DOMAIN h /\ h[m].kind = "ANT_SECTION_NAME"
  <2>1. ASSUME NEW t \in KidSet(h, c), NEW m \in KidSet(h, t)
        PROVE  m \in DOMAIN h /\ h[m].kind = "ANT_SECTION_NAME"
    <3>1. t \in DOMAIN h /\ h[t].kind = "ANT_SECTION_TYPE" /\ m \in DOMAIN h
      BY <1>1, <1>3, KidsFacts
    <3>2. QED
      BY <1>1, <3>1 DEF LayeredNode, ChildKinds
  <2>2. QED
    BY <2>1
<1>5. QED
  BY <1>2, <1>3, <1>4 DEF Apart, Orphan, Twins

LEMMA MergedNodes ==
    ASSUME NEW h, Sound(h), NEW c \in DOMAIN h, h[c].kind = "ANT_CONFIG",
           NEW g, g = AstNodeMerge(h, c)
    PROVE  /\ g = [m \in DOMAIN h |-> g[m]]
           /\ Kids(h, c) \in Seq(DOMAIN h) /\ Twins(h, Kids(h, c)) \subseteq Range(Kids(h, c))
           /\ Range(Kids(h, c)) = KidSet(h, c)
           /\ \A t \in Range(Kids(h, c)) : t \in DOMAIN h /\ h[t].kind = "ANT_SECTION_TYPE"
           /\ \A m \in DOMAIN h : Orphan(h, Kids(h, c), m) => h[m].kind = "ANT_SECTION_NAME"
           /\ \A m \in DOMAIN h :
                 /\ m \in Twins(h, Kids(h, c)) => g[m] = Emptied(h[m])
                 /\ Inherits(h, Kids(h, c), m) =>
                       g[m] = Endow(h[m], Endowed(h, Kids(h, c), m))
                 /\ Orphan(h, Kids(h, c), m) =>
                       g[m] = Move(h[m], NewParent(h, Kids(h, c), m))
                 /\ m \notin Twins(h, Kids(h, c)) /\ ~ Inherits(h, Kids(h, c), m)
                    /\ ~ Orphan(h, Kids(h, c), m) =>
                       g[m] = h[m]
<1>1. TypedAst(h)
  BY DEF Sound
<1>2. QED
  BY <1>1, MergedArms, MergedKinds

\* The merge keeps the heap sound; it deletes section types only, and moves
\* sections only, to other section types.
LEMMA MergedIsSound ==
    ASSUME NEW h, Sound(h), NEW c \in DOMAIN h, h[c].kind = "ANT_CONFIG",
           NEW g, g = AstNodeMerge(h, c)
    PROVE  /\ Sound(g) /\ Len(g) = Len(h) /\ DOMAIN g = DOMAIN h
           /\ \A m \in DOMAIN h :
                 /\ g[m].kind = h[m].kind
                 /\ g[m].name = h[m].name
                 /\ h[m].kind = "ANT_SECTION_TYPE" => g[m].parent \in {h[m].parent, NoNode}
                 /\ h[m].kind = "ANT_SECTION_NAME" =>
                       \/ g[m].parent = h[m].parent
                       \/ g[m].parent \in DOMAIN h
                 /\ h[m].kind \notin {"ANT_SECTION_TYPE", "ANT_SECTION_NAME"} =>
                       g[m].parent = h[m].parent
<1> DEFINE kids == Kids(h, c)
<1> DEFINE twins == Twins(h, kids)
<1> DEFINE all(m) == Endowed(h, kids, m)
<1>1. \A n \in DOMAIN h : TypedNode(h, n) /\ LayeredNode(h, n)
  BY SoundUnfolds
<1>2. /\ g = [m \in DOMAIN h |-> g[m]]
      /\ kids \in Seq(DOMAIN h) /\ twins \subseteq Range(kids)
      /\ \A t \in Range(kids) : t \in DOMAIN h /\ h[t].kind = "ANT_SECTION_TYPE"
      /\ \A m \in DOMAIN h : Orphan(h, kids, m) => h[m].kind = "ANT_SECTION_NAME"
  BY MergedNodes
<1>3. \A m \in DOMAIN h :
         /\ m \in twins => g[m] = Emptied(h[m])
         /\ Inherits(h, kids, m) => g[m] = Endow(h[m], all(m))
         /\ Orphan(h, kids, m) => g[m] = Move(h[m], NewParent(h, kids, m))
         /\ m \notin twins /\ ~ Inherits(h, kids, m) /\ ~ Orphan(h, kids, m) => g[m] = h[m]
  BY MergedNodes
<1>4. \A n \in DOMAIN h : h[n] \in AstNode(DOMAIN h)
  BY <1>1 DEF TypedNode
<1> HIDE DEF twins
<1>5. ASSUME NEW m \in twins
      PROVE  KeepsNode(h, g, m) /\ g[m].parent = NoNode /\ g[m].name = h[m].name
  <2>1. m \in DOMAIN h /\ h[m] \in AstNode(DOMAIN h)
    BY <1>2, <1>4
  <2>2. g[m] = [h[m] EXCEPT !.parent = NoNode, !.number = 0, !.unnamed = 0]
    BY <1>3, <2>1 DEF Emptied
  <2>3. /\ g[m] \in AstNode(DOMAIN h) /\ g[m].kind = h[m].kind /\ g[m].name = h[m].name
        /\ g[m].children = h[m].children /\ g[m].number = 0 /\ g[m].parent = NoNode
    <3> DEFINE r == h[m]
    <3>1. r = [kind |-> r.kind, name |-> r.name, value |-> r.value, parent |-> r.parent,
               children |-> r.children, number |-> r.number, unnamed |-> r.unnamed]
      BY <2>1 DEF AstNode
    <3>2. g[m] = [kind |-> r.kind, name |-> r.name, value |-> r.value, parent |-> NoNode,
                  children |-> r.children, number |-> 0, unnamed |-> 0]
      BY <2>2, <3>1
    <3>3. QED
      BY <2>1, <3>2 DEF AstNode
  <2>4. KidSet(g, m) = {} /\ 0 <= Len(h[m].children)
    <3>1. h[m].children \in Seq(DOMAIN h)
      BY <1>1, <2>1, NodeFields
    <3>2. QED
      BY <2>3, <3>1, LenProperties DEF KidSet
  <2>5. QED
    BY <1>1, <2>1, <2>3, <2>4 DEF KeepsNode, TypedNode
<1>6. ASSUME NEW m \in Range(kids) \ twins, Inherits(h, kids, m)
      PROVE  KeepsNode(h, g, m) /\ g[m].parent = h[m].parent /\ g[m].name = h[m].name
  <2> DEFINE S == {n \in DOMAIN h : h[n].kind = "ANT_SECTION_NAME"}
  <2>1. m \in DOMAIN h /\ h[m].kind = "ANT_SECTION_TYPE"
    BY <1>2
  <2>2. g[m] = [h[m] EXCEPT !.children = all(m), !.number = Len(all(m))]
    BY <1>3, <1>6, <2>1 DEF Endow
  <2>3. Kids(h, m) \in Seq(DOMAIN h) /\ \A k \in 1 .. Len(Kids(h, m)) : Kids(h, m)[k] \in S
    <3>1. /\ Kids(h, m) \in Seq(DOMAIN h) /\ Len(Kids(h, m)) = h[m].number
          /\ KidSet(h, m) = {Kids(h, m)[k] : k \in 1 .. h[m].number}
          /\ KidSet(h, m) \subseteq DOMAIN h
      BY <1>1, <2>1, KidsFacts
    <3>2. QED
      BY <1>1, <2>1, <3>1 DEF LayeredNode, ChildKinds
  <2>4. Inherited(h, kids, m) \in Seq(S)
    BY <1>2, InheritedFacts
  <2>5. Inherited(h, kids, m) \in Seq(DOMAIN h)
    BY <2>4, SeqMonotonic
  <2>6. /\ all(m) \in Seq(DOMAIN h) /\ Len(all(m)) \in Nat
        /\ \A k \in 1 .. Len(all(m)) : all(m)[k] \in S
    <3> HIDE DEF S
    <3> DEFINE s == Kids(h, m)
    <3> DEFINE i == Inherited(h, kids, m)
    <3>1. s \in Seq(DOMAIN h) /\ i \in Seq(DOMAIN h) /\ Len(s) \in Nat /\ Len(i) \in Nat
      BY <2>3, <2>5, LenProperties
    <3>2. \A k \in 1 .. Len(i) : i[k] \in S
      BY <2>4
    <3>3. \A k \in 1 .. Len(s) : s[k] \in S
      BY <2>3
    <3> HIDE DEF s, i
    <3>4. s \o i \in Seq(DOMAIN h) /\ Len(s \o i) = Len(s) + Len(i)
      BY <3>1
    <3>5. ASSUME NEW k \in 1 .. Len(s) + Len(i) PROVE (s \o i)[k] \in S
      <4>1. CASE k <= Len(s)
        BY <3>1, <3>3, <4>1
      <4>2. CASE k > Len(s)
        <5>1. k - Len(s) \in 1 .. Len(i) /\ (s \o i)[k] = i[k - Len(s)]
          BY <3>1, <4>2
        <5>2. QED
          BY <3>2, <5>1
      <4>3. QED
        BY <3>1, <4>1, <4>2
    <3>6. QED
      BY <3>1, <3>4, <3>5 DEF s, i, Endowed
  <2> HIDE DEF all
  <2>7. /\ g[m] \in AstNode(DOMAIN h) /\ g[m].kind = h[m].kind /\ g[m].name = h[m].name
        /\ g[m].children = all(m) /\ g[m].number = Len(all(m)) /\ g[m].parent = h[m].parent
    BY ZenonT(30), <1>4, <2>1, <2>2, <2>6 DEF AstNode
  <2>8. \A n \in KidSet(g, m) : h[n].kind \in ChildKinds(h[m].kind)
    BY <2>1, <2>6, <2>7 DEF KidSet, ChildKinds
  <2>9. QED
    BY <1>1, <2>1, <2>6, <2>7, <2>8 DEF KeepsNode, TypedNode
<1>7. ASSUME NEW m \in DOMAIN h, m \notin twins,
              Orphan(h, kids, m)
       PROVE  /\ KeepsNode(h, g, m) /\ h[m].kind = "ANT_SECTION_NAME"
              /\ g[m].parent \in DOMAIN h /\ g[m].name = h[m].name
  <2> DEFINE t == CHOOSE t \in twins : m \in KidSet(h, t)
  <2>1. h[m].kind = "ANT_SECTION_NAME" /\ t \in Range(kids)
    BY <1>2, <1>7 DEF Orphan, twins
  <2>2. g[m] = [h[m] EXCEPT !.parent = NewParent(h, kids, m)]
    BY <1>3, <1>7 DEF Move
  <2>3. NewParent(h, kids, m) = Heir(h, kids, t)
    BY DEF NewParent, twins
  <2>4. NewParent(h, kids, m) \in DOMAIN h /\ h[NewParent(h, kids, m)].kind = "ANT_SECTION_TYPE"
    <3> HIDE DEF t
    <3>1. QED
      BY <1>2, <2>1, <2>3, HeirFacts
  <2>5. /\ g[m] \in AstNode(DOMAIN h) /\ g[m].kind = h[m].kind /\ g[m].name = h[m].name
        /\ g[m].children = h[m].children /\ g[m].number = h[m].number
        /\ g[m].parent = NewParent(h, kids, m)
    BY <1>4, <2>2, <2>4 DEF AstNode
  <2>6. KidSet(g, m) = KidSet(h, m)
    BY <2>5 DEF KidSet
  <2>7. h[m].kind \in ChildKinds(h[g[m].parent].kind)
    BY <2>1, <2>4, <2>5 DEF ChildKinds
  <2>8. QED
    BY <1>1, <2>1, <2>4, <2>5, <2>6, <2>7 DEF KeepsNode, TypedNode, LayeredNode
<1>8. ASSUME NEW m \in DOMAIN h, m \notin twins,
              ~ Inherits(h, kids, m), ~ Orphan(h, kids, m)
       PROVE  KeepsNode(h, g, m) /\ g[m] = h[m]
  <2>1. g[m] = h[m]
    BY <1>3, <1>8
  <2>2. QED
    BY <2>1, SameIsKept
<1>9. ASSUME NEW m \in DOMAIN h
       PROVE  /\ KeepsNode(h, g, m)
              /\ g[m].name = h[m].name
              /\ h[m].kind = "ANT_SECTION_TYPE" => g[m].parent \in {h[m].parent, NoNode}
              /\ h[m].kind = "ANT_SECTION_NAME" =>
                    g[m].parent = h[m].parent \/ g[m].parent \in DOMAIN h
              /\ h[m].kind \notin {"ANT_SECTION_TYPE", "ANT_SECTION_NAME"} =>
                    g[m].parent = h[m].parent
  BY <1>2, <1>5, <1>6, <1>7, <1>8 DEF Inherits, twins
<1>10. g = [m \in DOMAIN h |-> g[m]]
  BY <1>2
<1>11. Sound(g) /\ Len(g) = Len(h) /\ DOMAIN g = DOMAIN h
  BY <1>9, <1>10, KeptIsSound
<1>12. QED
  BY <1>9, <1>11 DEF KeepsNode

-----------------------------------------------------------------------------
(***************************************************************************)
(* unnamed_section_name_set below a config node.                           *)
(***************************************************************************)

\* A counter goes up by a number, and so does the index of a name.
LEMMA WaitingFacts ==
    ASSUME NEW h, Sound(h), NEW t \in DOMAIN h
    PROVE  /\ Cardinality(WaitingAt(h, t)) \in Nat
           /\ \A k \in Nat : Cardinality({i \in WaitingAt(h, t) : i < k}) \in Nat
<1> DEFINE W == WaitingAt(h, t)
<1>1. h[t].number \in Nat
  BY SoundUnfolds, NodeFields
<1>2. IsFiniteSet(1 .. h[t].number)
  <2>1. 1 \in Int /\ h[t].number \in Int
    BY <1>1
  <2>2. QED
    BY <2>1, FS_Interval
<1>3. W \subseteq 1 .. h[t].number
  BY DEF WaitingAt
<1> HIDE DEF W
<1>4. IsFiniteSet(W) /\ \A k \in Nat : IsFiniteSet({i \in W : i < k})
  <2>1. \A k \in Nat : {i \in W : i < k} \subseteq 1 .. h[t].number
    BY <1>3
  <2>2. QED
    BY <1>2, <1>3, <2>1, FS_Subset
<1>5. Cardinality(W) \in Nat /\ \A k \in Nat : Cardinality({i \in W : i < k}) \in Nat
  BY <1>4, FS_CardinalityType
<1>6. QED
  BY <1>5 DEF W

\* Naming the unnamed sections keeps the heap sound and changes no parent.
LEMMA NumberedIsSound ==
    ASSUME NEW h, Sound(h), NEW c \in DOMAIN h, h[c].kind = "ANT_CONFIG",
           NEW g, g = UnnamedSectionNameSet(h, c)
    PROVE  /\ Sound(g) /\ Len(g) = Len(h) /\ DOMAIN g = DOMAIN h
           /\ \A m \in DOMAIN h : /\ g[m].kind = h[m].kind /\ g[m].parent = h[m].parent
                                  /\ SameArray(h, g, m)
<1> DEFINE types == NamedTypes(h, c)
<1> DEFINE waits(m) == \E t \in types : \E k \in WaitingAt(h, t) : h[t].children[k] = m
<1> DEFINE t(m) == CHOOSE t \in types : m \in KidSet(h, t)
<1> DEFINE k(m) == CHOOSE k \in WaitingAt(h, t(m)) : h[t(m)].children[k] = m
<1> DEFINE counted(m) == [h[m] EXCEPT !.unnamed = @ + Cardinality(WaitingAt(h, m))]
<1> DEFINE named(m) == [h[m] EXCEPT !.name = NameAt(h, t(m), k(m))]
<1>1. \A n \in DOMAIN h : TypedNode(h, n) /\ LayeredNode(h, n) /\ h[n] \in AstNode(DOMAIN h)
  BY SoundUnfolds DEF TypedNode
<1>2. \A x \in types : /\ x \in DOMAIN h /\ h[x].kind = "ANT_SECTION_TYPE"
                       /\ h[x].name \in TypeNames
  <2>1. KidSet(h, c) \subseteq DOMAIN h /\ types \subseteq KidSet(h, c)
    BY <1>1, KidsFacts DEF NamedTypes
  <2>2. \A x \in types : h[x].kind = "ANT_SECTION_TYPE" /\ h[x].name # NoString
    BY <1>1, <2>1 DEF LayeredNode, ChildKinds, NamedTypes
  <2>3. QED
    BY <1>1, <2>1, <2>2 DEF TypedNode
<1>3. ASSUME NEW m \in DOMAIN h, waits(m)
      PROVE  /\ h[m].kind = "ANT_SECTION_NAME" /\ m \notin types
             /\ t(m) \in types /\ m \in KidSet(h, t(m))
  <2>1. PICK x \in types : \E i \in WaitingAt(h, x) : h[x].children[i] = m
    BY <1>3
  <2>2. m \in KidSet(h, x) /\ h[m].kind = "ANT_SECTION_NAME"
    BY <2>1 DEF WaitingAt, KidSet, Waiting
  <2>3. QED
    BY <1>2, <2>1, <2>2
<1> HIDE DEF types
<1>4. /\ g = [m \in DOMAIN h |-> g[m]]
      /\ \A m \in DOMAIN h : /\ m \in types => g[m] = counted(m)
                             /\ waits(m) => g[m] = named(m)
                             /\ m \notin types /\ ~ waits(m) => g[m] = h[m]
  <2> DEFINE new(m) == CASE m \in types -> counted(m)
                         [] waits(m) -> named(m)
                         [] OTHER -> h[m]
  <2>1. g = [m \in DOMAIN h |-> new(m)]
    BY DEF UnnamedSectionNameSet, types
  <2>2. \A m \in DOMAIN h : waits(m) => m \notin types
    BY <1>3
  <2> HIDE DEF waits, counted, named
  <2>3. ASSUME NEW m \in DOMAIN h
        PROVE  /\ m \in types => new(m) = counted(m)
               /\ waits(m) => new(m) = named(m)
               /\ m \notin types /\ ~ waits(m) => new(m) = h[m]
    BY <2>2
  <2> HIDE DEF new
  <2>4. g = [m \in DOMAIN h |-> g[m]] /\ \A m \in DOMAIN h : g[m] = new(m)
    BY <2>1
  <2>5. QED
    BY <2>3, <2>4
<1>5. ASSUME NEW m \in types
      PROVE  KeepsNode(h, g, m) /\ g[m].parent = h[m].parent /\ SameArray(h, g, m)
  <2>1. m \in DOMAIN h /\ h[m].unnamed \in Nat
    BY <1>1, <1>2, NodeFields
  <2>2. Cardinality(WaitingAt(h, m)) \in Nat
    BY <2>1, WaitingFacts
  <2>3. g[m] = [h[m] EXCEPT !.unnamed = h[m].unnamed + Cardinality(WaitingAt(h, m))]
    BY <1>4, <2>1
  <2>4. /\ g[m] \in AstNode(DOMAIN h) /\ g[m].kind = h[m].kind /\ g[m].name = h[m].name
        /\ g[m].children = h[m].children /\ g[m].number = h[m].number
        /\ g[m].parent = h[m].parent
    <3> DEFINE count == h[m].unnamed + Cardinality(WaitingAt(h, m))
    <3>1. count \in Nat /\ h[m] \in AstNode(DOMAIN h)
      BY <1>1, <2>1, <2>2
    <3>2. g[m] = [h[m] EXCEPT !.unnamed = count]
      BY <2>3
    <3> HIDE DEF count
    <3>3. QED
      BY <3>1, <3>2 DEF AstNode
  <2>5. KidSet(g, m) = KidSet(h, m)
    BY <2>4 DEF KidSet
  <2>6. QED
    BY <1>1, <2>1, <2>4, <2>5 DEF KeepsNode, TypedNode, LayeredNode, SameArray
<1>6. ASSUME NEW m \in DOMAIN h, waits(m)
      PROVE  KeepsNode(h, g, m) /\ g[m].parent = h[m].parent /\ SameArray(h, g, m)
  <2>1. t(m) \in DOMAIN h /\ h[t(m)].name \in TypeNames /\ h[t(m)].number \in Nat
        /\ h[t(m)].unnamed \in Nat /\ h[m].kind = "ANT_SECTION_NAME"
    BY <1>1, <1>2, <1>3, <1>6, NodeFields
  <2>2. k(m) \in 1 .. h[t(m)].number
    <3>1. Waiting(h, m)
      BY <1>6 DEF WaitingAt
    <3> DEFINE x == t(m)
    <3>2. x \in DOMAIN h /\ m \in KidSet(h, x)
      BY <1>3, <1>6, <2>1
    <3> HIDE DEF x
    <3>3. PICK i \in 1 .. h[x].number : h[x].children[i] = m
      BY <3>2 DEF KidSet
    <3>4. i \in WaitingAt(h, x)
      BY <3>1, <3>3 DEF WaitingAt
    <3>5. (CHOOSE j \in WaitingAt(h, x) : h[x].children[j] = m) \in WaitingAt(h, x)
      BY <3>3, <3>4
    <3>6. (CHOOSE j \in WaitingAt(h, x) : h[x].children[j] = m) \in 1 .. h[x].number
      BY <3>5 DEF WaitingAt
    <3>7. QED
      BY <3>6 DEF x
  <2>3. NameAt(h, t(m), k(m)) \in Strings
    <3> HIDE DEF t, k
    <3>1. k(m) \in Nat
      BY <2>1, <2>2
    <3>2. Cardinality({i \in WaitingAt(h, t(m)) : i < k(m)}) \in Nat
      BY <2>1, <3>1, WaitingFacts
    <3>3. QED
      BY <2>1, <3>2 DEF NameAt, UnnamedName, UnnamedNames, Strings, AtNames
  <2>4. g[m] = [h[m] EXCEPT !.name = NameAt(h, t(m), k(m))]
    BY <1>4, <1>6
  <2> HIDE DEF t, k
  <2>5. /\ g[m] \in AstNode(DOMAIN h) /\ g[m].kind = h[m].kind
        /\ g[m].children = h[m].children /\ g[m].number = h[m].number
        /\ g[m].parent = h[m].parent
    BY <1>1, <2>3, <2>4 DEF AstNode
  <2>6. KidSet(g, m) = KidSet(h, m)
    BY <2>5 DEF KidSet
  <2>7. QED
    BY <1>1, <2>1, <2>5, <2>6 DEF KeepsNode, TypedNode, LayeredNode, SameArray
<1>7. ASSUME NEW m \in DOMAIN h
      PROVE  KeepsNode(h, g, m) /\ g[m].parent = h[m].parent /\ SameArray(h, g, m)
  BY <1>4, <1>5, <1>6, SameIsKept DEF SameArray
<1>8. Sound(g) /\ Len(g) = Len(h) /\ DOMAIN g = DOMAIN h
  BY <1>4, <1>7, KeptIsSound
<1>9. QED
  BY <1>7, <1>8 DEF KeepsNode

-----------------------------------------------------------------------------
(***************************************************************************)
(* Links between nodes: no node is in two places of the child arrays, and  *)
(* a node is among the children of the node its parent pointer names.      *)
(***************************************************************************)

Linked(h) == DisjointChildren(h) /\ ParentsAgree(h)

\* A well-formed heap is a sound one whose links agree.
LEMMA WellFormedParts ==
    ASSUME NEW h
    PROVE  WellFormed(h) <=> Sound(h) /\ Linked(h)
BY DEF WellFormed, Sound, Linked

\* What can be said of the nodes of a well-formed heap one by one.
LEMMA WellFormedUnfolds ==
    ASSUME NEW h, WellFormed(h)
    PROVE  /\ Len(h) \in Nat
           /\ DOMAIN h = 1 .. Len(h)
           /\ h = [n \in DOMAIN h |-> h[n]]
           /\ \A n \in DOMAIN h : TypedNode(h, n) /\ LayeredNode(h, n)
BY WellFormedParts, SoundUnfolds

-----------------------------------------------------------------------------
(***************************************************************************)
(* Changes that leave the arrays alone.                                    *)
(***************************************************************************)

\* Where the arrays stay and a parent pointer is only ever cleared, the links
\* still agree.
LEMMA SameArraysLinked ==
    ASSUME NEW h, NoNode \notin DOMAIN h, Linked(h), NEW g, DOMAIN g = DOMAIN h,
           \A m \in DOMAIN h : g[m].parent \in {h[m].parent, NoNode} /\ SameArray(h, g, m)
    PROVE  Linked(g)
<1>1. DisjointChildren(g)
  BY DEF Linked, DisjointChildren, SameArray
<1>2. ParentsAgree(g)
  <2>1. SUFFICES ASSUME NEW n \in DOMAIN h, g[n].parent \in DOMAIN h
                 PROVE  n \in KidSet(g, g[n].parent)
    BY DEF ParentsAgree
  <2>2. g[n].parent = h[n].parent /\ n \in KidSet(h, h[n].parent)
    BY <2>1 DEF Linked, ParentsAgree
  <2>3. KidSet(g, g[n].parent) = KidSet(h, h[n].parent)
    BY <2>1, <2>2 DEF KidSet, SameArray
  <2>4. QED
    BY <2>2, <2>3
<1>3. QED
  BY <1>1, <1>2 DEF Linked

\* Naming a node.
LEMMA NamedIsWellFormed ==
    ASSUME NEW h, WellFormed(h), NEW n \in DOMAIN h, NEW x \in Strings \cup {NoString},
           h[n].kind = "ANT_SECTION_TYPE" => x \in TypeNames \cup {NoString},
           NEW g, g = [h EXCEPT ![n].name = x]
    PROVE  /\ WellFormed(g) /\ DOMAIN g = DOMAIN h
           /\ \A m \in DOMAIN h : g[m].kind = h[m].kind /\ g[m].parent = h[m].parent
<1>1. Sound(h) /\ Linked(h) /\ NoNode \notin DOMAIN h
  BY WellFormedParts, SoundUnfolds DEF NoNode
<1>2. Sound(g) /\ DOMAIN g = DOMAIN h
  BY <1>1, NamedIsSound
<1>3. \A m \in DOMAIN h : g[m].kind = h[m].kind
  BY <1>1, NamedIsSound
<1>4. \A m \in DOMAIN h : g[m].parent = h[m].parent
  BY <1>1, NamedIsSound
<1>5. \A m \in DOMAIN h : SameArray(h, g, m)
  BY <1>1, NamedIsSound
<1>6. Linked(g)
  BY <1>1, <1>2, <1>4, <1>5, SameArraysLinked
<1>7. QED
  BY <1>2, <1>3, <1>4, <1>6, WellFormedParts

\* Setting the value of a node.
LEMMA ValuedIsWellFormed ==
    ASSUME NEW h, WellFormed(h), NEW n \in DOMAIN h, NEW x \in Strings \cup {NoString},
           NEW g, g = [h EXCEPT ![n].value = x]
    PROVE  /\ WellFormed(g) /\ DOMAIN g = DOMAIN h
           /\ \A m \in DOMAIN h : g[m].kind = h[m].kind /\ g[m].parent = h[m].parent
<1>1. Sound(h) /\ Linked(h) /\ NoNode \notin DOMAIN h
  BY WellFormedParts, SoundUnfolds DEF NoNode
<1>2. Sound(g) /\ DOMAIN g = DOMAIN h
  BY <1>1, ValuedIsSound
<1>3. \A m \in DOMAIN h : g[m].kind = h[m].kind
  BY <1>1, ValuedIsSound
<1>4. \A m \in DOMAIN h : g[m].parent = h[m].parent
  BY <1>1, ValuedIsSound
<1>5. \A m \in DOMAIN h : SameArray(h, g, m)
  BY <1>1, ValuedIsSound
<1>6. Linked(g)
  BY <1>1, <1>2, <1>4, <1>5, SameArraysLinked
<1>7. QED
  BY <1>2, <1>3, <1>4, <1>6, WellFormedParts

\* Removing a node, which stays in the array that holds it.
LEMMA RemovedIsWellFormed ==
    ASSUME NEW h, WellFormed(h), NEW n \in DOMAIN h, NEW g, g = [h EXCEPT ![n].parent = NoNode]
    PROVE  /\ WellFormed(g) /\ DOMAIN g = DOMAIN h
           /\ \A m \in DOMAIN h : g[m].kind = h[m].kind /\ g[m].parent \in {h[m].parent, NoNode}
<1>1. Sound(h) /\ Linked(h) /\ NoNode \notin DOMAIN h
  BY WellFormedParts, SoundUnfolds DEF NoNode
<1>2. Sound(g) /\ DOMAIN g = DOMAIN h
  BY <1>1, RemovedIsSound
<1>3. \A m \in DOMAIN h : g[m].kind = h[m].kind
  BY <1>1, RemovedIsSound
<1>4. \A m \in DOMAIN h : g[m].parent \in {h[m].parent, NoNode}
  BY <1>1, RemovedIsSound
<1>5. \A m \in DOMAIN h : SameArray(h, g, m)
  BY <1>1, RemovedIsSound
<1>6. Linked(g)
  BY <1>1, <1>2, <1>4, <1>5, SameArraysLinked
<1>7. QED
  BY <1>2, <1>3, <1>4, <1>6, WellFormedParts

\* Naming the unnamed sections.
LEMMA NumberedIsWellFormed ==
    ASSUME NEW h, WellFormed(h), NEW c \in DOMAIN h, h[c].kind = "ANT_CONFIG",
           NEW g, g = UnnamedSectionNameSet(h, c)
    PROVE  /\ WellFormed(g) /\ DOMAIN g = DOMAIN h
           /\ \A m \in DOMAIN h : g[m].kind = h[m].kind /\ g[m].parent = h[m].parent
<1>1. Sound(h) /\ Linked(h) /\ NoNode \notin DOMAIN h
  BY WellFormedParts, SoundUnfolds DEF NoNode
<1>2. Sound(g) /\ DOMAIN g = DOMAIN h
  BY <1>1, NumberedIsSound
<1>3. \A m \in DOMAIN h : g[m].kind = h[m].kind
  BY <1>1, NumberedIsSound
<1>4. \A m \in DOMAIN h : g[m].parent = h[m].parent
  BY <1>1, NumberedIsSound
<1>5. \A m \in DOMAIN h : SameArray(h, g, m)
  BY <1>1, NumberedIsSound
<1>6. Linked(g)
  BY <1>1, <1>2, <1>4, <1>5, SameArraysLinked
<1>7. QED
  BY <1>2, <1>3, <1>4, <1>6, WellFormedParts

-----------------------------------------------------------------------------
(***************************************************************************)
(* A new node below an old one.                                            *)
(***************************************************************************)

\* Every entry of an array is an old one in its old place, or the new node L in
\* the new place at the end of the array of its parent p.
Grown(h, g, p, L) ==
    /\ DOMAIN g = DOMAIN h \cup {L} /\ L \notin DOMAIN h
    /\ g[L].number = 0 /\ g[L].parent = p
    /\ h[p].number \in Nat
    /\ g[p].number = h[p].number + 1 /\ g[p].children[h[p].number + 1] = L
    /\ \A n \in DOMAIN h : n # p => SameArray(h, g, n)
    /\ \A n \in DOMAIN h : \A k \in 1 .. h[n].number :
          g[n].children[k] = h[n].children[k] /\ h[n].children[k] \in DOMAIN h
    /\ \A n \in DOMAIN h : g[n].parent = h[n].parent

\* That is what ast_node_new and ast_node_add make of a heap.
LEMMA AddedGrows ==
    ASSUME NEW h, Sound(h), NEW p \in DOMAIN h, NEW kind, NEW g, g = Added(h, p, kind)
    PROVE  Grown(h, g, p, Len(h) + 1)
<1> DEFINE L == Len(h) + 1
<1> DEFINE s == Kids(h, p)
<1>1. /\ Len(h) \in Nat /\ DOMAIN h = 1 .. Len(h)
      /\ \A n \in DOMAIN h : TypedNode(h, n) /\ h[n].number \in Nat
  BY SoundUnfolds, NodeFields
<1>2. /\ g = [n \in 1 .. L |-> g[n]]
      /\ g[L] = AddedNode(p, kind)
      /\ g[p] = Holding(h[p], Append(s, L))
      /\ \A n \in DOMAIN h : n # p => g[n] = h[n]
  BY AddedNodes
<1>3. /\ DOMAIN g = DOMAIN h \cup {L} /\ L \notin DOMAIN h
      /\ g[L].number = 0 /\ g[L].parent = p
  <2>1. 1 .. L = (1 .. Len(h)) \cup {L} /\ L \notin 1 .. Len(h)
    BY <1>1
  <2>2. QED
    BY <1>1, <1>2, <2>1 DEF AddedNode
<1>4. /\ s \in Seq(DOMAIN h) /\ Len(s) = h[p].number
      /\ \A k \in 1 .. h[p].number : s[k] = h[p].children[k]
  BY <1>1, KidsFacts
<1>5. /\ g[p].children = Append(s, L) /\ g[p].number = Len(Append(s, L))
      /\ g[p].parent = h[p].parent
  <2> DEFINE a == Append(s, L)
  <2>1. g[p] = Holding(h[p], a)
    BY <1>2
  <2> HIDE DEF a
  <2>2. g[p].children = a /\ g[p].number = Len(a) /\ g[p].parent = h[p].parent
    BY <2>1 DEF Holding
  <2>3. QED
    BY <2>2 DEF a
<1> HIDE DEF s
<1>6. /\ Len(Append(s, L)) = h[p].number + 1 /\ Append(s, L)[h[p].number + 1] = L
      /\ \A k \in 1 .. h[p].number : Append(s, L)[k] = s[k]
  <2>1. s \in Seq(DOMAIN h \cup {L}) /\ L \in DOMAIN h \cup {L}
    BY <1>4, SeqMonotonic
  <2>2. QED
    BY <1>4, <2>1, AppendProperties
<1>7. ASSUME NEW n \in DOMAIN h, NEW k \in 1 .. h[n].number
      PROVE  h[n].children[k] \in DOMAIN h
  <2>1. KidSet(h, n) \subseteq DOMAIN h
    BY <1>1, KidsFacts
  <2>2. QED
    BY <2>1 DEF KidSet
<1>8. \A n \in DOMAIN h : n # p => SameArray(h, g, n)
  BY <1>2 DEF SameArray
<1>9. ASSUME NEW n \in DOMAIN h, NEW k \in 1 .. h[n].number
      PROVE  g[n].children[k] = h[n].children[k]
  <2>1. CASE n = p
    BY <1>4, <1>5, <1>6, <2>1
  <2>2. CASE n # p
    BY <1>8, <2>2 DEF SameArray
  <2>3. QED
    BY <2>1, <2>2
<1>10. \A n \in DOMAIN h : g[n].parent = h[n].parent
  BY <1>2, <1>5
<1>11. QED
  BY <1>1, <1>3, <1>5, <1>6, <1>7, <1>8, <1>9, <1>10 DEF Grown

\* The links still agree with the new node.
LEMMA AddedIsLinked ==
    ASSUME NEW h, Sound(h), Linked(h), NEW p \in DOMAIN h, NEW kind, NEW g, g = Added(h, p, kind)
    PROVE  Linked(g)
<1> DEFINE L == Len(h) + 1
<1> DEFINE Old(n, k) == n \in DOMAIN h /\ k \in 1 .. h[n].number
<1> DEFINE New(n, k) == n = p /\ k = h[p].number + 1
<1>0. Grown(h, g, p, L)
  BY AddedGrows
<1>1. /\ DOMAIN g = DOMAIN h \cup {L} /\ L \notin DOMAIN h
      /\ g[L].number = 0 /\ g[L].parent = p
      /\ h[p].number \in Nat
      /\ g[p].number = h[p].number + 1 /\ g[p].children[h[p].number + 1] = L
  BY <1>0 DEF Grown
<1>2. \A n \in DOMAIN h : n # p => SameArray(h, g, n)
  BY <1>0 DEF Grown
<1>3. \A n \in DOMAIN h : \A k \in 1 .. h[n].number :
         g[n].children[k] = h[n].children[k] /\ h[n].children[k] \in DOMAIN h
  BY <1>0 DEF Grown
<1>4. \A n \in DOMAIN h : g[n].parent = h[n].parent
  BY <1>0 DEF Grown
<1>5. NoNode \notin DOMAIN h /\ Pool \notin DOMAIN h /\ L # NoNode /\ L # Pool
      /\ \A n \in DOMAIN h : h[n].parent \in DOMAIN h \cup {NoNode, Pool}
  <2>1. /\ Len(h) \in Nat /\ DOMAIN h = 1 .. Len(h)
        /\ \A n \in DOMAIN h : h[n].parent \in DOMAIN h \cup {NoNode, Pool}
    BY SoundUnfolds, NodeFields
  <2>2. QED
    BY <2>1 DEF NoNode, Pool
<1> HIDE DEF L
<1>6. ASSUME NEW n \in DOMAIN g, NEW k \in 1 .. g[n].number
      PROVE  Old(n, k) \/ New(n, k)
  <2>1. CASE n = L
    BY <1>1, <2>1
  <2>2. CASE n = p
    BY <1>1, <2>2
  <2>3. CASE n \in DOMAIN h /\ n # p
    BY <1>2, <2>3 DEF SameArray
  <2>4. QED
    BY <1>1, <2>1, <2>2, <2>3
<1>7. ASSUME NEW n \in DOMAIN h, NEW k \in 1 .. h[n].number
      PROVE  k \in 1 .. g[n].number
  BY <1>1, <1>2 DEF SameArray
<1>8. DisjointChildren(g)
  <2>1. SUFFICES ASSUME NEW n \in DOMAIN g, NEW q \in DOMAIN g,
                        NEW k \in 1 .. g[n].number, NEW l \in 1 .. g[q].number,
                        g[n].children[k] = g[q].children[l]
                 PROVE  n = q /\ k = l
    BY DEF DisjointChildren
  <2>2. CASE Old(n, k) /\ Old(q, l)
    BY <1>3, <2>1, <2>2 DEF Linked, DisjointChildren
  <2>3. CASE Old(n, k) /\ New(q, l)
    BY <1>1, <1>3, <2>1, <2>3
  <2>4. CASE New(n, k) /\ Old(q, l)
    BY <1>1, <1>3, <2>1, <2>4
  <2>5. CASE New(n, k) /\ New(q, l)
    BY <2>5
  <2>6. QED
    BY <1>6, <2>2, <2>3, <2>4, <2>5
<1>9. ParentsAgree(g)
  <2>1. SUFFICES ASSUME NEW n \in DOMAIN g, g[n].parent \in DOMAIN g
                 PROVE  n \in KidSet(g, g[n].parent)
    BY DEF ParentsAgree
  <2>2. CASE n = L
    <3>1. h[p].number + 1 \in 1 .. g[p].number
      BY <1>1
    <3>2. QED
      BY <1>1, <2>2, <3>1 DEF KidSet
  <2>3. CASE n \in DOMAIN h
    <3> DEFINE q == h[n].parent
    <3>1. g[n].parent = q /\ q \in DOMAIN h
      BY <1>1, <1>4, <1>5, <2>1, <2>3
    <3>2. PICK k \in 1 .. h[q].number : n = h[q].children[k]
      BY <2>3, <3>1 DEF Linked, ParentsAgree, KidSet
    <3>3. k \in 1 .. g[q].number /\ g[q].children[k] = n
      BY <1>3, <1>7, <3>1, <3>2
    <3>4. QED
      BY <3>1, <3>3 DEF KidSet
  <2>4. QED
    BY <1>1, <2>2, <2>3
<1>10. QED
  BY <1>8, <1>9 DEF Linked

\* A fresh node keeps a heap well-formed where the kinds fit.
LEMMA AddedIsWellFormed ==
    ASSUME NEW h, WellFormed(h), NEW p \in DOMAIN h, NEW kind \in ChildKinds(h[p].kind),
           NEW g, g = Added(h, p, kind)
    PROVE  /\ WellFormed(g)
           /\ Len(g) = Len(h) + 1
           /\ DOMAIN g = 1 .. Len(h) + 1
           /\ g[Len(h) + 1].kind = kind /\ g[Len(h) + 1].parent = p
           /\ \A n \in DOMAIN h : g[n].kind = h[n].kind /\ g[n].parent = h[n].parent
BY WellFormedParts, AddedIsSound, AddedIsLinked

-----------------------------------------------------------------------------
(***************************************************************************)
(* ast_node_merge below a config node.                                     *)
(***************************************************************************)

\* i holds the children of the twins whose heir is m, and each of them once.
HoldsChildrenOf(h, kids, m, i) ==
    /\ \A p \in 1 .. Len(i) : \E t \in Twins(h, kids) :
          Heir(h, kids, t) = m /\ \E k \in 1 .. h[t].number : i[p] = h[t].children[k]
    /\ \A t \in Twins(h, kids) : Heir(h, kids, t) = m =>
          \A k \in 1 .. h[t].number : \E p \in 1 .. Len(i) : i[p] = h[t].children[k]
    /\ \A p, q \in 1 .. Len(i) : i[p] = i[q] => p = q

\* So does what m inherits, if no node is in two places.
LEMMA InheritedEntries ==
    ASSUME NEW h, TypedAst(h), DisjointChildren(h), NEW kids \in Seq(DOMAIN h), NEW m,
           \A i, j \in DOMAIN kids : kids[i] = kids[j] => i = j
    PROVE  /\ Inherited(h, kids, m) \in Seq(DOMAIN h)
           /\ HoldsChildrenOf(h, kids, m, Inherited(h, kids, m))
<1> DEFINE twins == Twins(h, kids)
<1> DEFINE gives(j) == kids[j] \in twins /\ Heir(h, kids, kids[j]) = m
<1> DEFINE e(j) == IF gives(j) THEN Kids(h, kids[j]) ELSE <<>>
<1> DEFINE seqs == [j \in DOMAIN kids |-> e(j)]
<1> DEFINE i == Inherited(h, kids, m)
<1>1. DOMAIN kids = 1 .. Len(kids) /\ Len(kids) \in Nat /\ \A j \in DOMAIN kids : kids[j] \in DOMAIN h
  BY LenProperties
<1>2. \A j \in DOMAIN kids : /\ Kids(h, kids[j]) \in Seq(DOMAIN h)
                             /\ Len(Kids(h, kids[j])) = h[kids[j]].number
                             /\ h[kids[j]].number \in Nat
                             /\ \A k \in 1 .. h[kids[j]].number :
                                   Kids(h, kids[j])[k] = h[kids[j]].children[k]
  <2>1. ASSUME NEW j \in DOMAIN kids
        PROVE  /\ Kids(h, kids[j]) \in Seq(DOMAIN h)
               /\ Len(Kids(h, kids[j])) = h[kids[j]].number
               /\ h[kids[j]].number \in Nat
               /\ \A k \in 1 .. h[kids[j]].number : Kids(h, kids[j])[k] = h[kids[j]].children[k]
    <3>1. kids[j] \in DOMAIN h /\ TypedNode(h, kids[j])
      BY <1>1, TypedUnfolds
    <3>2. QED
      BY <3>1, KidsFacts, NodeFields
  <2>2. QED
    BY <2>1
<1>3. i = FlattenSeq(seqs)
  BY DEF Inherited
<1> HIDE DEF i, twins
<1>4. ASSUME NEW j \in DOMAIN kids
      PROVE  /\ e(j) \in Seq(DOMAIN h)
             /\ ~ gives(j) => Len(e(j)) = 0
             /\ gives(j) => Len(e(j)) = h[kids[j]].number
             /\ gives(j) => \A k \in 1 .. h[kids[j]].number : e(j)[k] = h[kids[j]].children[k]
  <2> HIDE DEF gives
  <2>1. CASE gives(j)
    <3>1. e(j) = Kids(h, kids[j])
      BY <2>1
    <3>2. QED
      BY <1>2, <2>1, <3>1
  <2>2. CASE ~ gives(j)
    <3>1. e(j) = <<>> /\ <<>> \in Seq(DOMAIN h) /\ Len(<<>>) = 0
      BY <2>2
    <3>2. QED
      BY <2>2, <3>1
  <2>3. QED
    BY <2>1, <2>2
<1> DEFINE N == Len(kids)
<1> HIDE DEF e
<1>5. seqs \in Seq(Seq(DOMAIN h)) /\ Len(seqs) = N /\ \A j \in 1 .. N : seqs[j] = e(j)
  <2>1. seqs \in [1 .. N -> Seq(DOMAIN h)]
    BY <1>1, <1>4
  <2>2. seqs \in Seq(Seq(DOMAIN h))
    BY <1>1, <2>1, SeqDef
  <2>3. Len(seqs) = N
    BY <1>1, <2>1, <2>2, LenProperties
  <2>4. QED
    BY <1>1, <2>2, <2>3
<1> HIDE DEF seqs, gives, N
<1>6. i \in Seq(DOMAIN h) /\ MadeOf(i, seqs, N)
  BY <1>3, <1>5, FlattenFacts
<1>7. N \in Nat /\ DOMAIN kids = 1 .. N
  BY <1>1 DEF N
<1>8. ASSUME NEW j \in 1 .. N
      PROVE  /\ ~ gives(j) => Len(seqs[j]) = 0
             /\ gives(j) => Len(seqs[j]) = h[kids[j]].number
             /\ gives(j) => \A k \in 1 .. h[kids[j]].number : seqs[j][k] = h[kids[j]].children[k]
  <2>1. j \in DOMAIN kids /\ seqs[j] = e(j)
    BY <1>5, <1>7
  <2>2. QED
    BY <1>4, <2>1
<1>9. \A j \in 1 .. N : \A k \in 1 .. Len(seqs[j]) :
         /\ gives(j) /\ k \in 1 .. h[kids[j]].number
         /\ seqs[j][k] = h[kids[j]].children[k]
  BY <1>8
<1>10. ASSUME NEW j \in 1 .. N, NEW l \in 1 .. N,
              NEW k \in 1 .. Len(seqs[j]), NEW q \in 1 .. Len(seqs[l]), seqs[j][k] = seqs[l][q]
       PROVE  j = l /\ k = q
  <2>1. /\ k \in 1 .. h[kids[j]].number /\ q \in 1 .. h[kids[l]].number
        /\ h[kids[j]].children[k] = h[kids[l]].children[q]
    BY <1>9, <1>10
  <2>2. kids[j] \in DOMAIN h /\ kids[l] \in DOMAIN h
    BY <1>1, <1>7
  <2>3. kids[j] = kids[l] /\ k = q
    BY <2>1, <2>2 DEF DisjointChildren
  <2>4. QED
    BY <1>7, <2>3
<1>11. \A p, q \in 1 .. Len(i) : i[p] = i[q] => p = q
  BY <1>6, <1>10 DEF MadeOf
<1>12. ASSUME NEW p \in 1 .. Len(i)
       PROVE  \E t \in twins : /\ Heir(h, kids, t) = m
                               /\ \E k \in 1 .. h[t].number : i[p] = h[t].children[k]
  <2>1. PICK j \in 1 .. N : \E k \in 1 .. Len(seqs[j]) : i[p] = seqs[j][k]
    BY <1>6 DEF MadeOf
  <2>2. PICK k \in 1 .. Len(seqs[j]) : i[p] = seqs[j][k]
    BY <2>1
  <2>3. gives(j) /\ k \in 1 .. h[kids[j]].number /\ i[p] = h[kids[j]].children[k]
    BY <1>9, <2>2
  <2>4. QED
    BY <2>3 DEF gives
<1>13. ASSUME NEW t \in twins, Heir(h, kids, t) = m, NEW k \in 1 .. h[t].number
       PROVE  \E p \in 1 .. Len(i) : i[p] = h[t].children[k]
  <2>1. PICK j \in 1 .. N : kids[j] = t
    BY <1>7 DEF twins, Twins, Range
  <2>2. gives(j)
    BY <1>13, <2>1 DEF gives
  <2>3. k \in 1 .. Len(seqs[j]) /\ seqs[j][k] = h[t].children[k]
    BY <1>8, <2>1, <2>2
  <2>4. \E p \in 1 .. Len(i) : i[p] = seqs[j][k]
    BY <1>6, <2>3 DEF MadeOf
  <2>5. QED
    BY <2>3, <2>4
<1>14. QED
  BY <1>6, <1>11, <1>12, <1>13 DEF HoldsChildrenOf, i, twins

\* Every entry of an array is an old one in its old place or an inherited one at
\* the end, so that a node is in as many places after the merge as before.
LEMMA MergedLinks ==
    ASSUME NEW h, TypedAst(h), Linked(h), NEW c \in DOMAIN h, Apart(h, c),
           NEW g, g = AstNodeMerge(h, c)
    PROVE  Linked(g)
<1> DEFINE kids == Kids(h, c)
<1> DEFINE twins == Twins(h, kids)
<1> DEFINE i(n) == Inherited(h, kids, n)
<1> DEFINE Old(n, k) == n \in DOMAIN h \ twins /\ k \in 1 .. h[n].number
<1> DEFINE New(n, k, q) == n \in DOMAIN h \ twins /\ q \in 1 .. Len(i(n)) /\ k = h[n].number + q
<1>1. /\ \A n \in DOMAIN h : TypedNode(h, n)
      /\ \A n \in DOMAIN h : h[n] \in AstNode(DOMAIN h) /\ h[n].number \in Nat
  BY TypedUnfolds, NodeFields DEF TypedNode
<1>2. /\ g = [m \in DOMAIN h |-> g[m]] /\ kids \in Seq(DOMAIN h)
      /\ twins \subseteq Range(kids) /\ Range(kids) \subseteq DOMAIN h
  BY MergedArms
<1>3. \A m \in DOMAIN h :
         /\ m \in twins => g[m] = Emptied(h[m])
         /\ Inherits(h, kids, m) => g[m] = Endow(h[m], Endowed(h, kids, m))
         /\ Orphan(h, kids, m) => g[m] = Move(h[m], NewParent(h, kids, m))
         /\ m \notin twins /\ ~ Inherits(h, kids, m) /\ ~ Orphan(h, kids, m) => g[m] = h[m]
  BY MergedArms
<1>4. \A j, l \in DOMAIN kids : kids[j] = kids[l] => j = l
  <2>1. DOMAIN kids = 1 .. h[c].number /\ \A k \in 1 .. h[c].number : kids[k] = h[c].children[k]
    BY <1>1, KidsFacts
  <2>2. QED
    BY <2>1 DEF Linked, DisjointChildren
<1>5. \A n : i(n) \in Seq(DOMAIN h) /\ HoldsChildrenOf(h, kids, n, i(n))
  BY <1>2, <1>4, InheritedEntries DEF Linked
<1> HIDE DEF kids, twins, i
\* The arrays of the merged heap.
<1>6. ASSUME NEW n \in twins PROVE g[n].number = 0 /\ g[n].parent = NoNode
  <2>1. g[n] = Emptied(h[n]) /\ h[n] \in AstNode(DOMAIN h)
    BY <1>1, <1>2, <1>3
  <2>2. QED
    BY <2>1 DEF Emptied, AstNode
<1>7. ASSUME NEW n \in DOMAIN h \ twins, Inherits(h, kids, n)
      PROVE  /\ g[n].children = Endowed(h, kids, n) /\ g[n].number = Len(Endowed(h, kids, n))
             /\ g[n].parent = h[n].parent
  <2> DEFINE all == Endowed(h, kids, n)
  <2>1. g[n] = Endow(h[n], all) /\ h[n] \in AstNode(DOMAIN h)
    BY <1>1, <1>3, <1>7
  <2> HIDE DEF all
  <2>2. g[n].children = all /\ g[n].number = Len(all) /\ g[n].parent = h[n].parent
    BY <2>1 DEF Endow, AstNode
  <2>3. QED
    BY <2>2 DEF all
<1>8. ASSUME NEW n \in DOMAIN h \ twins, Orphan(h, kids, n)
      PROVE  SameArray(h, g, n) /\ g[n].parent = NewParent(h, kids, n)
  <2>1. g[n] = Move(h[n], NewParent(h, kids, n)) /\ h[n] \in AstNode(DOMAIN h)
    BY <1>1, <1>3, <1>8
  <2>2. QED
    BY <2>1 DEF Move, AstNode, SameArray
<1>9. ASSUME NEW n \in DOMAIN h \ twins, ~ Inherits(h, kids, n), ~ Orphan(h, kids, n)
      PROVE  SameArray(h, g, n) /\ g[n].parent = h[n].parent
  BY <1>3, <1>9 DEF SameArray
<1>10. ASSUME NEW n \in DOMAIN h \ twins, Inherits(h, kids, n)
       PROVE  /\ g[n].number = h[n].number + Len(i(n))
              /\ \A k \in 1 .. h[n].number : g[n].children[k] = h[n].children[k]
              /\ \A q \in 1 .. Len(i(n)) : g[n].children[h[n].number + q] = i(n)[q]
  <2> DEFINE s == Kids(h, n)
  <2> DEFINE u == i(n)
  <2>1. /\ s \in Seq(DOMAIN h) /\ Len(s) = h[n].number
        /\ \A k \in 1 .. h[n].number : s[k] = h[n].children[k]
    BY <1>1, KidsFacts
  <2>2. u \in Seq(DOMAIN h)
    BY <1>5
  <2>3. g[n].children = s \o u /\ g[n].number = Len(s \o u)
    BY <1>7, <1>10 DEF Endowed, i
  <2> HIDE DEF s, u
  <2>4. /\ Len(s) \in Nat /\ Len(u) \in Nat /\ Len(s \o u) = Len(s) + Len(u)
        /\ \A k \in 1 .. Len(s) : (s \o u)[k] = s[k]
        /\ \A q \in 1 .. Len(u) : (s \o u)[Len(s) + q] = u[q]
    <3>1. s \in Seq(DOMAIN h)
      BY <2>1
    <3>2. QED
      BY <2>2, <3>1, Joined
  <2>5. QED
    BY <2>1, <2>3, <2>4 DEF u
<1>11. ASSUME NEW n \in DOMAIN g, NEW k \in 1 .. g[n].number
       PROVE  \/ Old(n, k) /\ g[n].children[k] = h[n].children[k]
              \/ \E q : New(n, k, q) /\ g[n].children[k] = i(n)[q]
  <2>1. n \in DOMAIN h \ twins
    BY <1>2, <1>6
  <2>2. CASE Inherits(h, kids, n)
    <3> DEFINE L == h[n].number
    <3>1. /\ g[n].number = L + Len(i(n)) /\ L \in Nat /\ Len(i(n)) \in Nat
          /\ \A l \in 1 .. L : g[n].children[l] = h[n].children[l]
          /\ \A q \in 1 .. Len(i(n)) : g[n].children[L + q] = i(n)[q]
      BY <1>1, <1>5, <1>10, <2>1, <2>2, LenProperties
    <3>2. CASE k <= L
      BY <2>1, <3>1, <3>2
    <3>3. CASE k > L
      <4>1. k - L \in 1 .. Len(i(n)) /\ k = L + (k - L)
        BY <3>1, <3>3
      <4>2. New(n, k, k - L) /\ g[n].children[k] = i(n)[k - L]
        BY <2>1, <3>1, <4>1
      <4>3. QED
        BY <4>2
    <3>4. QED
      BY <3>1, <3>2, <3>3
  <2>3. CASE ~ Inherits(h, kids, n)
    BY <1>8, <1>9, <2>1, <2>3 DEF SameArray
  <2>4. QED
    BY <2>2, <2>3
\* An inherited entry is one that a twin had.
<1>12. ASSUME NEW n, NEW k, NEW q, New(n, k, q)
       PROVE  \E t \in twins : /\ Heir(h, kids, t) = n
                               /\ \E l \in 1 .. h[t].number : i(n)[q] = h[t].children[l]
  <2>1. HoldsChildrenOf(h, kids, n, i(n))
    BY <1>5
  <2>2. QED
    BY <1>12, <2>1 DEF HoldsChildrenOf, twins
<1>13. ASSUME NEW n, NEW k, NEW m, NEW l, NEW q, Old(n, k), New(m, l, q),
              h[n].children[k] = i(m)[q]
       PROVE  FALSE
  <2>1. PICK t \in twins : \E x \in 1 .. h[t].number : i(m)[q] = h[t].children[x]
    BY <1>12, <1>13
  <2>2. PICK x \in 1 .. h[t].number : i(m)[q] = h[t].children[x]
    BY <2>1
  <2>3. n \in DOMAIN h /\ t \in DOMAIN h /\ k \in 1 .. h[n].number
    BY <1>2, <1>13
  <2>4. n = t
    BY <1>13, <2>2, <2>3 DEF Linked, DisjointChildren
  <2>5. QED
    BY <1>13, <2>4
<1>14. DisjointChildren(g)
  <2>1. SUFFICES ASSUME NEW n \in DOMAIN g, NEW m \in DOMAIN g,
                        NEW k \in 1 .. g[n].number, NEW l \in 1 .. g[m].number,
                        g[n].children[k] = g[m].children[l]
                 PROVE  n = m /\ k = l
    BY DEF DisjointChildren
  <2> DEFINE old(x, y) == Old(x, y) /\ g[x].children[y] = h[x].children[y]
  <2> DEFINE new(x, y, q) == New(x, y, q) /\ g[x].children[y] = i(x)[q]
  <2>2. /\ old(n, k) \/ \E q : new(n, k, q)
        /\ old(m, l) \/ \E q : new(m, l, q)
    BY <1>11
  <2>3. CASE old(n, k) /\ old(m, l)
    <3>1. n \in DOMAIN h /\ m \in DOMAIN h /\ k \in 1 .. h[n].number /\ l \in 1 .. h[m].number
      BY <2>3
    <3>2. h[n].children[k] = h[m].children[l]
      BY <2>1, <2>3
    <3>3. DisjointChildren(h)
      BY DEF Linked
    <3>4. QED
      BY <3>1, <3>2, <3>3 DEF DisjointChildren
  <2>4. CASE old(n, k) /\ \E q : new(m, l, q)
    <3> HIDE DEF Old, New
    <3>1. QED
      BY <1>13, <2>1, <2>4
  <2>5. CASE old(m, l) /\ \E q : new(n, k, q)
    <3> HIDE DEF Old, New
    <3>1. QED
      BY <1>13, <2>1, <2>5
  <2>6. CASE (\E q : new(n, k, q)) /\ \E q : new(m, l, q)
    <3>1. PICK q : new(n, k, q)
      BY <2>6
    <3>2. PICK r : new(m, l, r)
      BY <2>6
    <3>3. i(n)[q] = i(m)[r]
      BY <2>1, <3>1, <3>2
    <3>4. PICK t \in twins : /\ Heir(h, kids, t) = n
                             /\ \E x \in 1 .. h[t].number : i(n)[q] = h[t].children[x]
      BY <1>12, <3>1
    <3>5. PICK u \in twins : /\ Heir(h, kids, u) = m
                             /\ \E x \in 1 .. h[u].number : i(m)[r] = h[u].children[x]
      BY <1>12, <3>2
    <3>6. PICK x \in 1 .. h[t].number : i(n)[q] = h[t].children[x]
      BY <3>4
    <3>7. PICK y \in 1 .. h[u].number : i(m)[r] = h[u].children[y]
      BY <3>5
    <3>8. t = u
      <4>1. t \in DOMAIN h /\ u \in DOMAIN h
        BY <1>2
      <4>2. h[t].children[x] = h[u].children[y]
        BY <3>3, <3>6, <3>7
      <4>3. DisjointChildren(h)
        BY DEF Linked
      <4>4. QED
        BY <4>1, <4>2, <4>3 DEF DisjointChildren
    <3>9. n = m
      BY <3>4, <3>5, <3>8
    <3>10. HoldsChildrenOf(h, kids, n, i(n))
      BY <1>5
    <3>11. q = r
      BY <3>1, <3>2, <3>3, <3>9, <3>10 DEF HoldsChildrenOf
    <3>12. QED
      BY <3>1, <3>2, <3>9, <3>11
  <2>7. QED
    BY <2>2, <2>3, <2>4, <2>5, <2>6
\* What a node that is no twin held, it still holds.
<1>15. ASSUME NEW n \in DOMAIN h \ twins PROVE KidSet(h, n) \subseteq KidSet(g, n)
  <2>1. CASE Inherits(h, kids, n)
    <3> DEFINE L == h[n].number
    <3>1. /\ g[n].number = L + Len(i(n)) /\ L \in Nat /\ Len(i(n)) \in Nat
          /\ \A l \in 1 .. L : g[n].children[l] = h[n].children[l]
      BY <1>1, <1>5, <1>10, <2>1, LenProperties
    <3>2. \A l \in 1 .. L : l \in 1 .. g[n].number
      BY <3>1
    <3>3. QED
      BY <3>1, <3>2 DEF KidSet
  <2>2. CASE ~ Inherits(h, kids, n)
    BY <1>8, <1>9, <2>2 DEF SameArray, KidSet
  <2>3. QED
    BY <2>1, <2>2
\* What a twin held, its heir holds.
<1>16. ASSUME NEW t \in twins
       PROVE  Heir(h, kids, t) \in DOMAIN h \ twins /\ KidSet(h, t) \subseteq KidSet(g, Heir(h, kids, t))
  <2> DEFINE m == Heir(h, kids, t)
  <2>1. m \in Range(kids) /\ Heir(h, kids, m) = m
    BY <1>2, HeirFacts
  <2>2. m \in DOMAIN h \ twins
    BY <1>2, <2>1 DEF twins, Twins
  <2>3. \A k \in 1 .. h[t].number : \E p \in 1 .. Len(i(m)) : i(m)[p] = h[t].children[k]
    BY <1>5 DEF HoldsChildrenOf, twins
  <2>4. ASSUME NEW k \in 1 .. h[t].number PROVE h[t].children[k] \in KidSet(g, m)
    <3>1. PICK p \in 1 .. Len(i(m)) : i(m)[p] = h[t].children[k]
      BY <2>3
    <3>2. i(m) # <<>>
      <4>1. i(m) = <<>> => Len(i(m)) = 0
        OBVIOUS
      <4>2. QED
        BY <3>1, <4>1
    <3>3. Inherits(h, kids, m)
      BY <2>1, <2>2, <3>2 DEF Inherits, twins, i
    <3> HIDE DEF m
    <3> DEFINE L == h[m].number
    <3>4. /\ g[m].number = L + Len(i(m)) /\ L \in Nat /\ Len(i(m)) \in Nat
          /\ g[m].children[L + p] = i(m)[p]
      BY <1>1, <1>5, <1>10, <2>2, <3>3, LenProperties
    <3>5. L + p \in 1 .. g[m].number
      BY SMTT(30), <3>4
    <3>6. QED
      BY <3>1, <3>4, <3>5 DEF KidSet
  <2>5. QED
    BY <2>2, <2>4 DEF KidSet
<1>17. ParentsAgree(g)
  <2>1. SUFFICES ASSUME NEW n \in DOMAIN g, g[n].parent \in DOMAIN g
                 PROVE  n \in KidSet(g, g[n].parent)
    BY DEF ParentsAgree
  <2>2. n \in DOMAIN h /\ DOMAIN g = DOMAIN h /\ NoNode \notin DOMAIN h
    BY <1>2, TypedUnfolds DEF NoNode
  <2>3. n \notin twins
    BY <1>6, <2>1, <2>2
  <2>4. CASE Orphan(h, kids, n)
    <3> DEFINE t == CHOOSE t \in twins : n \in KidSet(h, t)
    <3>1. t \in twins /\ n \in KidSet(h, t)
      BY <2>4 DEF Orphan, twins
    <3>2. g[n].parent = Heir(h, kids, t)
      BY <1>8, <2>2, <2>3, <2>4 DEF NewParent, twins
    <3> HIDE DEF t
    <3>3. QED
      BY <1>16, <3>1, <3>2
  <2>5. CASE ~ Orphan(h, kids, n)
    <3> DEFINE p == h[n].parent
    <3>1. g[n].parent = p
      BY <1>7, <1>9, <2>2, <2>3, <2>5
    <3>2. p \in DOMAIN h /\ n \in KidSet(h, p)
      BY <2>1, <2>2, <3>1 DEF Linked, ParentsAgree
    <3>3. p \notin twins
      BY <2>5, <3>2 DEF Orphan, twins
    <3>4. QED
      BY <1>15, <3>1, <3>2, <3>3
  <2>6. QED
    BY <2>4, <2>5
<1>18. QED
  BY <1>14, <1>17 DEF Linked

\* Below a config node it is.
LEMMA MergedIsLinked ==
    ASSUME NEW h, Sound(h), Linked(h), NEW c \in DOMAIN h, h[c].kind = "ANT_CONFIG",
           NEW g, g = AstNodeMerge(h, c)
    PROVE  Linked(g)
BY MergedKinds, MergedLinks DEF Sound

\* The merge keeps a heap well-formed.
LEMMA MergedIsWellFormed ==
    ASSUME NEW h, WellFormed(h), NEW c \in DOMAIN h, h[c].kind = "ANT_CONFIG",
           NEW g, g = AstNodeMerge(h, c)
    PROVE  /\ WellFormed(g) /\ Len(g) = Len(h) /\ DOMAIN g = DOMAIN h
           /\ \A m \in DOMAIN h :
                 /\ g[m].kind = h[m].kind
                 /\ g[m].name = h[m].name
                 /\ h[m].kind = "ANT_SECTION_TYPE" => g[m].parent \in {h[m].parent, NoNode}
                 /\ h[m].kind = "ANT_SECTION_NAME" =>
                       \/ g[m].parent = h[m].parent
                       \/ g[m].parent \in DOMAIN h
                 /\ h[m].kind \notin {"ANT_SECTION_TYPE", "ANT_SECTION_NAME"} =>
                       g[m].parent = h[m].parent
BY WellFormedParts, MergedIsSound, MergedIsLinked

-----------------------------------------------------------------------------
(***************************************************************************)
(* What ast_node_merge and unnamed_section_name_set do to each node.       *)
(***************************************************************************)

\* The array of n in g begins with the children n has in h.
Extends(h, g, n) ==
    /\ h[n].number <= g[n].number
    /\ \A k \in 1 .. h[n].number : g[n].children[k] = h[n].children[k]

\* The merge changes no name and no value, and arrays of section types only: a twin
\* is emptied, and what another one held comes first in what it holds then.
LEMMA MergedDetails ==
    ASSUME NEW h, WellFormed(h), NEW c \in DOMAIN h, h[c].kind = "ANT_CONFIG",
           NEW g, g = AstNodeMerge(h, c), NEW m \in DOMAIN h
    PROVE  /\ g[m].kind = h[m].kind /\ g[m].name = h[m].name /\ g[m].value = h[m].value
           /\ Twins(h, Kids(h, c)) \subseteq KidSet(h, c)
           /\ h[m].kind # "ANT_SECTION_TYPE" => SameArray(h, g, m)
           /\ m \notin KidSet(h, c) => SameArray(h, g, m) /\ g[m].unnamed = h[m].unnamed
           /\ m \notin KidSet(h, c) /\ ~ Orphan(h, Kids(h, c), m) => g[m].parent = h[m].parent
           /\ Orphan(h, Kids(h, c), m) =>
                 /\ h[m].kind = "ANT_SECTION_NAME"
                 /\ g[m].parent = NewParent(h, Kids(h, c), m)
           /\ m \in Twins(h, Kids(h, c)) =>
                 g[m].parent = NoNode /\ g[m].number = 0 /\ g[m].children = h[m].children
           /\ m \in KidSet(h, c) \ Twins(h, Kids(h, c)) =>
                 /\ g[m].parent = h[m].parent
                 /\ g[m].unnamed = h[m].unnamed
           /\ m \notin Twins(h, Kids(h, c)) =>
                 /\ Extends(h, g, m)
                 /\ \/ g[m].children = h[m].children
                    \/ g[m].children # <<>> /\ g[m].number = Len(g[m].children)
<1> DEFINE kids == Kids(h, c)
<1> DEFINE twins == Twins(h, kids)
<1> DEFINE i == Inherited(h, kids, m)
<1>1. /\ \A n \in DOMAIN h : TypedNode(h, n) /\ LayeredNode(h, n)
      /\ h[m] \in AstNode(DOMAIN h) /\ h[m].number \in Nat
      /\ Sound(h)
  BY WellFormedUnfolds, WellFormedParts, NodeFields DEF TypedNode
<1>2. /\ kids \in Seq(DOMAIN h)
      /\ twins \subseteq Range(kids) /\ Range(kids) = KidSet(h, c)
      /\ \A t \in Range(kids) : t \in DOMAIN h /\ h[t].kind = "ANT_SECTION_TYPE"
      /\ Orphan(h, kids, m) => h[m].kind = "ANT_SECTION_NAME"
  BY <1>1, MergedNodes
<1>3. /\ m \in twins => g[m] = Emptied(h[m])
      /\ Inherits(h, kids, m) => g[m] = Endow(h[m], Endowed(h, kids, m))
      /\ Orphan(h, kids, m) => g[m] = Move(h[m], NewParent(h, kids, m))
      /\ m \notin twins /\ ~ Inherits(h, kids, m) /\ ~ Orphan(h, kids, m) => g[m] = h[m]
  BY <1>1, MergedNodes
<1>4. \A k \in 1 .. h[m].number : h[m].number <= h[m].number
  BY <1>1
<1>5. i \in Seq(DOMAIN h)
  <2>1. i \in Seq({n \in DOMAIN h : h[n].kind = "ANT_SECTION_NAME"})
    BY <1>1, <1>2, InheritedFacts
  <2>2. QED
    BY <2>1, SeqMonotonic
<1> HIDE DEF kids, twins, i
<1>6. CASE m \in twins
  <2>1. /\ g[m].kind = h[m].kind /\ g[m].name = h[m].name /\ g[m].value = h[m].value
        /\ g[m].parent = NoNode /\ g[m].number = 0 /\ g[m].children = h[m].children
    BY <1>1, <1>3, <1>6 DEF Emptied, AstNode
  <2>2. ~ Orphan(h, kids, m)
    BY <1>2, <1>6
  <2>3. QED
    BY <1>2, <1>6, <2>1, <2>2 DEF kids, twins
<1>7. CASE m \notin twins /\ Inherits(h, kids, m)
  <2> DEFINE s == Kids(h, m)
  <2> DEFINE all == s \o i
  <2>1. g[m] = Endow(h[m], all)
    BY <1>3, <1>7 DEF Endowed, i
  <2>2. /\ s \in Seq(DOMAIN h) /\ Len(s) = h[m].number
        /\ \A k \in 1 .. h[m].number : s[k] = h[m].children[k]
    BY <1>1, KidsFacts
  <2> HIDE DEF s
  <2>3. /\ Len(s) \in Nat /\ Len(i) \in Nat /\ Len(all) = Len(s) + Len(i)
        /\ \A k \in 1 .. Len(s) : all[k] = s[k]
        /\ i # <<>> => all # <<>>
    BY SMTT(30), <1>5, <2>2
  <2> HIDE DEF all
  <2>4. /\ g[m].kind = h[m].kind /\ g[m].name = h[m].name /\ g[m].value = h[m].value
        /\ g[m].parent = h[m].parent /\ g[m].unnamed = h[m].unnamed
        /\ g[m].children = all /\ g[m].number = Len(all)
    BY <1>1, <2>1 DEF Endow, AstNode
  <2>5. Extends(h, g, m)
    BY <2>2, <2>3, <2>4 DEF Extends
  <2>6. m \in KidSet(h, c) /\ h[m].kind = "ANT_SECTION_TYPE" /\ i # <<>>
    BY <1>2, <1>7 DEF Inherits, kids, i
  <2>7. ~ Orphan(h, kids, m)
    BY <1>2, <2>6
  <2>8. QED
    BY <1>2, <1>7, <2>3, <2>4, <2>5, <2>6, <2>7 DEF kids, twins
<1>8. CASE m \notin twins /\ Orphan(h, kids, m)
  <2>1. h[m].kind = "ANT_SECTION_NAME" /\ m \notin KidSet(h, c)
    BY <1>2, <1>8
  <2>2. /\ g[m].kind = h[m].kind /\ g[m].name = h[m].name /\ g[m].value = h[m].value
        /\ g[m].unnamed = h[m].unnamed /\ g[m].parent = NewParent(h, kids, m)
        /\ g[m].children = h[m].children /\ g[m].number = h[m].number
    BY <1>1, <1>3, <1>8 DEF Move, AstNode
  <2>3. Extends(h, g, m) /\ SameArray(h, g, m)
    BY <1>1, <2>2 DEF Extends, SameArray
  <2>4. QED
    BY <1>2, <1>8, <2>1, <2>2, <2>3 DEF kids, twins
<1>9. CASE m \notin twins /\ ~ Inherits(h, kids, m) /\ ~ Orphan(h, kids, m)
  <2>1. g[m] = h[m]
    BY <1>3, <1>9
  <2>2. Extends(h, g, m) /\ SameArray(h, g, m)
    BY <1>1, <2>1 DEF Extends, SameArray
  <2>3. QED
    BY <1>2, <1>9, <2>1, <2>2 DEF kids, twins
<1>10. QED
  BY <1>6, <1>7, <1>8, <1>9

\* A section that waits for a name below a live and named section type of c.
WaitsBelow(h, c, m) ==
    \E t \in NamedTypes(h, c) : \E k \in WaitingAt(h, t) : h[t].children[k] = m

\* A named section type of c is one, and a section that waits is one, found in one
\* place only.
LEMMA WaitsBelowFacts ==
    ASSUME NEW h, WellFormed(h), NEW c \in DOMAIN h, h[c].kind = "ANT_CONFIG"
    PROVE  /\ \A t \in NamedTypes(h, c) :
                 /\ t \in DOMAIN h /\ h[t].kind = "ANT_SECTION_TYPE"
                 /\ h[t].name \in TypeNames /\ WaitingAt(h, t) \subseteq 1 .. h[t].number
           /\ \A t \in NamedTypes(h, c) : \A k \in WaitingAt(h, t) :
                 /\ h[t].children[k] \in KidSet(h, t) /\ h[t].children[k] \in DOMAIN h
                 /\ Waiting(h, h[t].children[k])
                 /\ \A u \in NamedTypes(h, c) : h[t].children[k] \in KidSet(h, u) => u = t
                 /\ \A l \in WaitingAt(h, t) : h[t].children[l] = h[t].children[k] => l = k
<1>1. \A n \in DOMAIN h : TypedNode(h, n) /\ LayeredNode(h, n)
  BY WellFormedUnfolds
<1>2. \A t \in NamedTypes(h, c) : /\ t \in DOMAIN h /\ h[t].kind = "ANT_SECTION_TYPE"
                                  /\ h[t].name \in TypeNames
  <2>1. KidSet(h, c) \subseteq DOMAIN h /\ NamedTypes(h, c) \subseteq KidSet(h, c)
    BY <1>1, KidsFacts DEF NamedTypes
  <2>2. \A t \in NamedTypes(h, c) : h[t].kind = "ANT_SECTION_TYPE" /\ h[t].name # NoString
    BY <1>1, <2>1 DEF LayeredNode, ChildKinds, NamedTypes
  <2>3. QED
    BY <1>1, <2>1, <2>2 DEF TypedNode
<1>3. ASSUME NEW t \in NamedTypes(h, c), NEW k \in WaitingAt(h, t)
      PROVE  /\ k \in 1 .. h[t].number
             /\ h[t].children[k] \in KidSet(h, t) /\ h[t].children[k] \in DOMAIN h
             /\ Waiting(h, h[t].children[k])
  <2>1. k \in 1 .. h[t].number /\ Waiting(h, h[t].children[k])
    BY DEF WaitingAt
  <2>2. KidSet(h, t) \subseteq DOMAIN h
    BY <1>1, <1>2, KidsFacts
  <2>3. QED
    BY <2>1, <2>2 DEF KidSet
<1>4. ASSUME NEW t \in NamedTypes(h, c), NEW k \in WaitingAt(h, t),
             NEW u \in NamedTypes(h, c), h[t].children[k] \in KidSet(h, u)
      PROVE  u = t
  <2>1. PICK l \in 1 .. h[u].number : h[u].children[l] = h[t].children[k]
    BY <1>4 DEF KidSet
  <2>2. k \in 1 .. h[t].number /\ t \in DOMAIN h /\ u \in DOMAIN h
    BY <1>2, <1>3
  <2>3. QED
    BY <2>1, <2>2 DEF WellFormed, DisjointChildren
<1>5. ASSUME NEW t \in NamedTypes(h, c), NEW k \in WaitingAt(h, t), NEW l \in WaitingAt(h, t),
             h[t].children[l] = h[t].children[k]
      PROVE  l = k
  <2>1. k \in 1 .. h[t].number /\ l \in 1 .. h[t].number /\ t \in DOMAIN h
    BY <1>2, <1>3
  <2>2. QED
    BY <1>5, <2>1 DEF WellFormed, DisjointChildren
<1>6. QED
  BY <1>2, <1>3, <1>4, <1>5

\* From h to g each section that waits below c gets the name of its place, the
\* counters of the section types move on, and nothing else changes.
Numbers(h, g, c) ==
    /\ DOMAIN g = DOMAIN h
    /\ \A m \in DOMAIN h :
          /\ g[m].kind = h[m].kind /\ g[m].parent = h[m].parent
          /\ g[m].value = h[m].value /\ SameArray(h, g, m)
          /\ m \in NamedTypes(h, c) =>
                g[m].unnamed = h[m].unnamed + Cardinality(WaitingAt(h, m))
          /\ m \notin NamedTypes(h, c) => g[m].unnamed = h[m].unnamed
          /\ ~ WaitsBelow(h, c, m) => g[m].name = h[m].name
          /\ WaitsBelow(h, c, m) => h[m].kind = "ANT_SECTION_NAME"
    /\ \A t \in NamedTypes(h, c) : \A k \in WaitingAt(h, t) :
          g[h[t].children[k]].name = NameAt(h, t, k)

\* That is what unnamed_section_name_set does.
LEMMA NumberedDetails ==
    ASSUME NEW h, WellFormed(h), NEW c \in DOMAIN h, h[c].kind = "ANT_CONFIG",
           NEW g, g = UnnamedSectionNameSet(h, c)
    PROVE  Numbers(h, g, c)
<1> DEFINE types == NamedTypes(h, c)
<1> DEFINE waits(m) == WaitsBelow(h, c, m)
<1> DEFINE t(m) == CHOOSE t \in types : m \in KidSet(h, t)
<1> DEFINE k(m) == CHOOSE k \in WaitingAt(h, t(m)) : h[t(m)].children[k] = m
<1> DEFINE counted(m) == [h[m] EXCEPT !.unnamed = @ + Cardinality(WaitingAt(h, m))]
<1> DEFINE named(m) == [h[m] EXCEPT !.name = NameAt(h, t(m), k(m))]
<1> DEFINE new(m) == CASE m \in types -> counted(m)
                       [] waits(m) -> named(m)
                       [] OTHER -> h[m]
<1>1. \A n \in DOMAIN h : h[n] \in AstNode(DOMAIN h)
  BY WellFormedUnfolds DEF TypedNode
<1>2. g = [m \in DOMAIN h |-> new(m)]
  BY DEF UnnamedSectionNameSet, WaitsBelow
<1>3. \A m \in types : m \in DOMAIN h /\ h[m].kind = "ANT_SECTION_TYPE"
  BY WaitsBelowFacts
<1>4. \A m : waits(m) => m \in DOMAIN h /\ h[m].kind = "ANT_SECTION_NAME" /\ m \notin types
  BY <1>3, WaitsBelowFacts DEF WaitsBelow, Waiting
<1> HIDE DEF types, waits
<1>5. DOMAIN g = DOMAIN h /\ \A m \in DOMAIN h : g[m] = new(m)
  <2> HIDE DEF new
  <2>1. QED
    BY <1>2
<1>6. ASSUME NEW m \in DOMAIN h
      PROVE  /\ g[m].kind = h[m].kind /\ g[m].parent = h[m].parent
             /\ g[m].value = h[m].value /\ SameArray(h, g, m)
             /\ m \in types => g[m].unnamed = h[m].unnamed + Cardinality(WaitingAt(h, m))
             /\ m \notin types => g[m].unnamed = h[m].unnamed
             /\ ~ waits(m) => g[m].name = h[m].name
             /\ waits(m) => g[m].name = NameAt(h, t(m), k(m))
  <2>1. CASE m \in types
    <3>1. g[m] = counted(m) /\ ~ waits(m)
      BY <1>4, <1>5, <2>1
    <3>2. QED
      BY <1>1, <2>1, <3>1 DEF AstNode, SameArray
  <2>2. CASE waits(m)
    <3> DEFINE x == NameAt(h, t(m), k(m))
    <3>1. g[m] = named(m) /\ m \notin types
      BY <1>4, <1>5, <2>2
    <3>2. g[m] = [h[m] EXCEPT !.name = x]
      BY <3>1
    <3> HIDE DEF x
    <3>3. /\ g[m].kind = h[m].kind /\ g[m].parent = h[m].parent
          /\ g[m].value = h[m].value /\ g[m].unnamed = h[m].unnamed /\ g[m].name = x
          /\ g[m].children = h[m].children /\ g[m].number = h[m].number
      BY <1>1, <3>2 DEF AstNode
    <3>4. QED
      BY <2>2, <3>1, <3>3 DEF SameArray, x
  <2>3. CASE m \notin types /\ ~ waits(m)
    <3>1. g[m] = h[m]
      BY <1>5, <2>3
    <3>2. QED
      BY <2>3, <3>1 DEF SameArray
  <2>4. QED
    BY <2>1, <2>2, <2>3
<1>7. ASSUME NEW u \in types, NEW l \in WaitingAt(h, u)
      PROVE  g[h[u].children[l]].name = NameAt(h, u, l)
  <2> DEFINE m == h[u].children[l]
  <2>1. waits(m) /\ m \in DOMAIN h /\ m \in KidSet(h, u)
    BY WaitsBelowFacts DEF waits, WaitsBelow, types
  <2>2. t(m) = u
    <3>1. \A v \in types : m \in KidSet(h, v) => v = u
      BY WaitsBelowFacts DEF types
    <3>2. QED
      BY <2>1, <3>1
  <2>3. k(m) = l
    <3>1. \A v \in WaitingAt(h, u) : h[u].children[v] = m => v = l
      BY WaitsBelowFacts DEF types
    <3>2. QED
      BY <2>2, <3>1
  <2>4. QED
    BY <1>6, <2>1, <2>2, <2>3
<1>8. QED
  BY <1>4, <1>5, <1>6, <1>7 DEF types, waits, Numbers

-----------------------------------------------------------------------------
(***************************************************************************)
(* What keeps an orderly heap orderly.                                     *)
(***************************************************************************)

\* What Attributed says of one node.
AttributedNode(h, n) ==
    /\ h[n].kind \in {"ANT_SECTION_TYPE", "ANT_SECTION_NAME"} => h[n].name # NoString
    /\ h[n].kind \in LineKinds /\ ~Deleted(h, n) => h[n].name # NoString
    /\ h[n].kind = "ANT_OPTION" /\ ~Deleted(h, n) => h[n].value # NoString

\* An orderly heap but for the attributes of the nodes in N and the section types
\* below the config nodes in C.
OrderlyBut(h, N, C) ==
    /\ Rooted(h)
    /\ \A n \in DOMAIN h \ N : AttributedNode(h, n)
    /\ \A c \in DOMAIN h \ C : h[c].kind = "ANT_CONFIG" => MergedBelow(h, c)
    /\ LinesDistinct(h)
    /\ ArraysKept(h)

\* Without exceptions it is an orderly heap.
LEMMA OrderlyParts == ASSUME NEW h PROVE Orderly(h) <=> OrderlyBut(h, {}, {})
BY DEF Orderly, OrderlyBut, Attributed, AttributedNode, Merged

\* From h to g the section types stay as they are, but for those below C.
TypesStay(h, g, C) ==
    /\ DOMAIN h \subseteq DOMAIN g
    /\ \A m \in DOMAIN h : g[m].kind = h[m].kind
    /\ \A m \in DOMAIN g \ DOMAIN h :
          /\ g[m].kind # "ANT_CONFIG"
          /\ g[m].kind = "ANT_SECTION_TYPE" => g[m].children # <<>> /\ g[m].number > 0
    /\ \A c \in DOMAIN h \ C : h[c].kind = "ANT_CONFIG" => SameArray(h, g, c)
    /\ \A t \in DOMAIN h : h[t].kind = "ANT_SECTION_TYPE" =>
          /\ h[t].children # <<>> => g[t].children # <<>>
          /\ Deleted(h, t) => Deleted(g, t)
          /\ h[t].number > 0 => Deleted(g, t) \/ g[t].number > 0
          /\ (\A c \in C : t \notin KidSet(h, c)) =>
                g[t].name = h[t].name /\ g[t].number = h[t].number

\* From h to g no section gets a line, and no line gets a name or comes back.
LinesStay(h, g) ==
    /\ DOMAIN h \subseteq DOMAIN g
    /\ \A m \in DOMAIN g \ DOMAIN h : g[m].kind = "ANT_SECTION_NAME" => g[m].number = 0
    /\ \A m \in DOMAIN h :
          /\ g[m].kind = h[m].kind
          /\ h[m].kind = "ANT_SECTION_NAME" => SameArray(h, g, m)
          /\ h[m].kind \in {"ANT_OPTION", "ANT_LIST"} =>
                g[m].name = h[m].name /\ (Deleted(h, m) => Deleted(g, m))

\* Where the section types stay, they stay merged and have arrays.
LEMMA TypesStayMerged ==
    ASSUME NEW h, WellFormed(h), NEW C, C \subseteq DOMAIN h, NEW g, TypesStay(h, g, C)
    PROVE  /\ Rooted(h) => Rooted(g)
           /\ ArraysKept(h) => ArraysKept(g)
           /\ \A c \in DOMAIN g \ C : g[c].kind = "ANT_CONFIG" =>
                 c \in DOMAIN h \ C /\ (MergedBelow(h, c) => MergedBelow(g, c))
<1>1. Rooted(h) => Rooted(g)
  BY DEF Rooted, TypesStay
<1>2. ArraysKept(h) => ArraysKept(g)
  <2>1. SUFFICES ASSUME ArraysKept(h), NEW t \in DOMAIN g, g[t].kind = "ANT_SECTION_TYPE"
                 PROVE  g[t].children # <<>> /\ (~Deleted(g, t) => g[t].number > 0)
    BY DEF ArraysKept
  <2>2. CASE t \in DOMAIN h
    BY <2>1, <2>2 DEF ArraysKept, TypesStay
  <2>3. CASE t \notin DOMAIN h
    BY <2>1, <2>3 DEF TypesStay
  <2>4. QED
    BY <2>2, <2>3
<1>3. ASSUME NEW c \in DOMAIN g \ C, g[c].kind = "ANT_CONFIG"
      PROVE  c \in DOMAIN h \ C /\ (MergedBelow(h, c) => MergedBelow(g, c))
  <2>1. c \in DOMAIN h /\ h[c].kind = "ANT_CONFIG" /\ SameArray(h, g, c)
    BY <1>3 DEF TypesStay
  <2>2. \A n \in DOMAIN h : TypedNode(h, n) /\ LayeredNode(h, n)
    BY WellFormedUnfolds
  <2>3. ASSUME NEW k \in 1 .. h[c].number, NEW t, t = h[c].children[k]
        PROVE  /\ g[t].name = h[t].name /\ g[t].number = h[t].number
               /\ Deleted(h, t) => Deleted(g, t)
    <3>1. t \in KidSet(h, c) /\ KidSet(h, c) \subseteq DOMAIN h
      BY <2>1, <2>2, <2>3, KidsFacts DEF KidSet
    <3>2. h[t].kind = "ANT_SECTION_TYPE"
      BY <2>1, <2>2, <3>1 DEF LayeredNode, ChildKinds
    <3>3. \A d \in C : t \notin KidSet(h, d)
      <4>1. SUFFICES ASSUME NEW d \in C, t \in KidSet(h, d) PROVE FALSE
        OBVIOUS
      <4>2. PICK l \in 1 .. h[d].number : h[d].children[l] = t
        BY <4>1 DEF KidSet
      <4>3. d = c
        BY <2>1, <2>3, <4>2 DEF WellFormed, DisjointChildren
      <4>4. QED
        BY <1>3, <4>3
    <3>4. QED
      BY <3>1, <3>2, <3>3 DEF TypesStay
  <2>4. ASSUME MergedBelow(h, c) PROVE MergedBelow(g, c)
    <3>1. g[c].number = h[c].number /\ g[c].children = h[c].children
      BY <2>1 DEF SameArray
    <3>2. QED
      BY <2>3, <2>4, <3>1 DEF MergedBelow
  <2>5. QED
    BY <1>3, <2>1, <2>4
<1>4. QED
  BY <1>1, <1>2, <1>3

\* So they do where none is excused.
LEMMA AllTypesStay ==
    ASSUME NEW h, WellFormed(h), NEW g, TypesStay(h, g, {})
    PROVE  /\ Rooted(h) => Rooted(g)
           /\ ArraysKept(h) => ArraysKept(g)
           /\ Merged(h) => Merged(g)
<1>1. {} \subseteq DOMAIN h
  OBVIOUS
<1>2. \A c \in DOMAIN g \ {} : g[c].kind = "ANT_CONFIG" =>
          c \in DOMAIN h \ {} /\ (MergedBelow(h, c) => MergedBelow(g, c))
  BY <1>1, TypesStayMerged
<1>3. (Rooted(h) => Rooted(g)) /\ (ArraysKept(h) => ArraysKept(g))
  BY <1>1, TypesStayMerged
<1>4. \A c \in DOMAIN h : g[c].kind = h[c].kind
  BY DEF TypesStay
<1>5. QED
  BY <1>2, <1>3, <1>4 DEF Merged

\* Two live lines of one section have the same name.
SameLines(h, s, m, n) ==
    /\ s \in DOMAIN h /\ h[s].kind = "ANT_SECTION_NAME"
    /\ m \in KidSet(h, s) /\ n \in KidSet(h, s)
    /\ ~Deleted(h, m) /\ ~Deleted(h, n) /\ h[m].name = h[n].name

LEMMA DistinctIfEach ==
    ASSUME NEW h, \A s, m, n : SameLines(h, s, m, n) => m = n
    PROVE  LinesDistinct(h)
BY DEF LinesDistinct, SameLines

\* Where the lines stay, they stay distinct.
LEMMA LinesStayDistinct ==
    ASSUME NEW h, WellFormed(h), LinesDistinct(h), NEW g, LinesStay(h, g)
    PROVE  LinesDistinct(g)
<1>0. SUFFICES ASSUME NEW s, NEW m, NEW n, SameLines(g, s, m, n) PROVE m = n
  BY DistinctIfEach
<1>1. /\ s \in DOMAIN g /\ g[s].kind = "ANT_SECTION_NAME"
      /\ m \in KidSet(g, s) /\ n \in KidSet(g, s)
      /\ ~Deleted(g, m) /\ ~Deleted(g, n) /\ g[m].name = g[n].name
  BY <1>0 DEF SameLines
<1>2. CASE s \notin DOMAIN h
  <2>1. g[s].number = 0
    BY <1>1, <1>2 DEF LinesStay
  <2>2. QED
    BY <1>1, <2>1 DEF KidSet
<1>3. CASE s \in DOMAIN h
  <2>1. h[s].kind = "ANT_SECTION_NAME" /\ SameArray(h, g, s)
    BY <1>1, <1>3 DEF LinesStay
  <2>2. m \in KidSet(h, s) /\ n \in KidSet(h, s)
    BY <1>1, <2>1 DEF SameArray, KidSet
  <2>3. \A x \in KidSet(h, s) : x \in DOMAIN h /\ h[x].kind \in {"ANT_OPTION", "ANT_LIST"}
    <3>1. TypedNode(h, s) /\ LayeredNode(h, s)
      BY <1>3, WellFormedUnfolds
    <3>2. KidSet(h, s) \subseteq DOMAIN h
      BY <1>3, <3>1, KidsFacts
    <3>3. QED
      BY <2>1, <3>1, <3>2 DEF LayeredNode, ChildKinds
  <2>4. \A x \in {m, n} : ~Deleted(h, x) /\ g[x].name = h[x].name
    BY <1>1, <2>2, <2>3 DEF LinesStay
  <2>5. QED
    BY <1>1, <1>3, <2>1, <2>2, <2>4 DEF LinesDistinct
<1>4. QED
  BY <1>2, <1>3

\* A heap stays orderly where section types and lines stay, and the attributes that
\* are missing are those of excused nodes.
LEMMA OrderlyStays ==
    ASSUME NEW h, WellFormed(h), NEW N, NEW C, C \subseteq DOMAIN h, OrderlyBut(h, N, C),
           NEW g, TypesStay(h, g, C), LinesStay(h, g),
           NEW M, \A m \in DOMAIN g \ M : AttributedNode(g, m)
    PROVE  OrderlyBut(g, M, C)
<1>1. Rooted(g) /\ ArraysKept(g)
  BY TypesStayMerged DEF OrderlyBut
<1>2. ASSUME NEW c \in DOMAIN g \ C, g[c].kind = "ANT_CONFIG"
      PROVE  MergedBelow(g, c)
  <2>1. c \in DOMAIN h \ C /\ (MergedBelow(h, c) => MergedBelow(g, c))
    BY <1>2, TypesStayMerged
  <2>2. h[c].kind = "ANT_CONFIG"
    BY <1>2, <2>1 DEF TypesStay
  <2>3. QED
    BY <2>1, <2>2 DEF OrderlyBut
<1>3. LinesDistinct(g)
  BY LinesStayDistinct DEF OrderlyBut
<1>4. QED
  BY <1>1, <1>2, <1>3 DEF OrderlyBut

\* The attributes of a node stay where its name and value do, or it gets a name, and
\* where a deleted line does not come back.
AttributesStay(h, g, m) ==
    /\ g[m].kind = h[m].kind /\ g[m].value = h[m].value
    /\ g[m].name = h[m].name \/ g[m].name # NoString
    /\ h[m].kind \in LineKinds /\ Deleted(h, m) => Deleted(g, m)

\* So a node that has them keeps them.
LEMMA AttributedStays ==
    ASSUME NEW h, NEW g, NEW m, AttributedNode(h, m), AttributesStay(h, g, m)
    PROVE  AttributedNode(g, m)
BY DEF AttributedNode, AttributesStay, LineKinds

-----------------------------------------------------------------------------
(***************************************************************************)
(* The merge and the numbering of the sections.                            *)
(***************************************************************************)

\* The heir of a child with a name is no later than the child itself.
LEMMA HeirIsFirst ==
    ASSUME NEW h, NEW D, NEW kids \in Seq(D), NEW i \in DOMAIN kids,
           h[kids[i]].name # NoString
    PROVE  \E k \in DOMAIN kids :
              /\ k <= i
              /\ Heir(h, kids, kids[i]) = kids[k]
              /\ h[kids[k]].name = h[kids[i]].name
              /\ \A j \in 1 .. k - 1 : h[kids[j]].name # h[kids[i]].name
<1> DEFINE x == h[kids[i]].name
<1> DEFINE T == {k \in DOMAIN kids : h[kids[k]].name = x}
<1> DEFINE P(k) == /\ h[kids[k]].name = x
                   /\ \A j \in 1 .. k - 1 : h[kids[j]].name # x
<1> DEFINE first == CHOOSE k \in DOMAIN kids : P(k)
<1>1. DOMAIN kids = 1 .. Len(kids) /\ Len(kids) \in Nat
  BY LenProperties
<1>2. T \subseteq Nat /\ T # {}
  BY <1>1
<1>3. PICK k \in T : \A j \in T : k <= j
  <2> HIDE DEF T
  <2>1. QED
    BY <1>2, LeastNumber
<1>4. k \in DOMAIN kids /\ P(k)
  BY <1>1, <1>3
<1>5. Heir(h, kids, kids[i]) = kids[first]
  BY DEF Heir
<1>6. first \in DOMAIN kids /\ P(first)
  <2> HIDE DEF P
  <2>1. QED
    BY <1>4
<1> HIDE DEF first
<1>7. first <= i
  <2>1. SUFFICES ASSUME i < first PROVE FALSE
    BY <1>1, <1>6
  <2>2. i \in 1 .. first - 1
    BY <1>1, <1>6, <2>1
  <2>3. QED
    BY <1>6, <2>2
<1>8. QED
  BY <1>5, <1>6, <1>7

\* ast_node_merge leaves one section type of each name below the config node: all
\* but the first are deleted and empty.
LEMMA MergedIsMerged ==
    ASSUME NEW h, WellFormed(h), NEW c \in DOMAIN h, h[c].kind = "ANT_CONFIG",
           \A t \in KidSet(h, c) : h[t].name # NoString,
           NEW g, g = AstNodeMerge(h, c)
    PROVE  MergedBelow(g, c)
<1> DEFINE kids == Kids(h, c)
<1>1. /\ TypedNode(h, c)
      /\ h[c].number \in Nat
  BY WellFormedUnfolds, NodeFields
<1>2. /\ kids \in Seq(DOMAIN h) /\ DOMAIN kids = 1 .. h[c].number
      /\ \A k \in 1 .. h[c].number : kids[k] = h[c].children[k] /\ kids[k] \in KidSet(h, c)
      /\ KidSet(h, c) \subseteq DOMAIN h /\ Range(kids) = KidSet(h, c)
  BY <1>1, KidsFacts DEF KidSet
<1> HIDE DEF kids
<1>3. SameArray(h, g, c)
  BY MergedDetails
<1>4. SUFFICES ASSUME NEW i \in 1 .. h[c].number, NEW j \in 1 .. h[c].number, i < j,
                      h[kids[i]].name = h[kids[j]].name
               PROVE  Deleted(g, kids[j]) /\ g[kids[j]].number = 0
  <2>1. \A k \in 1 .. h[c].number : g[kids[k]].name = h[kids[k]].name
    BY <1>2, MergedDetails
  <2>2. g[c].number = h[c].number /\ g[c].children = h[c].children
    BY <1>3 DEF SameArray
  <2>3. \A k \in 1 .. h[c].number : g[c].children[k] = kids[k]
    BY <1>2, <2>2
  <2>4. QED
    BY <1>4, <2>1, <2>2, <2>3 DEF MergedBelow
<1>5. PICK k \in DOMAIN kids :
          /\ k <= j
          /\ Heir(h, kids, kids[j]) = kids[k]
          /\ \A l \in 1 .. k - 1 : h[kids[l]].name # h[kids[j]].name
  <2>1. j \in DOMAIN kids /\ h[kids[j]].name # NoString
    BY <1>2
  <2>2. kids \in Seq(DOMAIN h)
    BY <1>2
  <2>3. \E k \in DOMAIN kids :
           /\ k <= j
           /\ Heir(h, kids, kids[j]) = kids[k]
           /\ h[kids[k]].name = h[kids[j]].name
           /\ \A l \in 1 .. k - 1 : h[kids[l]].name # h[kids[j]].name
    BY <2>1, <2>2, HeirIsFirst
  <2>4. QED
    BY <2>3
<1>6. k <= i
  <2>1. i \notin 1 .. k - 1
    BY <1>4, <1>5
  <2>2. QED
    BY <1>1, <1>2, <1>5, <2>1
<1>7. kids[k] # kids[j]
  <2>1. k # j
    BY <1>1, <1>2, <1>4, <1>5, <1>6
  <2>2. QED
    BY <1>2, <1>5, <2>1 DEF WellFormed, DisjointChildren
<1>8. kids[j] \in Twins(h, kids)
  BY <1>2, <1>5, <1>7 DEF Twins
<1>9. QED
  BY <1>2, <1>8, MergedDetails DEF kids, Deleted

\* It leaves the section types elsewhere alone, and all lines.
LEMMA MergeStays ==
    ASSUME NEW h, WellFormed(h), NEW c \in DOMAIN h, h[c].kind = "ANT_CONFIG",
           NEW g, g = AstNodeMerge(h, c)
    PROVE  /\ TypesStay(h, g, {c}) /\ LinesStay(h, g)
           /\ \A m \in DOMAIN h : AttributesStay(h, g, m)
<1>1. DOMAIN g = DOMAIN h
  BY MergedIsWellFormed
<1>2. \A m \in DOMAIN h : /\ g[m].kind = h[m].kind /\ g[m].name = h[m].name
                          /\ g[m].value = h[m].value
                          /\ h[m].kind # "ANT_SECTION_TYPE" => SameArray(h, g, m)
  BY MergedDetails
<1>3. \A m \in DOMAIN h : h[m].kind \notin {"ANT_SECTION_TYPE", "ANT_SECTION_NAME"} =>
          g[m].parent = h[m].parent
  BY MergedIsWellFormed
<1>4. ASSUME NEW t \in DOMAIN h, h[t].kind = "ANT_SECTION_TYPE"
      PROVE  /\ h[t].children # <<>> => g[t].children # <<>>
             /\ Deleted(h, t) => Deleted(g, t)
             /\ h[t].number > 0 => Deleted(g, t) \/ g[t].number > 0
             /\ t \notin KidSet(h, c) => g[t].number = h[t].number
  <2>1. h[t].children # <<>> => g[t].children # <<>>
    BY MergedDetails
  <2>2. t \notin KidSet(h, c) => g[t].number = h[t].number
    BY <1>4, MergedDetails DEF SameArray
  <2>3. Deleted(h, t) => Deleted(g, t)
    BY <1>4, MergedIsWellFormed DEF Deleted
  <2>4. h[t].number > 0 => Deleted(g, t) \/ g[t].number > 0
    <3>1. CASE t \in Twins(h, Kids(h, c))
      BY <3>1, MergedDetails DEF Deleted
    <3>2. CASE t \notin Twins(h, Kids(h, c))
      <4>1. h[t].number <= g[t].number
        BY <3>2, MergedDetails DEF Extends
      <4>2. h[t].number \in Nat /\ g[t].number \in Nat
        BY <1>1, MergedIsWellFormed, WellFormedUnfolds, NodeFields
      <4>3. QED
        BY <4>1, <4>2
    <3>3. QED
      BY <3>1, <3>2
  <2>5. QED
    BY <2>1, <2>2, <2>3, <2>4
<1>5. TypesStay(h, g, {c})
  <2>1. \A d \in DOMAIN h : h[d].kind = "ANT_CONFIG" => SameArray(h, g, d)
    BY <1>2
  <2>2. QED
    BY <1>1, <1>2, <1>4, <2>1 DEF TypesStay
<1>6. LinesStay(h, g)
  BY <1>1, <1>2, <1>3 DEF LinesStay, Deleted
<1>7. \A m \in DOMAIN h : AttributesStay(h, g, m)
  BY <1>2, <1>3 DEF AttributesStay, Deleted, LineKinds
<1>8. QED
  BY <1>5, <1>6, <1>7

\* The numbering changes names of sections only, and each gets one.
LEMMA NumberingStays ==
    ASSUME NEW h, WellFormed(h), NEW c \in DOMAIN h, h[c].kind = "ANT_CONFIG",
           NEW g, g = UnnamedSectionNameSet(h, c)
    PROVE  /\ TypesStay(h, g, {}) /\ LinesStay(h, g)
           /\ \A m \in DOMAIN h : AttributesStay(h, g, m)
<1>1. /\ DOMAIN g = DOMAIN h
      /\ \A m \in DOMAIN h : /\ g[m].kind = h[m].kind /\ g[m].parent = h[m].parent
                             /\ g[m].value = h[m].value /\ SameArray(h, g, m)
                             /\ ~ WaitsBelow(h, c, m) => g[m].name = h[m].name
                             /\ WaitsBelow(h, c, m) => h[m].kind = "ANT_SECTION_NAME"
  BY NumberedDetails DEF Numbers
<1>2. \A m \in DOMAIN h : h[m].kind # "ANT_SECTION_NAME" => g[m].name = h[m].name
  BY <1>1
<1>3. ASSUME NEW m \in DOMAIN h, WaitsBelow(h, c, m)
      PROVE  g[m].name # NoString
  <2>1. PICK t \in NamedTypes(h, c) : \E k \in WaitingAt(h, t) : h[t].children[k] = m
    BY <1>3 DEF WaitsBelow
  <2>2. PICK k \in WaitingAt(h, t) : h[t].children[k] = m
    BY <2>1
  <2>3. g[m].name = NameAt(h, t, k)
    BY <2>2, NumberedDetails DEF Numbers
  <2>4. t \in DOMAIN h /\ h[t].name \in TypeNames /\ WaitingAt(h, t) \subseteq 1 .. h[t].number
    BY WaitsBelowFacts
  <2>5. Sound(h) /\ h[t].unnamed \in Nat
    BY <2>4, WellFormedParts, WellFormedUnfolds, NodeFields
  <2>6. Cardinality({i \in WaitingAt(h, t) : i < k}) \in Nat
    <3>1. k \in Nat
      BY <2>2, <2>4
    <3>2. QED
      BY <2>4, <2>5, <3>1, WaitingFacts
  <2>7. NameAt(h, t, k) \in UnnamedNames
    <3>1. h[t].unnamed + Cardinality({i \in WaitingAt(h, t) : i < k}) \in Nat
      BY <2>5, <2>6
    <3>2. QED
      BY <2>4, <3>1 DEF NameAt, UnnamedName, UnnamedNames
  <2>8. QED
    BY <2>3, <2>7, NamesAssumption DEF Strings, AtNames
<1>4. TypesStay(h, g, {})
  BY <1>1, <1>2 DEF TypesStay, SameArray, Deleted
<1>5. LinesStay(h, g)
  BY <1>1, <1>2 DEF LinesStay, Deleted
<1>6. \A m \in DOMAIN h : AttributesStay(h, g, m)
  BY <1>1, <1>3 DEF AttributesStay, Deleted
<1>7. QED
  BY <1>4, <1>5, <1>6

-----------------------------------------------------------------------------
(***************************************************************************)
(* The functions that add a node or set an attribute.                      *)
(***************************************************************************)

\* From h to g node L is new below p: it is nameless and live, and changes the array
\* of p only.
Adds(h, g, p, kind, L) ==
    /\ L \notin DOMAIN h /\ DOMAIN g = DOMAIN h \cup {L}
    /\ g[L] = AddedNode(p, kind)
    /\ g[p].number = h[p].number + 1
    /\ g[p].children # <<>> /\ g[p].children[h[p].number + 1] = L
    /\ \A k \in 1 .. h[p].number : g[p].children[k] = h[p].children[k]
    /\ KidSet(g, p) = KidSet(h, p) \cup {L}
    /\ \A m \in DOMAIN h : /\ g[m].kind = h[m].kind /\ g[m].name = h[m].name
                           /\ g[m].value = h[m].value /\ g[m].parent = h[m].parent
                           /\ g[m].unnamed = h[m].unnamed
                           /\ m # p => g[m] = h[m] /\ KidSet(g, m) = KidSet(h, m)

\* That is what ast_node_new and ast_node_add do.
LEMMA AddedDetails ==
    ASSUME NEW h, WellFormed(h), NEW p \in DOMAIN h, NEW kind
    PROVE  Adds(h, Added(h, p, kind), p, kind, Len(h) + 1)
<1> DEFINE g == Added(h, p, kind)
<1> DEFINE L == Len(h) + 1
<1> DEFINE s == Kids(h, p)
<1> DEFINE new == Append(s, L)
<1>1. /\ Len(h) \in Nat /\ DOMAIN h = 1 .. Len(h) /\ TypedNode(h, p) /\ Sound(h)
      /\ h[p].number \in Nat
  BY WellFormedUnfolds, WellFormedParts, NodeFields
<1>2. /\ g = [n \in 1 .. Len(h) + 1 |-> g[n]]
      /\ g[L] = AddedNode(p, kind)
      /\ g[p] = Holding(h[p], new)
      /\ \A n \in DOMAIN h : n # p => g[n] = h[n]
  BY <1>1, AddedNodes
<1> HIDE DEF g, L
<1>3. /\ s \in Seq(DOMAIN h) /\ Len(s) = h[p].number
      /\ KidSet(h, p) = {s[k] : k \in 1 .. h[p].number}
  BY <1>1, KidsFacts
<1> HIDE DEF s
<1>4. /\ Len(new) = h[p].number + 1 /\ new # <<>>
      /\ new[h[p].number + 1] = L
      /\ \A k \in 1 .. h[p].number : new[k] = s[k]
  <2>1. s \in Seq(DOMAIN h \cup {L}) /\ L \in DOMAIN h \cup {L}
    BY <1>3, SeqMonotonic
  <2>2. QED
    BY <1>1, <1>3, <2>1, AppendProperties
<1> HIDE DEF new
<1>5. /\ g[p].kind = h[p].kind /\ g[p].name = h[p].name /\ g[p].value = h[p].value
      /\ g[p].parent = h[p].parent /\ g[p].unnamed = h[p].unnamed
      /\ g[p].children = new /\ g[p].number = h[p].number + 1
  BY <1>2, <1>4 DEF Holding
<1>6. KidSet(g, p) = KidSet(h, p) \cup {L}
  <2>1. KidSet(g, p) = {new[k] : k \in 1 .. h[p].number + 1}
    BY <1>5 DEF KidSet
  <2>2. 1 .. h[p].number + 1 = (1 .. h[p].number) \cup {h[p].number + 1}
    BY <1>1
  <2>3. KidSet(g, p) = {new[k] : k \in 1 .. h[p].number} \cup {L}
    BY <1>4, <2>1, <2>2
  <2>4. {new[k] : k \in 1 .. h[p].number} = {s[k] : k \in 1 .. h[p].number}
    BY <1>4
  <2>5. QED
    BY <1>3, <2>3, <2>4
<1>7. DOMAIN g = DOMAIN h \cup {L} /\ L \notin DOMAIN h
  <2>1. DOMAIN g = 1 .. Len(h) + 1
    BY <1>2
  <2>2. QED
    BY <1>1, <2>1 DEF L
<1>8. \A m \in DOMAIN h : /\ g[m].kind = h[m].kind /\ g[m].name = h[m].name
                          /\ g[m].value = h[m].value /\ g[m].parent = h[m].parent
                          /\ g[m].unnamed = h[m].unnamed
                          /\ m # p => g[m] = h[m] /\ KidSet(g, m) = KidSet(h, m)
  <2>1. \A m \in DOMAIN h : m # p => KidSet(g, m) = KidSet(h, m)
    BY <1>2 DEF KidSet
  <2>2. QED
    BY <1>2, <1>5, <2>1
<1>9. /\ g[p].children[h[p].number + 1] = L
      /\ \A k \in 1 .. h[p].number : g[p].children[k] = h[p].children[k]
  <2>1. \A k \in 1 .. h[p].number : s[k] = h[p].children[k]
    BY <1>1, KidsFacts DEF s
  <2>2. QED
    BY <1>4, <1>5, <2>1
<1>10. QED
  BY <1>2, <1>4, <1>5, <1>6, <1>7, <1>8, <1>9 DEF Adds, g, L

\* A new line is orderly but for its own attributes.
LEMMA AddedLineIsOrderly ==
    ASSUME NEW h, WellFormed(h), Orderly(h), NEW p \in DOMAIN h,
           NEW kind \in LineKinds, h[p].kind \in {"ANT_SECTION_NAME", "ANT_OPTION", "ANT_LIST"},
           NEW g, g = Added(h, p, kind), NEW L, L = Len(h) + 1
    PROVE  OrderlyBut(g, {L}, {}) /\ g[L].kind = kind
<1>1. /\ L \notin DOMAIN h /\ DOMAIN g = DOMAIN h \cup {L}
      /\ g[L] = AddedNode(p, kind)
      /\ KidSet(g, p) = KidSet(h, p) \cup {L}
      /\ \A m \in DOMAIN h : /\ g[m].kind = h[m].kind /\ g[m].name = h[m].name
                             /\ g[m].value = h[m].value /\ g[m].parent = h[m].parent
                             /\ m # p => g[m] = h[m] /\ KidSet(g, m) = KidSet(h, m)
  <2>1. Adds(h, g, p, kind, L)
    BY AddedDetails
  <2>2. QED
    BY <2>1 DEF Adds
<1>2. /\ g[L].kind = kind /\ g[L].name = NoString /\ g[L].parent = p /\ g[L].number = 0
  BY <1>1 DEF AddedNode
<1>3. OrderlyBut(h, {}, {})
  BY OrderlyParts
<1>4. TypesStay(h, g, {})
  BY <1>1, <1>2 DEF TypesStay, SameArray, Deleted, LineKinds
<1>5. Rooted(g) /\ ArraysKept(g) /\ Merged(g)
  BY <1>3, <1>4, AllTypesStay DEF OrderlyBut, Merged
<1>6. \A c \in DOMAIN g : g[c].kind = "ANT_CONFIG" => MergedBelow(g, c)
  BY <1>5 DEF Merged
<1>7. \A m \in DOMAIN g \ {L} : AttributedNode(g, m)
  <2>1. ASSUME NEW m \in DOMAIN h PROVE AttributedNode(g, m)
    <3>1. AttributesStay(h, g, m)
      BY <1>1 DEF AttributesStay, Deleted
    <3>2. AttributedNode(h, m)
      BY <1>3 DEF OrderlyBut
    <3>3. QED
      BY <3>1, <3>2, AttributedStays
  <2>2. QED
    BY <1>1, <2>1
<1>8. LinesDistinct(g)
  <2>0. SUFFICES ASSUME NEW s, NEW m, NEW n, SameLines(g, s, m, n) PROVE m = n
    BY DistinctIfEach
  <2>1. /\ s \in DOMAIN g /\ g[s].kind = "ANT_SECTION_NAME"
        /\ m \in KidSet(g, s) /\ n \in KidSet(g, s)
        /\ ~Deleted(g, m) /\ ~Deleted(g, n) /\ g[m].name = g[n].name
    BY <2>0 DEF SameLines
  <2>2. s \in DOMAIN h /\ h[s].kind = "ANT_SECTION_NAME"
    BY <1>1, <1>2, <2>1 DEF LineKinds
  <2>3. \A x \in KidSet(h, s) : x \in DOMAIN h /\ h[x].kind \in {"ANT_OPTION", "ANT_LIST"}
    <3>1. TypedNode(h, s) /\ LayeredNode(h, s)
      BY <2>2, WellFormedUnfolds
    <3>2. KidSet(h, s) \subseteq DOMAIN h
      BY <2>2, <3>1, KidsFacts
    <3>3. QED
      BY <2>2, <3>1, <3>2 DEF LayeredNode, ChildKinds
  <2>4. \A x \in {m, n} : x # L => x \in KidSet(h, s)
    BY <1>1, <2>1, <2>2
  <2>5. \A x \in {m, n} : x # L => ~Deleted(h, x) /\ g[x].name = h[x].name /\ h[x].name # NoString
    <3>1. ASSUME NEW x \in {m, n}, x # L
          PROVE  ~Deleted(h, x) /\ g[x].name = h[x].name /\ h[x].name # NoString
      <4>1. x \in DOMAIN h /\ h[x].kind \in {"ANT_OPTION", "ANT_LIST"}
        BY <2>3, <2>4, <3>1
      <4>2. g[x].parent = h[x].parent /\ g[x].name = h[x].name
        BY <1>1, <4>1
      <4>3. ~Deleted(h, x)
        BY <2>1, <4>2 DEF Deleted
      <4>4. AttributedNode(h, x)
        BY <1>3, <4>1 DEF OrderlyBut
      <4>5. QED
        BY <4>1, <4>2, <4>3, <4>4 DEF AttributedNode, LineKinds
    <3>2. QED
      BY <3>1
  <2>6. CASE m = L \/ n = L
    BY <1>2, <2>1, <2>5, <2>6
  <2>7. CASE m # L /\ n # L
    BY <1>3, <2>1, <2>2, <2>4, <2>5, <2>7 DEF OrderlyBut, LinesDistinct
  <2>8. QED
    BY <2>6, <2>7
<1>9. QED
  BY <1>2, <1>5, <1>6, <1>7, <1>8 DEF OrderlyBut

\* From h to g section type t is new below c, with the new and nameless section n as
\* its only child, and the other section types and all lines stay as they were.
AddsSection(h, g, c, t, n) ==
    /\ t \notin DOMAIN h /\ n \notin DOMAIN h /\ n # t
    /\ DOMAIN g = DOMAIN h \cup {t, n}
    /\ g[t].kind = "ANT_SECTION_TYPE" /\ g[t].parent = c /\ KidSet(g, t) = {n}
    /\ g[t].unnamed = 0
    /\ g[n].kind = "ANT_SECTION_NAME" /\ g[n].name = NoString /\ g[n].parent = t
    /\ KidSet(g, c) = KidSet(h, c) \cup {t}
    /\ g[c].number = h[c].number + 1 /\ g[c].children[h[c].number + 1] = t
    /\ \A k \in 1 .. h[c].number : g[c].children[k] = h[c].children[k]
    /\ \A m \in DOMAIN h : /\ g[m].kind = h[m].kind /\ g[m].name = h[m].name
                           /\ g[m].value = h[m].value /\ g[m].parent = h[m].parent
                           /\ g[m].unnamed = h[m].unnamed
                           /\ m # c => g[m] = h[m]
    /\ TypesStay(h, g, {c}) /\ LinesStay(h, g)
    /\ \A m \in DOMAIN h : AttributesStay(h, g, m)

\* That is what adding the two nodes does.
LEMMA AddedSectionStays ==
    ASSUME NEW h, WellFormed(h), NEW c \in DOMAIN h, h[c].kind = "ANT_CONFIG",
           NEW t, t = Len(h) + 1, NEW f, f = Added(h, c, "ANT_SECTION_TYPE"),
           NEW n, n = Len(f) + 1, NEW g, g = Added(f, t, "ANT_SECTION_NAME")
    PROVE  AddsSection(h, g, c, t, n)
<1>1. "ANT_SECTION_TYPE" \in ChildKinds(h[c].kind)
  BY DEF ChildKinds
<1>2. WellFormed(f) /\ t \in DOMAIN f
  <2>1. WellFormed(f) /\ DOMAIN f = 1 .. Len(h) + 1
    BY <1>1, AddedIsWellFormed
  <2>2. Len(h) \in Nat
    BY WellFormedUnfolds
  <2>3. QED
    BY <2>1, <2>2
<1>3. /\ t \notin DOMAIN h /\ DOMAIN f = DOMAIN h \cup {t}
      /\ f[t] = AddedNode(c, "ANT_SECTION_TYPE")
      /\ KidSet(f, c) = KidSet(h, c) \cup {t}
      /\ f[c].number = h[c].number + 1 /\ f[c].children[h[c].number + 1] = t
      /\ \A k \in 1 .. h[c].number : f[c].children[k] = h[c].children[k]
      /\ \A m \in DOMAIN h : /\ f[m].kind = h[m].kind /\ f[m].name = h[m].name
                             /\ f[m].value = h[m].value /\ f[m].parent = h[m].parent
                             /\ f[m].unnamed = h[m].unnamed
                             /\ m # c => f[m] = h[m]
  <2>1. Adds(h, f, c, "ANT_SECTION_TYPE", t)
    BY AddedDetails
  <2>2. QED
    BY <2>1 DEF Adds
<1>4. /\ n \notin DOMAIN f /\ DOMAIN g = DOMAIN f \cup {n}
      /\ g[n] = AddedNode(t, "ANT_SECTION_NAME")
      /\ g[t].children # <<>> /\ g[t].number = f[t].number + 1
      /\ KidSet(g, t) = KidSet(f, t) \cup {n}
      /\ \A m \in DOMAIN f : /\ g[m].kind = f[m].kind /\ g[m].name = f[m].name
                             /\ g[m].value = f[m].value /\ g[m].parent = f[m].parent
                             /\ g[m].unnamed = f[m].unnamed
                             /\ m # t => g[m] = f[m] /\ KidSet(g, m) = KidSet(f, m)
  <2>1. Adds(f, g, t, "ANT_SECTION_NAME", n)
    BY <1>2, AddedDetails
  <2>2. QED
    BY <2>1 DEF Adds
<1>5. /\ f[t].kind = "ANT_SECTION_TYPE" /\ f[t].parent = c /\ f[t].number = 0
      /\ f[t].unnamed = 0
  BY <1>3 DEF AddedNode
<1>6. /\ g[n].kind = "ANT_SECTION_NAME" /\ g[n].number = 0
      /\ g[n].name = NoString /\ g[n].parent = t
  BY <1>4 DEF AddedNode
<1>7. KidSet(f, t) = {}
  BY <1>5 DEF KidSet
<1>8. KidSet(g, c) = KidSet(h, c) \cup {t} /\ g[c] = f[c]
  <2>1. c \in DOMAIN f /\ c # t
    BY <1>3
  <2>2. QED
    BY <1>3, <1>4, <2>1
<1>9. \A m \in DOMAIN h : /\ g[m].kind = h[m].kind /\ g[m].name = h[m].name
                          /\ g[m].value = h[m].value /\ g[m].parent = h[m].parent
                          /\ g[m].unnamed = h[m].unnamed
                          /\ m # c => g[m] = h[m]
  BY <1>3, <1>4
<1>10. g[t].kind = "ANT_SECTION_TYPE" /\ g[t].parent = c /\ g[t].unnamed = 0
  BY <1>3, <1>4, <1>5
<1>11. TypesStay(h, g, {c})
  <2>1. \A m \in DOMAIN g \ DOMAIN h : m = t \/ m = n
    BY <1>3, <1>4
  <2>2. \A m \in DOMAIN g \ DOMAIN h :
          /\ g[m].kind # "ANT_CONFIG"
          /\ g[m].kind = "ANT_SECTION_TYPE" => g[m].children # <<>> /\ g[m].number > 0
    <3>1. g[t].children # <<>> /\ g[t].number > 0
      BY <1>4, <1>5
    <3>2. QED
      BY <1>6, <1>10, <2>1, <3>1
  <2>3. \A d \in DOMAIN h \ {c} : h[d].kind = "ANT_CONFIG" => SameArray(h, g, d)
    BY <1>9 DEF SameArray
  <2>4. \A x \in DOMAIN h : h[x].kind = "ANT_SECTION_TYPE" => g[x] = h[x]
    BY <1>9
  <2>5. DOMAIN h \subseteq DOMAIN g /\ \A m \in DOMAIN h : g[m].kind = h[m].kind
    BY <1>3, <1>4, <1>9
  <2>6. QED
    BY <2>2, <2>3, <2>4, <2>5 DEF TypesStay, Deleted
<1>12. LinesStay(h, g)
  BY <1>3, <1>4, <1>6, <1>9, <1>10 DEF LinesStay, SameArray, Deleted
<1>13. \A m \in DOMAIN h : AttributesStay(h, g, m)
  BY <1>9 DEF AttributesStay, Deleted
<1>14. /\ t \notin DOMAIN h /\ n \notin DOMAIN h /\ n # t
       /\ DOMAIN g = DOMAIN h \cup {t, n} /\ KidSet(g, t) = {n}
  BY <1>3, <1>4, <1>7
<1>15. /\ g[c].number = h[c].number + 1 /\ g[c].children[h[c].number + 1] = t
       /\ \A k \in 1 .. h[c].number : g[c].children[k] = h[c].children[k]
  BY <1>3, <1>8
<1>16. QED
  BY <1>6, <1>8, <1>9, <1>10, <1>11, <1>12, <1>13, <1>14, <1>15 DEF AddsSection

\* From h to g node n changes in its name only, which is x then.
NameChanges(h, g, n, x) ==
    /\ DOMAIN g = DOMAIN h /\ g[n].name = x
    /\ \A m \in DOMAIN h : /\ g[m].kind = h[m].kind /\ g[m].value = h[m].value
                           /\ g[m].parent = h[m].parent /\ SameArray(h, g, m)
                           /\ g[m].unnamed = h[m].unnamed
                           /\ m # n => g[m] = h[m]

\* That is what a name does.
LEMMA NamedDetails ==
    ASSUME NEW h, WellFormed(h), NEW n \in DOMAIN h, NEW x, NEW g, g = [h EXCEPT ![n].name = x]
    PROVE  NameChanges(h, g, n, x)
<1>1. h[n] \in AstNode(DOMAIN h)
  BY WellFormedUnfolds DEF TypedNode
<1>2. /\ DOMAIN g = DOMAIN h /\ g[n] = [h[n] EXCEPT !.name = x]
      /\ \A m \in DOMAIN h : m # n => g[m] = h[m]
  OBVIOUS
<1>3. QED
  BY <1>1, <1>2 DEF AstNode, SameArray, NameChanges

\* From h to g node n changes in its value only, which is x then.
ValueChanges(h, g, n, x) ==
    /\ DOMAIN g = DOMAIN h /\ g[n].value = x
    /\ \A m \in DOMAIN h : /\ g[m].kind = h[m].kind /\ g[m].name = h[m].name
                           /\ g[m].parent = h[m].parent /\ SameArray(h, g, m)
                           /\ g[m].unnamed = h[m].unnamed
                           /\ m # n => g[m] = h[m]

\* That is what a value does.
LEMMA ValuedDetails ==
    ASSUME NEW h, WellFormed(h), NEW n \in DOMAIN h, NEW x, NEW g, g = [h EXCEPT ![n].value = x]
    PROVE  ValueChanges(h, g, n, x)
<1>1. h[n] \in AstNode(DOMAIN h)
  BY WellFormedUnfolds DEF TypedNode
<1>2. /\ DOMAIN g = DOMAIN h /\ g[n] = [h[n] EXCEPT !.value = x]
      /\ \A m \in DOMAIN h : m # n => g[m] = h[m]
  OBVIOUS
<1>3. QED
  BY <1>1, <1>2 DEF AstNode, SameArray, ValueChanges

\* From h to g node n changes in its parent only, which is x then.
ParentChanges(h, g, n, x) ==
    /\ DOMAIN g = DOMAIN h /\ g[n].parent = x
    /\ \A m \in DOMAIN h : /\ g[m].kind = h[m].kind /\ g[m].name = h[m].name
                           /\ g[m].value = h[m].value /\ SameArray(h, g, m)
                           /\ g[m].unnamed = h[m].unnamed
                           /\ m # n => g[m] = h[m]

\* That is what uci2_node_remove does.
LEMMA RemovedDetails ==
    ASSUME NEW h, WellFormed(h), NEW n \in DOMAIN h, NEW x, NEW g, g = [h EXCEPT ![n].parent = x]
    PROVE  ParentChanges(h, g, n, x)
<1>1. h[n] \in AstNode(DOMAIN h)
  BY WellFormedUnfolds DEF TypedNode
<1>2. /\ DOMAIN g = DOMAIN h /\ g[n] = [h[n] EXCEPT !.parent = x]
      /\ \A m \in DOMAIN h : m # n => g[m] = h[m]
  OBVIOUS
<1>3. QED
  BY <1>1, <1>2 DEF AstNode, SameArray, ParentChanges

\* A section that gets a name, and a node that gets a value or is removed, leave the
\* rest as orderly as it was.
LEMMA OtherChangesStay ==
    ASSUME NEW h, WellFormed(h), NEW n \in DOMAIN h, NEW x, NEW g,
           \/ g = [h EXCEPT ![n].name = x] /\ h[n].kind \in {"ANT_SECTION_NAME", "ANT_LIST_ITEM"}
           \/ g = [h EXCEPT ![n].value = x]
           \/ g = [h EXCEPT ![n].parent = x] /\ x = NoNode
    PROVE  /\ TypesStay(h, g, {}) /\ LinesStay(h, g)
           /\ \A m \in DOMAIN h \ {n} : AttributesStay(h, g, m)
           /\ g = [h EXCEPT ![n].parent = x] => AttributesStay(h, g, n)
<1>1. CASE g = [h EXCEPT ![n].name = x] /\ h[n].kind \in {"ANT_SECTION_NAME", "ANT_LIST_ITEM"}
  <2>1. /\ DOMAIN g = DOMAIN h
        /\ \A m \in DOMAIN h : /\ g[m].kind = h[m].kind /\ g[m].value = h[m].value
                               /\ g[m].parent = h[m].parent /\ SameArray(h, g, m)
                               /\ m # n => g[m] = h[m]
    <3>1. NameChanges(h, g, n, x)
      BY <1>1, NamedDetails
    <3>2. QED
      BY <3>1 DEF NameChanges
  <2>2. TypesStay(h, g, {}) /\ LinesStay(h, g)
    BY <1>1, <2>1 DEF TypesStay, LinesStay, SameArray, Deleted
  <2>3. \A m \in DOMAIN h \ {n} : AttributesStay(h, g, m)
    BY <2>1 DEF AttributesStay, Deleted
  <2>4. g = [h EXCEPT ![n].parent = x] => AttributesStay(h, g, n)
    <3>1. ASSUME g = [h EXCEPT ![n].parent = x] PROVE g[n].name = h[n].name
      <4>1. ParentChanges(h, g, n, x)
        BY <3>1, RemovedDetails
      <4>2. QED
        BY <4>1 DEF ParentChanges
    <3>2. QED
      BY <2>1, <3>1 DEF AttributesStay, Deleted
  <2>5. QED
    BY <2>2, <2>3, <2>4
<1>2. CASE g = [h EXCEPT ![n].value = x]
  <2>1. /\ DOMAIN g = DOMAIN h
        /\ \A m \in DOMAIN h : /\ g[m].kind = h[m].kind /\ g[m].name = h[m].name
                               /\ g[m].parent = h[m].parent /\ SameArray(h, g, m)
                               /\ m # n => g[m] = h[m]
    <3>1. ValueChanges(h, g, n, x)
      BY <1>2, ValuedDetails
    <3>2. QED
      BY <3>1 DEF ValueChanges
  <2>2. TypesStay(h, g, {}) /\ LinesStay(h, g)
    BY <2>1 DEF TypesStay, LinesStay, SameArray, Deleted
  <2>3. \A m \in DOMAIN h \ {n} : AttributesStay(h, g, m)
    BY <2>1 DEF AttributesStay, Deleted
  <2>4. g = [h EXCEPT ![n].parent = x] => AttributesStay(h, g, n)
    <3>1. ASSUME g = [h EXCEPT ![n].parent = x] PROVE g[n].value = h[n].value
      <4>1. ParentChanges(h, g, n, x)
        BY <3>1, RemovedDetails
      <4>2. QED
        BY <4>1 DEF ParentChanges
    <3>2. QED
      BY <2>1, <3>1 DEF AttributesStay, Deleted
  <2>5. QED
    BY <2>2, <2>3, <2>4
<1>3. CASE g = [h EXCEPT ![n].parent = x] /\ x = NoNode
  <2>1. /\ DOMAIN g = DOMAIN h /\ g[n].parent = NoNode
        /\ \A m \in DOMAIN h : /\ g[m].kind = h[m].kind /\ g[m].name = h[m].name
                               /\ g[m].value = h[m].value /\ SameArray(h, g, m)
                               /\ m # n => g[m] = h[m]
    <3>1. ParentChanges(h, g, n, x)
      BY <1>3, RemovedDetails
    <3>2. QED
      BY <1>3, <3>1 DEF ParentChanges
  <2>2. \A m \in DOMAIN h : Deleted(h, m) => Deleted(g, m)
    BY <2>1 DEF Deleted
  <2>3. TypesStay(h, g, {}) /\ LinesStay(h, g)
    BY <2>1, <2>2 DEF TypesStay, LinesStay, SameArray
  <2>4. \A m \in DOMAIN h : AttributesStay(h, g, m)
    BY <2>1, <2>2 DEF AttributesStay
  <2>5. QED
    BY <2>3, <2>4
<1>4. QED
  BY <1>1, <1>2, <1>3

\* A line gets a name that no live line of its section has.
LEMMA NamedLineIsOrderly ==
    ASSUME NEW h, WellFormed(h), NEW N, OrderlyBut(h, N, {}), NEW n \in DOMAIN h,
           h[n].kind \in {"ANT_OPTION", "ANT_LIST"}, h[n].parent \in DOMAIN h,
           NEW x, x # NoString,
           \A m \in KidSet(h, h[n].parent) : ~Deleted(h, m) => h[m].name # x,
           NEW g, g = [h EXCEPT ![n].name = x]
    PROVE  OrderlyBut(g, N, {})
<1>1. /\ DOMAIN g = DOMAIN h /\ g[n].name = x
      /\ \A m \in DOMAIN h : /\ g[m].kind = h[m].kind /\ g[m].value = h[m].value
                             /\ g[m].parent = h[m].parent /\ SameArray(h, g, m)
                             /\ m # n => g[m] = h[m]
  <2>1. NameChanges(h, g, n, x)
    BY NamedDetails
  <2>2. QED
    BY <2>1 DEF NameChanges
<1>2. TypesStay(h, g, {})
  BY <1>1 DEF TypesStay, SameArray, Deleted
<1>3. Rooted(g) /\ ArraysKept(g) /\ Merged(g)
  BY <1>2, AllTypesStay DEF OrderlyBut, Merged
<1>4. \A c \in DOMAIN g : g[c].kind = "ANT_CONFIG" => MergedBelow(g, c)
  BY <1>3 DEF Merged
<1>5. \A m \in DOMAIN g \ N : AttributedNode(g, m)
  <2>1. ASSUME NEW m \in DOMAIN h \ N PROVE AttributedNode(g, m)
    <3>1. AttributesStay(h, g, m)
      BY <1>1 DEF AttributesStay, Deleted
    <3>2. AttributedNode(h, m)
      BY DEF OrderlyBut
    <3>3. QED
      BY <3>1, <3>2, AttributedStays
  <2>2. QED
    BY <1>1, <2>1
<1>6. LinesDistinct(g)
  <2>0. SUFFICES ASSUME NEW s, NEW m, NEW o, SameLines(g, s, m, o) PROVE m = o
    BY DistinctIfEach
  <2>1. /\ s \in DOMAIN g /\ g[s].kind = "ANT_SECTION_NAME"
        /\ m \in KidSet(g, s) /\ o \in KidSet(g, s)
        /\ ~Deleted(g, m) /\ ~Deleted(g, o) /\ g[m].name = g[o].name
    BY <2>0 DEF SameLines
  <2>2. /\ s \in DOMAIN h /\ h[s].kind = "ANT_SECTION_NAME"
        /\ m \in KidSet(h, s) /\ o \in KidSet(h, s) /\ KidSet(h, s) \subseteq DOMAIN h
    <3>1. s \in DOMAIN h /\ h[s].kind = "ANT_SECTION_NAME" /\ KidSet(g, s) = KidSet(h, s)
      BY <1>1, <2>1 DEF SameArray, KidSet
    <3>2. TypedNode(h, s)
      BY <3>1, WellFormedUnfolds
    <3>3. QED
      BY <2>1, <3>1, <3>2, KidsFacts
  <2>3. ~Deleted(h, m) /\ ~Deleted(h, o)
    BY <1>1, <2>1, <2>2 DEF Deleted
  <2>4. n \in KidSet(h, s) => h[n].parent = s
    <3>1. ASSUME n \in KidSet(h, s) PROVE h[n].parent = s
      <4>1. n \in KidSet(h, h[n].parent)
        BY DEF WellFormed, ParentsAgree
      <4>2. PICK k \in 1 .. h[s].number : h[s].children[k] = n
        BY <3>1 DEF KidSet
      <4>3. PICK l \in 1 .. h[h[n].parent].number : h[h[n].parent].children[l] = n
        BY <4>1 DEF KidSet
      <4>4. QED
        BY <2>2, <4>2, <4>3 DEF WellFormed, DisjointChildren
    <3>2. QED
      BY <3>1
  <2>5. CASE m # n /\ o # n
    <3>1. h[m].name = h[o].name
      BY <1>1, <2>1, <2>2, <2>5
    <3>2. QED
      BY <2>2, <2>3, <3>1 DEF OrderlyBut, LinesDistinct
  <2>6. CASE m = n
    BY <1>1, <2>1, <2>2, <2>3, <2>4, <2>6
  <2>7. CASE o = n
    BY <1>1, <2>1, <2>2, <2>3, <2>4, <2>7
  <2>8. QED
    BY <2>5, <2>6, <2>7
<1>7. QED
  BY <1>3, <1>4, <1>5, <1>6 DEF OrderlyBut

\* What is left is attributes: a heap that is orderly but for nodes that have theirs.
LEMMA OrderlyWith ==
    ASSUME NEW h, NEW N, OrderlyBut(h, N, {}), \A n \in N : AttributedNode(h, n)
    PROVE  Orderly(h)
<1>1. \A n \in DOMAIN h : AttributedNode(h, n)
  BY DEF OrderlyBut
<1>2. OrderlyBut(h, {}, {})
  BY <1>1 DEF OrderlyBut
<1>3. QED
  BY <1>2, OrderlyParts

-----------------------------------------------------------------------------
(***************************************************************************)
(* A heap that the parser is building.  Some of its nodes wait to be put   *)
(* below others; they are in the pool and in no array.                     *)
(***************************************************************************)

\* Until they are moved, section types and lines are below a sentinel.
BuiltKinds(kind) ==
    IF kind = "ANT_SENTINEL" THEN {"ANT_SECTION_TYPE", "ANT_OPTION", "ANT_LIST"}
    ELSE ChildKinds(kind)

\* What LayeredNode says of a finished node, when the nodes in W wait.
BuiltNode(h, W, n) ==
    /\ \A m \in KidSet(h, n) : h[m].kind \in BuiltKinds(h[n].kind) /\ h[m].parent # Pool
    /\ n \in W => h[n].parent = Pool
    /\ h[n].parent = Pool => n \in W \/ h[n].kind \in PoolKinds
    /\ h[n].kind = "ANT_SENTINEL" /\ n \notin W => h[n].number = 0

Built(h, W) ==
    /\ TypedAst(h)
    /\ Linked(h)
    /\ W \subseteq DOMAIN h
    /\ \A n \in DOMAIN h : BuiltNode(h, W, n)

\* When no node waits, the heap is well-formed.
LEMMA BuiltIsWellFormed ==
    ASSUME NEW h, Built(h, {})
    PROVE  WellFormed(h)
<1>1. \A n \in DOMAIN h : TypedNode(h, n)
  BY TypedUnfolds DEF Built
<1>2. ASSUME NEW n \in DOMAIN h, NEW m \in KidSet(h, n)
      PROVE  h[m].kind \in ChildKinds(h[n].kind)
  <2>1. BuiltNode(h, {}, n)
    BY DEF Built
  <2>2. CASE h[n].kind = "ANT_SENTINEL"
    <3>1. h[n].number = 0
      BY <2>1, <2>2 DEF BuiltNode
    <3>2. QED
      BY <1>2, <3>1 DEF KidSet
  <2>3. CASE h[n].kind # "ANT_SENTINEL"
    BY <1>2, <2>1, <2>3 DEF BuiltNode, BuiltKinds
  <2>4. QED
    BY <2>2, <2>3
<1>3. ASSUME NEW n \in DOMAIN h
      PROVE  /\ h[n].parent \in DOMAIN h => h[n].kind \in ChildKinds(h[h[n].parent].kind)
             /\ h[n].parent = Pool => h[n].kind \in PoolKinds
  <2>1. BuiltNode(h, {}, n) /\ ParentsAgree(h)
    BY DEF Built, Linked
  <2>2. h[n].parent \in DOMAIN h => n \in KidSet(h, h[n].parent)
    BY <2>1 DEF ParentsAgree
  <2>3. QED
    BY <1>2, <2>1, <2>2 DEF BuiltNode
<1>4. LayeredAst(h)
  BY <1>2, <1>3 DEF LayeredAst
<1>5. QED
  BY <1>4 DEF Built, WellFormed, Linked

\* A node that waits is in no array, and its parent is none.
LEMMA WaitingFree ==
    ASSUME NEW h, NEW W, Built(h, W), NEW m \in W
    PROVE  /\ m \in DOMAIN h /\ h[m].parent = Pool
           /\ \A n \in DOMAIN h : m \notin KidSet(h, n)
BY DEF Built, BuiltNode

\* Append of a node.
LEMMA NewNodes ==
    ASSUME NEW h, TypedAst(h), NEW kind, NEW name, NEW value,
           NEW g, g = AstNodeNew(h, kind, name, value)
    PROVE  /\ g = [n \in 1 .. Len(h) + 1 |-> g[n]]
           /\ Len(h) \in Nat /\ DOMAIN h = 1 .. Len(h) /\ DOMAIN g = 1 .. Len(h) + 1
           /\ Len(g) = Len(h) + 1
           /\ g[Len(h) + 1] = NewNode(kind, name, value)
           /\ \A n \in DOMAIN h : g[n] = h[n]
<1> DEFINE x == NewNode(kind, name, value)
<1> DEFINE S == AstNode(DOMAIN h) \cup {x}
<1>1. Len(h) \in Nat /\ DOMAIN h = 1 .. Len(h) /\ h \in Seq(AstNode(DOMAIN h))
  BY TypedUnfolds DEF TypedAst
<1>2. h \in Seq(S) /\ x \in S
  BY <1>1, SeqMonotonic
<1>3. g = Append(h, x)
  BY DEF AstNodeNew
<1> HIDE DEF S, x
<1>4. g \in Seq(S) /\ Len(g) = Len(h) + 1 /\ g[Len(h) + 1] = x /\ \A n \in 1 .. Len(h) : g[n] = h[n]
  BY <1>2, <1>3, AppendProperties
<1>5. DOMAIN g = 1 .. Len(h) + 1 /\ g = [n \in 1 .. Len(h) + 1 |-> g[n]]
  BY <1>4, LenProperties
<1>6. QED
  BY <1>1, <1>4, <1>5 DEF x

\* A function from 1 .. N to typed nodes is a typed heap.
LEMMA TypedFolds ==
    ASSUME NEW h, NEW N \in Nat, h = [n \in 1 .. N |-> h[n]], \A n \in 1 .. N : TypedNode(h, n)
    PROVE  TypedAst(h) /\ Len(h) = N /\ DOMAIN h = 1 .. N
<1>1. DOMAIN h = 1 .. N
  OBVIOUS
<1>2. h \in [1 .. N -> AstNode(DOMAIN h)]
  <2>1. \A n \in 1 .. N : h[n] \in AstNode(DOMAIN h)
    BY DEF TypedNode
  <2>2. QED
    BY <2>1
<1>3. h \in Seq(AstNode(DOMAIN h))
  BY <1>2, SeqDef
<1>4. Len(h) = N
  BY <1>1, <1>3, LenProperties
<1>5. QED
  BY <1>1, <1>3, <1>4 DEF TypedAst, TypedNode

\* A node stays typed when there are more nodes.
LEMMA TypedGrows ==
    ASSUME NEW h, NEW g, DOMAIN h \subseteq DOMAIN g, NEW n \in DOMAIN h, TypedNode(h, n),
           g[n] = h[n]
    PROVE  TypedNode(g, n)
BY NodeGrows DEF TypedNode

\* From h to g node L is new, and waits in the pool.
Creates(h, g, L, x) ==
    /\ L = Len(h) + 1 /\ L \notin DOMAIN h /\ L \in Nat
    /\ DOMAIN g = DOMAIN h \cup {L} /\ Len(g) = L
    /\ g[L] = x
    /\ \A n \in DOMAIN h : g[n] = h[n]

\* ast_node_new keeps a heap that is being built so.
LEMMA NewIsBuilt ==
    ASSUME NEW h, NEW W, Built(h, W), NEW kind \in NodeKinds,
           NEW name \in Strings \cup {NoString}, NEW value \in Strings \cup {NoString},
           kind = "ANT_SECTION_TYPE" => name \in TypeNames,
           NEW L, L = Len(h) + 1,
           NEW g, g = AstNodeNew(h, kind, name, value)
    PROVE  Built(g, W \cup {L}) /\ Creates(h, g, L, NewNode(kind, name, value))
<1> DEFINE x == NewNode(kind, name, value)
<1>1. /\ TypedAst(h) /\ Linked(h) /\ W \subseteq DOMAIN h
      /\ \A n \in DOMAIN h : BuiltNode(h, W, n)
  BY DEF Built
<1>2. \A n \in DOMAIN h : TypedNode(h, n)
  BY <1>1, TypedUnfolds
<1>3. /\ g = [n \in 1 .. L |-> g[n]] /\ Len(h) \in Nat /\ DOMAIN h = 1 .. Len(h)
      /\ DOMAIN g = 1 .. L /\ Len(g) = L /\ g[L] = x /\ \A n \in DOMAIN h : g[n] = h[n]
  BY <1>1, NewNodes
<1>4. /\ DOMAIN g = DOMAIN h \cup {L} /\ L \notin DOMAIN h /\ L \in Nat
      /\ \A n \in DOMAIN g : n \in DOMAIN h \/ n = L
  BY <1>3
<1>5. /\ g[L].kind = kind /\ g[L].name = name /\ g[L].value = value /\ g[L].parent = Pool
      /\ g[L].children = <<>> /\ g[L].number = 0 /\ g[L].unnamed = 0
  BY <1>3 DEF NewNode
<1>6. ASSUME NEW n \in DOMAIN h PROVE KidSet(g, n) = KidSet(h, n) /\ KidSet(h, n) \subseteq DOMAIN h
  <2>1. g[n] = h[n] /\ TypedNode(h, n)
    BY <1>2, <1>3
  <2>2. KidSet(g, n) = KidSet(h, n)
    BY <2>1 DEF KidSet
  <2>3. KidSet(h, n) \subseteq DOMAIN h
    BY <2>1, KidsFacts
  <2>4. QED
    BY <2>2, <2>3
<1>7. KidSet(g, L) = {}
  BY <1>5 DEF KidSet
<1> HIDE DEF x
<1>8. TypedAst(g)
  <2>1. TypedNode(g, L)
    <3>1. <<>> \in Seq(DOMAIN g) /\ Len(<<>>) = 0
      OBVIOUS
    <3>2. x \in AstNode(DOMAIN g)
      BY <3>1 DEF x, NewNode, AstNode
    <3>3. QED
      BY <1>3, <1>5, <3>1, <3>2 DEF TypedNode
  <2>2. \A n \in DOMAIN h : TypedNode(g, n)
    BY <1>2, <1>3, <1>4, TypedGrows
  <2>3. QED
    BY <1>3, <1>4, <2>1, <2>2, TypedFolds
<1>9. Linked(g)
  <2>1. DisjointChildren(g)
    <3>1. ASSUME NEW n \in DOMAIN g, NEW p \in DOMAIN g, NEW k \in 1 .. g[n].number,
                 NEW l \in 1 .. g[p].number, g[n].children[k] = g[p].children[l]
          PROVE  n = p /\ k = l
      <4>1. n \in DOMAIN h /\ p \in DOMAIN h
        BY <1>4, <1>5
      <4>2. g[n] = h[n] /\ g[p] = h[p] /\ DisjointChildren(h)
        BY <1>1, <1>3, <4>1 DEF Linked
      <4>3. k \in 1 .. h[n].number /\ l \in 1 .. h[p].number /\ h[n].children[k] = h[p].children[l]
        BY <3>1, <4>2
      <4>4. QED
        BY <4>1, <4>2, <4>3 DEF DisjointChildren
    <3>2. QED
      BY <3>1 DEF DisjointChildren
  <2>2. ParentsAgree(g)
    <3>1. ASSUME NEW n \in DOMAIN g, g[n].parent \in DOMAIN g
          PROVE  n \in KidSet(g, g[n].parent)
      <4>1. n # L
        BY <1>3, <1>5, <3>1 DEF Pool
      <4>2. n \in DOMAIN h /\ g[n] = h[n]
        BY <1>3, <1>4, <4>1
      <4>3. h[n].parent \in DOMAIN h \cup {NoNode, Pool}
        BY <1>2, <4>2, NodeFields
      <4>4. h[n].parent \in DOMAIN h
        BY <1>3, <3>1, <4>2, <4>3 DEF NoNode, Pool
      <4>5. QED
        BY <1>1, <1>6, <4>2, <4>4 DEF Linked, ParentsAgree
    <3>2. QED
      BY <3>1 DEF ParentsAgree
  <2>3. QED
    BY <2>1, <2>2 DEF Linked
<1>10. ASSUME NEW n \in DOMAIN g PROVE BuiltNode(g, W \cup {L}, n)
  <2>1. CASE n = L
    BY <1>5, <1>7, <2>1 DEF BuiltNode
  <2>2. CASE n \in DOMAIN h
    <3>1. BuiltNode(h, W, n) /\ g[n] = h[n] /\ n # L
      BY <1>1, <1>3, <1>4, <2>2
    <3>2. \A m \in KidSet(g, n) : m \in KidSet(h, n) /\ g[m] = h[m]
      BY <1>3, <1>6, <2>2
    <3>3. QED
      BY <3>1, <3>2 DEF BuiltNode
  <2>3. QED
    BY <1>4, <2>1, <2>2
<1>11. QED
  BY <1>1, <1>3, <1>4, <1>8, <1>9, <1>10 DEF Built, Creates, x

\* The heap before and after node m is put below node p.
Attaches(h, g, p, m) ==
    /\ DOMAIN g = DOMAIN h
    /\ g[p] = Holding(h[p], Append(Kids(h, p), m))
    /\ g[m] = Move(h[m], p)
    /\ \A n \in DOMAIN h \ {p, m} : g[n] = h[n]

\* What ast_node_add does.
LEMMA AttachedNodes ==
    ASSUME NEW h, TypedAst(h), NEW p \in DOMAIN h, NEW m \in DOMAIN h, p # m,
           NEW g, g = AstNodeAdd(h, p, m)
    PROVE  Attaches(h, g, p, m) /\ g = [n \in 1 .. Len(h) |-> g[n]]
<1> DEFINE c == Append(Kids(h, p), m)
<1>1. /\ Len(h) \in Nat /\ DOMAIN h = 1 .. Len(h) /\ h = [n \in DOMAIN h |-> h[n]]
      /\ TypedNode(h, p) /\ TypedNode(h, m)
  BY TypedUnfolds
<1>2. Kids(h, p) \in Seq(DOMAIN h) /\ Len(Kids(h, p)) = h[p].number
  BY <1>1, KidsFacts
<1>3. Len(c) = h[p].number + 1
  BY <1>2, AppendProperties
<1>4. g = [h EXCEPT ![m].parent = p, ![p].children = c, ![p].number = @ + 1]
  BY DEF AstNodeAdd
<1> HIDE DEF c
<1>5. g = [n \in DOMAIN h |-> g[n]] /\ DOMAIN g = DOMAIN h
  BY <1>1, <1>4
<1>6. g[p] = [h[p] EXCEPT !.children = c, !.number = @ + 1]
  BY <1>1, <1>4
<1>7. g[m] = [h[m] EXCEPT !.parent = p]
  BY <1>1, <1>4
<1>8. \A n \in DOMAIN h \ {p, m} : g[n] = h[n]
  BY <1>1, <1>4
<1>9. g[p] = Holding(h[p], c)
  <2>1. h[p] \in AstNode(DOMAIN h)
    BY <1>1 DEF TypedNode
  <2>2. g[p] = [h[p] EXCEPT !.children = c, !.number = Len(c)]
    BY <1>3, <1>6
  <2>3. QED
    BY <2>1, <2>2 DEF AstNode, Holding
<1>10. QED
  BY <1>1, <1>5, <1>7, <1>8, <1>9 DEF Attaches, Move, c

\* The fields of the nodes, and their children.
Below(h, g, p, m) ==
    /\ g[p].number = h[p].number + 1 /\ h[p].number \in Nat
    /\ g[p].children[h[p].number + 1] = m
    /\ \A k \in 1 .. h[p].number : g[p].children[k] = h[p].children[k]
    /\ KidSet(g, p) = KidSet(h, p) \cup {m}
    /\ g[m].parent = p
    /\ \A n \in DOMAIN h : /\ g[n].kind = h[n].kind /\ g[n].name = h[n].name
                           /\ g[n].value = h[n].value /\ g[n].unnamed = h[n].unnamed
    /\ \A n \in DOMAIN h \ {m} : g[n].parent = h[n].parent
    /\ \A n \in DOMAIN h \ {p} : SameArray(h, g, n) /\ KidSet(g, n) = KidSet(h, n)

LEMMA AttachedFields ==
    ASSUME NEW h, TypedAst(h), NEW p \in DOMAIN h, NEW m \in DOMAIN h, p # m,
           NEW g, Attaches(h, g, p, m)
    PROVE  Below(h, g, p, m) /\ TypedNode(g, p) /\ TypedNode(g, m)
<1> DEFINE c == Append(Kids(h, p), m)
<1>1. TypedNode(h, p) /\ TypedNode(h, m) /\ h[p] \in AstNode(DOMAIN h) /\ DOMAIN g = DOMAIN h
  BY TypedUnfolds DEF TypedNode, Attaches
<1>2. /\ Kids(h, p) \in Seq(DOMAIN h) /\ Len(Kids(h, p)) = h[p].number
      /\ \A k \in 1 .. h[p].number : Kids(h, p)[k] = h[p].children[k]
      /\ h[p].number \in Nat
  BY <1>1, KidsFacts, NodeFields
<1>3. /\ c \in Seq(DOMAIN h) /\ Len(c) = h[p].number + 1 /\ c[h[p].number + 1] = m
      /\ \A k \in 1 .. h[p].number : c[k] = h[p].children[k]
  BY <1>2, AppendProperties
<1> HIDE DEF c
<1>4. g[p] = Holding(h[p], c) /\ g[m] = Move(h[m], p)
  BY DEF Attaches, c
<1>5. /\ g[p].number = h[p].number + 1 /\ g[p].children = c /\ g[p].kind = h[p].kind
      /\ g[p].name = h[p].name /\ g[p].value = h[p].value /\ g[p].unnamed = h[p].unnamed
      /\ g[p].parent = h[p].parent
  BY <1>3, <1>4 DEF Holding
<1>6. /\ g[m].number = h[m].number /\ g[m].children = h[m].children /\ g[m].kind = h[m].kind
      /\ g[m].name = h[m].name /\ g[m].value = h[m].value /\ g[m].unnamed = h[m].unnamed
      /\ g[m].parent = p
  <2>1. h[m] = [kind |-> h[m].kind, name |-> h[m].name, value |-> h[m].value,
                parent |-> h[m].parent, children |-> h[m].children,
                number |-> h[m].number, unnamed |-> h[m].unnamed]
    BY <1>1, NodeFields
  <2>2. QED
    BY <1>4, <2>1 DEF Move
<1>7. \A n \in DOMAIN h : n \in DOMAIN h \ {p, m} \/ n = p \/ n = m
  OBVIOUS
<1>8. \A n \in DOMAIN h \ {p, m} : g[n] = h[n]
  BY DEF Attaches
<1>9. TypedNode(g, p)
  <2>1. g[p] \in AstNode(DOMAIN h)
    BY <1>1, <1>3, <1>4, HoldingIsNode
  <2>2. QED
    BY <1>1, <1>3, <1>5, <2>1 DEF TypedNode
<1>10. TypedNode(g, m)
  <2>1. g[m] \in AstNode(DOMAIN h)
    BY <1>1, <1>4 DEF TypedNode, Move, AstNode
  <2>2. QED
    BY <1>1, <1>6, <2>1 DEF TypedNode
<1>11. \A n \in DOMAIN h \ {p} : SameArray(h, g, n)
  BY <1>6, <1>8 DEF SameArray
<1>12. \A n \in DOMAIN h \ {p} : KidSet(g, n) = KidSet(h, n)
  BY <1>11 DEF SameArray, KidSet
<1>13. KidSet(g, p) = KidSet(h, p) \cup {m}
  <2>1. \A k \in 1 .. g[p].number : k \in 1 .. h[p].number \/ k = h[p].number + 1
    BY <1>2, <1>5
  <2>2. \A k \in 1 .. h[p].number : k \in 1 .. g[p].number
    BY <1>2, <1>5
  <2>3. h[p].number + 1 \in 1 .. g[p].number
    BY <1>2, <1>5
  <2>4. QED
    BY <1>3, <1>5, <2>1, <2>2, <2>3 DEF KidSet
<1>14. \A n \in DOMAIN h : /\ g[n].kind = h[n].kind /\ g[n].name = h[n].name
                          /\ g[n].value = h[n].value /\ g[n].unnamed = h[n].unnamed
  BY <1>5, <1>6, <1>8
<1>15. \A n \in DOMAIN h \ {m} : g[n].parent = h[n].parent
  BY <1>5, <1>8
<1>16. QED
  BY <1>2, <1>3, <1>5, <1>6, <1>9, <1>10, <1>11, <1>12, <1>13, <1>14, <1>15 DEF Below

\* ast_node_add of a node that waits keeps a heap that is being built so.
LEMMA AddIsBuilt ==
    ASSUME NEW h, NEW W, Built(h, W), NEW p \in DOMAIN h, NEW m \in W, p # m,
           h[m].kind \in BuiltKinds(h[p].kind), h[p].kind = "ANT_SENTINEL" => p \in W,
           NEW g, g = AstNodeAdd(h, p, m)
    PROVE  /\ Built(g, W \ {m}) /\ Attaches(h, g, p, m) /\ Below(h, g, p, m) /\ Len(g) = Len(h)
<1>1. /\ TypedAst(h) /\ DisjointChildren(h) /\ ParentsAgree(h) /\ W \subseteq DOMAIN h
      /\ \A n \in DOMAIN h : BuiltNode(h, W, n)
  BY DEF Built, Linked
<1>2. /\ \A n \in DOMAIN h : TypedNode(h, n)
      /\ Len(h) \in Nat /\ DOMAIN h = 1 .. Len(h)
  BY <1>1, TypedUnfolds
<1>3. m \in DOMAIN h /\ h[m].parent = Pool /\ \A n \in DOMAIN h : m \notin KidSet(h, n)
  BY WaitingFree
<1>4. Attaches(h, g, p, m) /\ g = [n \in 1 .. Len(h) |-> g[n]]
  BY <1>1, <1>3, AttachedNodes
<1>5. Below(h, g, p, m) /\ TypedNode(g, p) /\ TypedNode(g, m) /\ DOMAIN g = DOMAIN h
  <2>1. DOMAIN g = DOMAIN h
    BY <1>4 DEF Attaches
  <2>2. Below(h, g, p, m) /\ TypedNode(g, p) /\ TypedNode(g, m)
    BY <1>1, <1>3, <1>4, AttachedFields
  <2>3. QED
    BY <2>1, <2>2
<1>6. TypedAst(g) /\ Len(g) = Len(h)
  <2>1. ASSUME NEW n \in DOMAIN h PROVE TypedNode(g, n)
    <3>1. CASE n \in DOMAIN h \ {p, m}
      BY <1>2, <1>4, <1>5, <3>1, TypedGrows DEF Attaches
    <3>2. QED
      BY <1>5, <3>1
  <2>2. QED
    BY <1>2, <1>4, <2>1, TypedFolds
<1>7. /\ g[p].number = h[p].number + 1 /\ h[p].number \in Nat
      /\ g[p].children[h[p].number + 1] = m
      /\ \A k \in 1 .. h[p].number : g[p].children[k] = h[p].children[k]
  BY <1>5 DEF Below
<1>8. KidSet(g, p) = KidSet(h, p) \cup {m} /\ g[m].parent = p
      /\ \A n \in DOMAIN h : g[n].kind = h[n].kind
  BY <1>5 DEF Below
<1>9. \A n \in DOMAIN h \ {m} : g[n].parent = h[n].parent
  BY <1>5 DEF Below
<1>10. \A n \in DOMAIN h \ {p} : SameArray(h, g, n) /\ KidSet(g, n) = KidSet(h, n)
  BY <1>5 DEF Below
<1> DEFINE Old(n, k) == k \in 1 .. h[n].number /\ g[n].children[k] = h[n].children[k]
<1> DEFINE New(n, k) == n = p /\ k = h[p].number + 1 /\ g[n].children[k] = m
<1>11. DisjointChildren(g)
  <2>1. ASSUME NEW n \in DOMAIN h, NEW k \in 1 .. g[n].number PROVE Old(n, k) \/ New(n, k)
    BY <1>7, <1>10 DEF SameArray
  <2>2. SUFFICES ASSUME NEW n \in DOMAIN h, NEW q \in DOMAIN h,
                        NEW k \in 1 .. g[n].number, NEW l \in 1 .. g[q].number,
                        g[n].children[k] = g[q].children[l]
                 PROVE  n = q /\ k = l
    BY <1>5 DEF DisjointChildren
  <2>3. CASE Old(n, k) /\ Old(q, l)
    <3>1. DisjointChildren(h) /\ k \in 1 .. h[n].number /\ l \in 1 .. h[q].number
      BY <1>1, <2>3
    <3>2. h[n].children[k] = h[q].children[l]
      BY <2>2, <2>3
    <3>3. QED
      BY <3>1, <3>2 DEF DisjointChildren
  <2>4. CASE Old(n, k) /\ New(q, l)
    BY <1>3, <2>2, <2>4 DEF KidSet
  <2>5. CASE New(n, k) /\ Old(q, l)
    BY <1>3, <2>2, <2>5 DEF KidSet
  <2>6. CASE New(n, k) /\ New(q, l)
    BY <2>6
  <2>7. Old(n, k) \/ New(n, k)
    BY <2>1
  <2>8. Old(q, l) \/ New(q, l)
    BY <2>1
  <2> HIDE DEF Old, New
  <2>9. QED
    BY <2>3, <2>4, <2>5, <2>6, <2>7, <2>8
<1>12. ParentsAgree(g)
  <2>1. ASSUME NEW n \in DOMAIN h, g[n].parent \in DOMAIN h PROVE n \in KidSet(g, g[n].parent)
    <3>1. CASE n = m
      BY <1>8, <3>1
    <3>2. CASE n # m
      <4>1. n \in KidSet(h, h[n].parent)
        BY <1>1, <1>9, <2>1, <3>2 DEF ParentsAgree
      <4>2. QED
        BY <1>8, <1>9, <1>10, <2>1, <3>2, <4>1
    <3>3. QED
      BY <3>1, <3>2
  <2>2. QED
    BY <1>5, <2>1 DEF ParentsAgree
<1>13. ASSUME NEW n \in DOMAIN h PROVE BuiltNode(g, W \ {m}, n)
  <2>0. BuiltNode(h, W, n) /\ p # Pool /\ KidSet(h, n) \subseteq DOMAIN h /\ m \notin KidSet(h, n)
    BY <1>1, <1>2, <1>3, KidsFacts DEF Pool
  <2>1. \A i \in KidSet(h, n) : g[i].kind \in BuiltKinds(g[n].kind) /\ g[i].parent # Pool
    BY <1>8, <1>9, <2>0 DEF BuiltNode
  <2>2. \A i \in KidSet(g, n) : g[i].kind \in BuiltKinds(g[n].kind) /\ g[i].parent # Pool
    <3>1. CASE n = p
      BY <1>3, <1>8, <2>0, <2>1, <3>1
    <3>2. CASE n # p
      BY <1>10, <2>1, <3>2
    <3>3. QED
      BY <3>1, <3>2
  <2>3. n \in W \ {m} => g[n].parent = Pool
    BY <1>9, <2>0 DEF BuiltNode
  <2>4. g[n].parent = Pool => n \in W \ {m} \/ g[n].kind \in PoolKinds
    BY <1>8, <1>9, <2>0 DEF BuiltNode
  <2>5. g[n].kind = "ANT_SENTINEL" /\ n \notin W \ {m} => g[n].number = 0
    <3>0. "ANT_SENTINEL" \notin BuiltKinds(h[p].kind)
      BY DEF BuiltKinds, ChildKinds
    <3>1. CASE n = m
      BY <1>8, <3>0, <3>1
    <3>2. CASE n = p
      BY <1>8, <3>2
    <3>3. CASE n # m /\ n # p
      BY <1>8, <1>10, <2>0, <3>3 DEF BuiltNode, SameArray
    <3>4. QED
      BY <3>1, <3>2, <3>3
  <2>6. QED
    BY <2>2, <2>3, <2>4, <2>5 DEF BuiltNode
<1>14. QED
  BY <1>1, <1>4, <1>5, <1>6, <1>11, <1>12, <1>13 DEF Built, Linked

\* From h to g the children of node s become those of node d, which had none.
Transfers(h, g, d, s) ==
    /\ DOMAIN g = DOMAIN h
    /\ \A n \in DOMAIN h : g[n].kind = h[n].kind /\ g[n].name = h[n].name /\ g[n].value = h[n].value
    /\ g[d].children = h[s].children /\ g[d].number = h[s].number
    /\ g[d].parent = h[d].parent /\ g[d].unnamed = h[s].unnamed
    /\ g[s].children = <<>> /\ g[s].number = 0 /\ g[s].parent = h[s].parent
    /\ \A m \in KidSet(h, s) : g[m] = Move(h[m], d) /\ SameArray(h, g, m) /\ g[m].parent = d
    /\ \A n \in DOMAIN h : n \notin {d, s} /\ n \notin KidSet(h, s) => g[n] = h[n]
    /\ KidSet(g, d) = KidSet(h, s) /\ KidSet(g, s) = {}
    /\ \A n \in DOMAIN h \ {d, s} : SameArray(h, g, n) /\ KidSet(g, n) = KidSet(h, n)

\* What ast_node_move does.
LEMMA TransferNodes ==
    ASSUME NEW h, TypedAst(h), NEW d \in DOMAIN h, NEW s \in DOMAIN h, d # s,
           d \notin KidSet(h, s), s \notin KidSet(h, s),
           NEW g, g = AstNodeMove(h, d, s)
    PROVE  /\ Transfers(h, g, d, s) /\ g = [n \in 1 .. Len(h) |-> g[n]]
           /\ \A n \in DOMAIN h : TypedNode(g, n)
<1>1. /\ Len(h) \in Nat /\ DOMAIN h = 1 .. Len(h) /\ h = [n \in DOMAIN h |-> h[n]]
      /\ \A n \in DOMAIN h : TypedNode(h, n)
  BY TypedUnfolds
<1>2. /\ \A n \in DOMAIN h : /\ h[n].number \in Nat /\ h[n].unnamed \in Nat
                             /\ h[n].children \in Seq(DOMAIN h) /\ h[n].number <= Len(h[n].children)
      /\ KidSet(h, s) \subseteq DOMAIN h
  BY <1>1, NodeFields, KidsFacts
<1> DEFINE f == [m \in DOMAIN h |-> IF m \in KidSet(h, s)
                         THEN [h[m] EXCEPT !.parent = d] ELSE h[m]]
<1>3. g = [f EXCEPT ![d].children = h[s].children,
                    ![d].number   = h[s].number,
                    ![d].unnamed  = h[s].unnamed,
                    ![s].children = <<>>,
                    ![s].number   = 0,
                    ![s].unnamed  = 0]
  BY DEF AstNodeMove
<1>4. /\ f = [n \in DOMAIN h |-> f[n]]
      /\ \A m \in KidSet(h, s) : f[m] = Move(h[m], d)
      /\ \A m \in DOMAIN h : m \notin KidSet(h, s) => f[m] = h[m]
  BY <1>2 DEF Move
<1> HIDE DEF f
<1>5. g = [n \in DOMAIN h |-> g[n]] /\ DOMAIN g = DOMAIN h
  BY <1>3, <1>4
<1>6. /\ g[d] = [h[d] EXCEPT !.children = h[s].children, !.number = h[s].number,
                             !.unnamed = h[s].unnamed]
      /\ g[s] = [h[s] EXCEPT !.children = <<>>, !.number = 0, !.unnamed = 0]
  <2>1. f[d] = h[d] /\ f[s] = h[s]
    BY <1>4
  <2>2. g[d] = [f[d] EXCEPT !.children = h[s].children, !.number = h[s].number,
                            !.unnamed = h[s].unnamed]
    BY <1>3, <1>4
  <2>3. g[s] = [f[s] EXCEPT !.children = <<>>, !.number = 0, !.unnamed = 0]
    BY <1>3, <1>4
  <2>4. QED
    BY <2>1, <2>2, <2>3
<1>7. \A m \in KidSet(h, s) : g[m] = Move(h[m], d)
  BY <1>2, <1>3, <1>4
<1>8. \A n \in DOMAIN h : n \notin {d, s} /\ n \notin KidSet(h, s) => g[n] = h[n]
  BY <1>3, <1>4
<1>9. /\ g[d].children = h[s].children /\ g[d].number = h[s].number
      /\ g[d].unnamed = h[s].unnamed /\ g[d].parent = h[d].parent
      /\ g[d].kind = h[d].kind /\ g[d].name = h[d].name /\ g[d].value = h[d].value
      /\ g[d] \in AstNode(DOMAIN h)
  BY ZenonT(30), <1>1, <1>2, <1>6 DEF TypedNode, AstNode
<1>10. /\ g[s].children = <<>> /\ g[s].number = 0 /\ g[s].parent = h[s].parent
       /\ g[s].kind = h[s].kind /\ g[s].name = h[s].name /\ g[s].value = h[s].value
       /\ g[s] \in AstNode(DOMAIN h)
  <2>1. <<>> \in Seq(DOMAIN h) /\ h[s] \in AstNode(DOMAIN h)
    BY <1>1 DEF TypedNode
  <2>2. /\ g[s].children = <<>> /\ g[s].number = 0 /\ g[s].parent = h[s].parent
        /\ g[s].kind = h[s].kind /\ g[s].name = h[s].name /\ g[s].value = h[s].value
    BY <1>6, <2>1 DEF AstNode
  <2>3. g[s] \in AstNode(DOMAIN h)
    <3>1. ASSUME NEW e \in Seq(DOMAIN h), NEW r, r = [h[s] EXCEPT !.children = e, !.number = 0, !.unnamed = 0]
          PROVE  r \in AstNode(DOMAIN h)
      BY <2>1, <3>1 DEF AstNode
    <3>2. QED
      BY <1>6, <2>1, <3>1
  <2>4. QED
    BY <2>2, <2>3
<1>11. ASSUME NEW m \in KidSet(h, s)
       PROVE  /\ SameArray(h, g, m) /\ g[m].parent = d
              /\ g[m].kind = h[m].kind /\ g[m].name = h[m].name /\ g[m].value = h[m].value
              /\ g[m] \in AstNode(DOMAIN h)
  <2>1. h[m] \in AstNode(DOMAIN h) /\ g[m] = Move(h[m], d)
    BY <1>1, <1>2, <1>7 DEF TypedNode
  <2>2. QED
    BY <2>1 DEF AstNode, Move, SameArray
<1>12. \A n \in DOMAIN h \ {d, s} : SameArray(h, g, n)
  BY <1>8, <1>11 DEF SameArray
<1>13. \A n \in DOMAIN h \ {d, s} : KidSet(g, n) = KidSet(h, n)
  BY <1>12 DEF SameArray, KidSet
<1>14. KidSet(g, d) = KidSet(h, s) /\ KidSet(g, s) = {}
  BY <1>9, <1>10 DEF KidSet
<1>15. \A n \in DOMAIN h : g[n].kind = h[n].kind /\ g[n].name = h[n].name /\ g[n].value = h[n].value
  BY <1>8, <1>9, <1>10, <1>11
<1>16. ASSUME NEW n \in DOMAIN h PROVE TypedNode(g, n)
  <2>1. g[n] \in AstNode(DOMAIN h)
    <3>1. CASE n \notin {d, s} /\ n \notin KidSet(h, s)
      BY <1>1, <1>8, <3>1 DEF TypedNode
    <3>2. QED
      BY <1>9, <1>10, <1>11, <3>1
  <2>2. g[n].number <= Len(g[n].children)
    <3>1. CASE n = d
      BY <1>2, <1>9, <3>1
    <3>2. CASE n = s
      BY <1>10, <3>2
    <3>3. CASE n \in DOMAIN h \ {d, s}
      BY <1>2, <1>12, <3>3 DEF SameArray
    <3>4. QED
      BY <3>1, <3>2, <3>3
  <2>3. g[n].kind = "ANT_SECTION_TYPE" => g[n].name \in TypeNames \cup {NoString}
    BY <1>1, <1>15 DEF TypedNode
  <2>4. QED
    BY <1>5, <2>1, <2>2, <2>3 DEF TypedNode
<1>17. QED
  BY <1>1, <1>5, <1>7, <1>8, <1>9, <1>10, <1>11, <1>12, <1>13, <1>14, <1>15, <1>16 DEF Transfers

\* ast_node_move from a sentinel that waits keeps a heap that is being built so; the
\* sentinel is then empty and waits no more.
LEMMA MoveIsBuilt ==
    ASSUME NEW h, NEW W, Built(h, W), NEW d \in DOMAIN h, NEW s \in W, d # s,
           h[s].kind = "ANT_SENTINEL", h[d].number = 0,
           h[d].kind \notin {"ANT_SENTINEL", "ANT_SECTION_TYPE", "ANT_OPTION", "ANT_LIST"},
           \A m \in KidSet(h, s) : h[m].kind \in BuiltKinds(h[d].kind),
           NEW g, g = AstNodeMove(h, d, s)
    PROVE  Built(g, W \ {s}) /\ Transfers(h, g, d, s) /\ Len(g) = Len(h)
<1>1. /\ TypedAst(h) /\ DisjointChildren(h) /\ ParentsAgree(h) /\ W \subseteq DOMAIN h
      /\ \A n \in DOMAIN h : BuiltNode(h, W, n)
  BY DEF Built, Linked
<1>2. /\ \A n \in DOMAIN h : TypedNode(h, n)
      /\ Len(h) \in Nat /\ DOMAIN h = 1 .. Len(h)
  BY <1>1, TypedUnfolds
<1>3. s \in DOMAIN h /\ h[s].parent = Pool /\ \A n \in DOMAIN h : s \notin KidSet(h, n)
  BY WaitingFree
<1>4. d \notin KidSet(h, s)
  <2>1. \A m \in KidSet(h, s) : h[m].kind \in BuiltKinds("ANT_SENTINEL")
    BY <1>1, <1>3 DEF BuiltNode
  <2>2. QED
    BY <2>1 DEF BuiltKinds
<1>5. Transfers(h, g, d, s) /\ g = [n \in 1 .. Len(h) |-> g[n]]
      /\ \A n \in DOMAIN h : TypedNode(g, n)
  BY <1>1, <1>3, <1>4, TransferNodes
<1>6. TypedAst(g) /\ Len(g) = Len(h)
  BY <1>2, <1>5, TypedFolds
<1>7. /\ DOMAIN g = DOMAIN h
      /\ \A n \in DOMAIN h : g[n].kind = h[n].kind
      /\ g[d].children = h[s].children /\ g[d].number = h[s].number
      /\ g[d].parent = h[d].parent
      /\ g[s].number = 0 /\ g[s].parent = h[s].parent
  BY <1>5 DEF Transfers
<1>8. \A m \in KidSet(h, s) : g[m].parent = d
  BY <1>5 DEF Transfers
<1>9. \A n \in DOMAIN h \ {d, s} : SameArray(h, g, n) /\ KidSet(g, n) = KidSet(h, n)
  BY <1>5 DEF Transfers
<1>10. KidSet(g, d) = KidSet(h, s) /\ KidSet(g, s) = {}
  BY <1>5 DEF Transfers
<1>11. \A n \in DOMAIN h : n \notin KidSet(h, s) => g[n].parent = h[n].parent
  <2>1. \A n \in DOMAIN h : n \notin {d, s} /\ n \notin KidSet(h, s) => g[n] = h[n]
    BY <1>5 DEF Transfers
  <2>2. QED
    BY <1>7, <2>1
<1> DEFINE From(n) == IF n = d THEN s ELSE n
<1>12. DisjointChildren(g)
  <2>1. ASSUME NEW n \in DOMAIN h, NEW k \in 1 .. g[n].number
        PROVE  /\ From(n) \in DOMAIN h /\ n # s /\ k \in 1 .. h[From(n)].number
               /\ g[n].children[k] = h[From(n)].children[k]
    BY <1>3, <1>7, <1>9 DEF SameArray
  <2>2. SUFFICES ASSUME NEW n \in DOMAIN h, NEW q \in DOMAIN h,
                        NEW k \in 1 .. g[n].number, NEW l \in 1 .. g[q].number,
                        g[n].children[k] = g[q].children[l]
                 PROVE  n = q /\ k = l
    BY <1>7 DEF DisjointChildren
  <2>3. /\ From(n) \in DOMAIN h /\ n # s /\ k \in 1 .. h[From(n)].number
        /\ g[n].children[k] = h[From(n)].children[k]
    BY <2>1
  <2>4. /\ From(q) \in DOMAIN h /\ q # s /\ l \in 1 .. h[From(q)].number
        /\ g[q].children[l] = h[From(q)].children[l]
    BY <2>1
  <2>5. From(n) = From(q) => n = q
    BY <2>3, <2>4
  <2>6. h[From(n)].children[k] = h[From(q)].children[l]
    BY <2>2, <2>3, <2>4
  <2> HIDE DEF From
  <2>7. From(n) = From(q) /\ k = l
    BY <1>1, <2>3, <2>4, <2>6 DEF DisjointChildren
  <2>8. QED
    BY <2>5, <2>7
<1>13. ParentsAgree(g)
  <2>1. ASSUME NEW n \in DOMAIN h, g[n].parent \in DOMAIN h PROVE n \in KidSet(g, g[n].parent)
    <3>1. CASE n \in KidSet(h, s)
      BY <1>8, <1>10, <3>1
    <3>2. CASE n \notin KidSet(h, s)
      <4>1. n \in KidSet(h, h[n].parent) /\ h[n].parent \in DOMAIN h /\ g[n].parent = h[n].parent
        BY <1>1, <1>11, <2>1, <3>2 DEF ParentsAgree
      <4>2. KidSet(h, d) = {}
        BY DEF KidSet
      <4>3. QED
        BY <1>9, <3>2, <4>1, <4>2
    <3>3. QED
      BY <3>1, <3>2
  <2>2. QED
    BY <1>7, <2>1 DEF ParentsAgree
<1>14. ASSUME NEW n \in DOMAIN h PROVE BuiltNode(g, W \ {s}, n)
  <2>0. BuiltNode(h, W, n) /\ d # Pool /\ KidSet(h, n) \subseteq DOMAIN h
        /\ KidSet(h, s) \subseteq DOMAIN h /\ BuiltNode(h, W, s)
    BY <1>1, <1>2, <1>3, KidsFacts DEF Pool
  <2>1. \A i \in DOMAIN h : h[i].parent # Pool => g[i].parent # Pool
    BY <1>8, <1>11, <2>0
  <2>2. \A i \in KidSet(g, n) : g[i].kind \in BuiltKinds(g[n].kind) /\ g[i].parent # Pool
    <3>1. CASE n = d
      BY <1>7, <1>8, <1>10, <2>0, <3>1
    <3>2. CASE n = s
      BY <1>10, <3>2
    <3>3. CASE n \in DOMAIN h \ {d, s}
      BY <1>7, <1>9, <2>0, <2>1, <3>3 DEF BuiltNode
    <3>4. QED
      BY <3>1, <3>2, <3>3
  <2>3. n \in W \ {s} => g[n].parent = Pool
    <3>1. n \in W => n \notin KidSet(h, s)
      BY <1>3, WaitingFree
    <3>2. QED
      BY <1>11, <2>0, <3>1 DEF BuiltNode
  <2>4. g[n].parent = Pool => n \in W \ {s} \/ g[n].kind \in PoolKinds
    BY <1>7, <2>0, <2>1 DEF BuiltNode, PoolKinds
  <2>5. g[n].kind = "ANT_SENTINEL" /\ n \notin W \ {s} => g[n].number = 0
    <3>1. CASE n = s
      BY <1>7, <3>1
    <3>2. CASE n \in DOMAIN h \ {d, s}
      BY <1>7, <1>9, <2>0, <3>2 DEF BuiltNode, SameArray
    <3>3. CASE n = d
      BY <1>7, <3>3
    <3>4. QED
      BY <3>1, <3>2, <3>3
  <2>6. QED
    BY <2>2, <2>3, <2>4, <2>5 DEF BuiltNode
<1>15. QED
  BY <1>1, <1>5, <1>6, <1>7, <1>12, <1>13, <1>14 DEF Built, Linked

-----------------------------------------------------------------------------
(***************************************************************************)
(* The merge of the lines of a section that is being built.                *)
(***************************************************************************)

\* Array all is array s with array i behind it.
Joins(all, s, i, S) ==
    /\ all \in Seq(S) /\ Len(all) \in Nat /\ Len(all) = Len(s) + Len(i) /\ Len(i) \in Nat
    /\ \A k \in 1 .. Len(s) : all[k] = s[k]
    /\ \A k \in 1 .. Len(i) : all[Len(s) + k] = i[k]

LEMMA JoinedArray ==
    ASSUME NEW S, NEW s \in Seq(S), NEW i \in Seq(S), NEW all, all = s \o i
    PROVE  Joins(all, s, i, S)
<1>1. /\ s \o i \in Seq(S) /\ Len(s \o i) = Len(s) + Len(i) /\ Len(s) \in Nat /\ Len(i) \in Nat
      /\ \A k \in 1 .. Len(s) : (s \o i)[k] = s[k]
      /\ \A k \in 1 .. Len(i) : (s \o i)[Len(s) + k] = i[k]
  BY Joined
<1>2. QED
  BY <1>1 DEF Joins

\* What the merge makes of node m, where the children of c may be of any kind.
Merges(h, g, kids, m) ==
    /\ g[m].kind = h[m].kind /\ g[m].name = h[m].name /\ g[m].value = h[m].value
    /\ m \in Twins(h, kids) => g[m].parent = NoNode /\ g[m].number = 0
    /\ Inherits(h, kids, m) =>
          /\ g[m].parent = h[m].parent
          /\ \A n \in KidSet(g, m) : n \in KidSet(h, m) \/ Orphan(h, kids, n)
    /\ Orphan(h, kids, m) => g[m].parent \in DOMAIN h /\ SameArray(h, g, m)
    /\ m \notin Twins(h, kids) /\ ~ Inherits(h, kids, m) /\ ~ Orphan(h, kids, m) => g[m] = h[m]

LEMMA MergedFields ==
    ASSUME NEW h, TypedAst(h), Linked(h), NEW c \in DOMAIN h, Apart(h, c),
           NEW g, g = AstNodeMerge(h, c), NEW m \in DOMAIN h
    PROVE  TypedNode(g, m) /\ Merges(h, g, Kids(h, c), m)
<1> DEFINE kids == Kids(h, c)
<1> DEFINE twins == Twins(h, kids)
<1> DEFINE all == Endowed(h, kids, m)
<1>1. \A n \in DOMAIN h : TypedNode(h, n)
  BY TypedUnfolds
<1>2. /\ g = [n \in DOMAIN h |-> g[n]] /\ DOMAIN g = DOMAIN h
      /\ kids \in Seq(DOMAIN h) /\ twins \subseteq Range(kids)
      /\ Range(kids) = KidSet(h, c) /\ KidSet(h, c) \subseteq DOMAIN h
      /\ Orphan(h, kids, m) => m \notin KidSet(h, c)
  BY MergedArms
<1>3. /\ m \in twins => g[m] = Emptied(h[m])
      /\ Inherits(h, kids, m) => g[m] = Endow(h[m], all)
      /\ Orphan(h, kids, m) => g[m] = Move(h[m], NewParent(h, kids, m))
      /\ m \notin twins /\ ~ Inherits(h, kids, m) /\ ~ Orphan(h, kids, m) => g[m] = h[m]
  BY MergedArms
<1>4. /\ h[m] \in AstNode(DOMAIN h) /\ h[m].number <= Len(h[m].children)
      /\ h[m].kind = "ANT_SECTION_TYPE" => h[m].name \in TypeNames \cup {NoString}
      /\ h[m].children \in Seq(DOMAIN h) /\ h[m].number \in Nat /\ Len(h[m].children) \in Nat
  BY <1>1, NodeFields, LenProperties DEF TypedNode
<1>5. Inherits(h, kids, m) => m \notin twins /\ m \in KidSet(h, c)
  BY <1>2 DEF Inherits
<1> HIDE DEF twins, kids, all
<1>6. CASE m \in twins
  <2>1. g[m] = [h[m] EXCEPT !.parent = NoNode, !.number = 0, !.unnamed = 0]
    BY <1>3, <1>6 DEF Emptied
  <2>2. /\ g[m] \in AstNode(DOMAIN h) /\ g[m].kind = h[m].kind /\ g[m].name = h[m].name
        /\ g[m].value = h[m].value /\ g[m].children = h[m].children /\ g[m].number = 0
        /\ g[m].parent = NoNode
    <3> DEFINE r == h[m]
    <3>1. r = [kind |-> r.kind, name |-> r.name, value |-> r.value, parent |-> r.parent,
               children |-> r.children, number |-> r.number, unnamed |-> r.unnamed]
      BY <1>4 DEF AstNode
    <3>2. g[m] = [kind |-> r.kind, name |-> r.name, value |-> r.value, parent |-> NoNode,
                  children |-> r.children, number |-> 0, unnamed |-> 0]
      BY <2>1, <3>1
    <3>3. QED
      BY <1>4, <3>2 DEF AstNode
  <2>3. ~ Orphan(h, kids, m) /\ ~ Inherits(h, kids, m)
    BY <1>2, <1>5, <1>6
  <2>4. TypedNode(g, m)
    BY <1>2, <1>4, <2>2 DEF TypedNode
  <2>5. QED
    BY <1>6, <2>2, <2>3, <2>4 DEF Merges, kids, twins
<1>7. CASE Inherits(h, kids, m)
  <2>1. Kids(h, m) \in Seq(DOMAIN h) /\ Len(Kids(h, m)) = h[m].number
        /\ \A k \in 1 .. h[m].number : Kids(h, m)[k] \in KidSet(h, m)
    <3>1. TypedNode(h, m)
      BY <1>1
    <3>2. Kids(h, m) \in Seq(DOMAIN h) /\ Len(Kids(h, m)) = h[m].number
      BY <3>1, KidsFacts
    <3>3. KidSet(h, m) = {Kids(h, m)[k] : k \in 1 .. h[m].number}
      BY <3>1, KidsFacts
    <3>4. QED
      BY <3>2, <3>3
  <2> DEFINE i == Inherited(h, kids, m)
  <2>2. i \in Seq(DOMAIN h) /\ \A p \in 1 .. Len(i) : Orphan(h, kids, i[p])
    <3>1. \A j, k \in DOMAIN kids : kids[j] = kids[k] => j = k
      <4>1. /\ DOMAIN kids = 1 .. h[c].number
            /\ \A k \in 1 .. h[c].number : kids[k] = h[c].children[k]
        BY <1>1, KidsFacts DEF kids
      <4>2. QED
        BY <4>1 DEF Linked, DisjointChildren
    <3>2. i \in Seq(DOMAIN h) /\ HoldsChildrenOf(h, kids, m, i)
      BY <1>2, <3>1, InheritedEntries DEF Linked
    <3>3. QED
      BY <3>2 DEF HoldsChildrenOf, Orphan, KidSet
  <2> HIDE DEF i
  <2>3. all = Kids(h, m) \o i
    BY DEF all, i, Endowed
  <2>4. /\ all \in Seq(DOMAIN h) /\ Len(all) \in Nat /\ Len(all) = h[m].number + Len(i) /\ Len(i) \in Nat
        /\ \A k \in 1 .. h[m].number : all[k] = Kids(h, m)[k]
        /\ \A k \in 1 .. Len(i) : all[h[m].number + k] = i[k]
    <3> DEFINE s == Kids(h, m)
    <3> DEFINE S == DOMAIN h
    <3>1. i \in Seq(S) /\ s \in Seq(S) /\ all = s \o i /\ Len(s) = h[m].number
      BY <2>1, <2>2, <2>3
    <3> HIDE DEF s, S
    <3>2. Joins(all, s, i, S)
      BY <3>1, JoinedArray
    <3>3. QED
      BY <3>1, <3>2 DEF Joins, s, S
  <2>5. g[m] = [h[m] EXCEPT !.children = all, !.number = Len(all)]
    BY <1>3, <1>7 DEF Endow
  <2>6. /\ g[m] \in AstNode(DOMAIN h) /\ g[m].kind = h[m].kind /\ g[m].name = h[m].name
        /\ g[m].value = h[m].value /\ g[m].children = all /\ g[m].number = Len(all)
        /\ g[m].parent = h[m].parent
    <3> DEFINE r == h[m]
    <3>1. r = [kind |-> r.kind, name |-> r.name, value |-> r.value, parent |-> r.parent,
               children |-> r.children, number |-> r.number, unnamed |-> r.unnamed]
      BY <1>4 DEF AstNode
    <3>2. g[m] = [kind |-> r.kind, name |-> r.name, value |-> r.value, parent |-> r.parent,
                  children |-> all, number |-> Len(all), unnamed |-> r.unnamed]
      BY <2>5, <3>1
    <3>3. QED
      BY <1>4, <2>4, <3>2 DEF AstNode
  <2>7. ASSUME NEW k \in 1 .. Len(all) PROVE all[k] \in KidSet(h, m) \/ Orphan(h, kids, all[k])
    <3>1. CASE k <= h[m].number
      BY <1>4, <2>1, <2>4, <3>1
    <3>2. CASE k > h[m].number
      <4>1. k - h[m].number \in 1 .. Len(i) /\ k = h[m].number + (k - h[m].number)
        BY <1>4, <2>4, <3>2
      <4>2. QED
        BY <2>2, <2>4, <4>1
    <3>3. QED
      BY <1>4, <3>1, <3>2
  <2>8. \A n \in KidSet(g, m) : n \in KidSet(h, m) \/ Orphan(h, kids, n)
    BY <2>6, <2>7 DEF KidSet
  <2>9. ~ Orphan(h, kids, m) /\ m \notin twins
    BY <1>2, <1>5, <1>7
  <2>10. TypedNode(g, m)
    BY <1>2, <1>4, <2>4, <2>6 DEF TypedNode
  <2>11. QED
    BY <1>7, <2>6, <2>8, <2>9, <2>10 DEF Merges, kids, twins
<1>8. CASE Orphan(h, kids, m)
  <2> DEFINE t == CHOOSE t \in twins : m \in KidSet(h, t)
  <2>1. t \in Range(kids) /\ NewParent(h, kids, m) = Heir(h, kids, t)
    BY <1>2, <1>8 DEF Orphan, NewParent, twins
  <2>2. NewParent(h, kids, m) \in DOMAIN h
    <3> HIDE DEF t
    <3>1. QED
      BY <1>2, <2>1, HeirFacts
  <2>3. g[m] = [h[m] EXCEPT !.parent = NewParent(h, kids, m)]
    BY <1>3, <1>8 DEF Move
  <2>4. /\ g[m] \in AstNode(DOMAIN h) /\ g[m].kind = h[m].kind /\ g[m].name = h[m].name
        /\ g[m].value = h[m].value /\ g[m].children = h[m].children /\ g[m].number = h[m].number
        /\ g[m].parent \in DOMAIN h
    BY <1>4, <2>2, <2>3 DEF AstNode
  <2>5. m \notin twins /\ ~ Inherits(h, kids, m)
    BY <1>2, <1>5, <1>8
  <2>6. TypedNode(g, m)
    BY <1>2, <1>4, <2>4 DEF TypedNode
  <2>7. QED
    BY <1>8, <2>4, <2>5, <2>6 DEF Merges, SameArray, kids, twins
<1>9. CASE m \notin twins /\ ~ Inherits(h, kids, m) /\ ~ Orphan(h, kids, m)
  <2>1. g[m] = h[m]
    BY <1>3, <1>9
  <2>2. TypedNode(g, m)
    BY <1>2, <1>4, <2>1 DEF TypedNode
  <2>3. QED
    BY <1>9, <2>1, <2>2 DEF Merges, kids, twins
<1>10. QED
  BY <1>6, <1>7, <1>8, <1>9

\* Of the live children of node s no two have the same name.
DistinctBelow(h, s) ==
    \A m, n \in KidSet(h, s) :
        ~Deleted(h, m) /\ ~Deleted(h, n) /\ h[m].name = h[n].name => m = n

\* From h to g the lines of section c are merged.
MergesLines(h, g, c) ==
    /\ DOMAIN g = DOMAIN h
    /\ \A n \in DOMAIN h : g[n].kind = h[n].kind /\ g[n].name = h[n].name /\ g[n].value = h[n].value
    /\ \A n \in DOMAIN h : n \notin KidSet(h, c) /\ h[n].kind # "ANT_LIST_ITEM" => g[n] = h[n]
    /\ \A n \in KidSet(h, c) : h[n].kind \in {"ANT_OPTION", "ANT_LIST"}
    /\ DistinctBelow(g, c)

\* ast_node_merge of the lines of a section keeps a heap that is being built so, leaves
\* what waits alone, and makes the names of the lines distinct.
LEMMA LinesAreBuilt ==
    ASSUME NEW h, NEW W, Built(h, W), NEW c \in DOMAIN h, h[c].kind = "ANT_SECTION_NAME",
           \A m \in KidSet(h, c) : h[m].name # NoString,
           NEW g, g = AstNodeMerge(h, c)
    PROVE  /\ Built(g, W) /\ MergesLines(h, g, c) /\ Len(g) = Len(h)
           /\ \A n \in W : g[n] = h[n]
<1> DEFINE kids == Kids(h, c)
<1> DEFINE twins == Twins(h, kids)
<1>1. /\ TypedAst(h) /\ Linked(h) /\ W \subseteq DOMAIN h
      /\ \A n \in DOMAIN h : BuiltNode(h, W, n)
  BY DEF Built
<1>2. /\ \A n \in DOMAIN h : TypedNode(h, n)
      /\ Len(h) \in Nat /\ DOMAIN h = 1 .. Len(h)
  BY <1>1, TypedUnfolds
<1>3. /\ KidSet(h, c) \subseteq DOMAIN h
      /\ \A t \in KidSet(h, c) : h[t].kind \in {"ANT_OPTION", "ANT_LIST"}
  <2>1. BuiltNode(h, W, c) /\ KidSet(h, c) \subseteq DOMAIN h
    BY <1>1, <1>2, KidsFacts
  <2>2. QED
    BY <2>1 DEF BuiltNode, BuiltKinds, ChildKinds
<1>4. \A t \in KidSet(h, c) : \A m \in KidSet(h, t) : h[m].kind = "ANT_LIST_ITEM"
  <2>1. ASSUME NEW t \in KidSet(h, c), NEW m \in KidSet(h, t) PROVE h[m].kind = "ANT_LIST_ITEM"
    <3>1. BuiltNode(h, W, t)
      BY <1>1, <1>3
    <3>2. QED
      BY <1>3, <3>1 DEF BuiltNode, BuiltKinds, ChildKinds
  <2>2. QED
    BY <2>1
<1>5. Apart(h, c)
  BY <1>3, <1>4 DEF Apart
<1>6. /\ g = [n \in DOMAIN h |-> g[n]] /\ DOMAIN g = DOMAIN h
      /\ kids \in Seq(DOMAIN h) /\ twins \subseteq Range(kids) /\ Range(kids) = KidSet(h, c)
      /\ \A m : Orphan(h, kids, m) => m \in DOMAIN h /\ m \notin KidSet(h, c)
  BY <1>1, <1>5, MergedArms
<1>7. \A m \in DOMAIN h : TypedNode(g, m) /\ Merges(h, g, kids, m)
  BY <1>1, <1>5, MergedFields
<1>8. Linked(g)
  BY <1>1, <1>5, MergedLinks
<1>9. TypedAst(g) /\ Len(g) = Len(h)
  BY <1>2, <1>6, <1>7, TypedFolds
<1> HIDE DEF kids, twins
<1>10. \A m \in DOMAIN h : /\ Inherits(h, kids, m) => m \in KidSet(h, c)
                           /\ Orphan(h, kids, m) => h[m].kind = "ANT_LIST_ITEM"
                           /\ Orphan(h, kids, m) => \E t \in DOMAIN h : m \in KidSet(h, t)
  BY <1>3, <1>4, <1>6 DEF Inherits, Orphan, twins
<1>11. ASSUME NEW n \in DOMAIN h, n \notin KidSet(h, c), ~ Orphan(h, kids, n) PROVE g[n] = h[n]
  BY <1>6, <1>7, <1>10, <1>11 DEF Merges, twins
<1>12. \A n \in W : g[n] = h[n] /\ n \in DOMAIN h
  <2>1. \A n \in W : n \in DOMAIN h /\ n \notin KidSet(h, c) /\ ~ Orphan(h, kids, n)
    BY <1>1, <1>10, WaitingFree
  <2>2. QED
    BY <1>11, <2>1
<1>13. \A n \in DOMAIN h : g[n].kind = h[n].kind /\ g[n].name = h[n].name /\ g[n].value = h[n].value
  BY <1>7 DEF Merges
<1>14. \A n \in DOMAIN h : n \notin KidSet(h, c) /\ h[n].kind # "ANT_LIST_ITEM" => g[n] = h[n]
  BY <1>10, <1>11
<1>15. ASSUME NEW i \in DOMAIN h PROVE g[i].parent = Pool => h[i].parent = Pool
  <2>1. Pool \notin DOMAIN h /\ Pool # NoNode
    BY <1>2 DEF Pool, NoNode
  <2>2. QED
    BY <1>7, <2>1 DEF Merges
<1>16. ASSUME NEW n \in DOMAIN h PROVE BuiltNode(g, W, n)
  <2>1. BuiltNode(h, W, n) /\ KidSet(h, n) \subseteq DOMAIN h /\ Merges(h, g, kids, n)
    BY <1>1, <1>2, <1>7, KidsFacts
  <2>2. \A i \in KidSet(h, n) : g[i].kind \in BuiltKinds(g[n].kind) /\ g[i].parent # Pool
    BY <1>13, <1>15, <2>1 DEF BuiltNode
  <2>3. \A i \in KidSet(g, n) : g[i].kind \in BuiltKinds(g[n].kind) /\ g[i].parent # Pool
    <3>1. CASE n \in twins
      BY <2>1, <3>1 DEF Merges, KidSet, twins
    <3>2. CASE Inherits(h, kids, n)
      <4>1. \A i \in KidSet(g, n) : i \in KidSet(h, n) \/ Orphan(h, kids, i)
        BY <2>1, <3>2 DEF Merges
      <4>2. \A i : Orphan(h, kids, i) => g[i].kind \in BuiltKinds(g[n].kind)
        <5>1. g[n].kind \in {"ANT_OPTION", "ANT_LIST"}
          BY <1>3, <1>10, <1>13, <3>2
        <5>2. QED
          BY <1>6, <1>10, <1>13, <5>1 DEF BuiltKinds, ChildKinds
      <4>3. \A i : Orphan(h, kids, i) => g[i].parent # Pool
        <5>1. \A i : Orphan(h, kids, i) => g[i].parent \in DOMAIN h
          BY <1>6, <1>7 DEF Merges
        <5>2. QED
          BY <1>2, <5>1 DEF Pool
      <4>4. QED
        BY <2>2, <4>1, <4>2, <4>3
    <3>3. CASE n \notin twins /\ ~ Inherits(h, kids, n)
      <4>1. KidSet(g, n) = KidSet(h, n)
        BY <2>1, <3>3 DEF Merges, KidSet, SameArray, twins
      <4>2. QED
        BY <2>2, <4>1
    <3>4. QED
      BY <3>1, <3>2, <3>3
  <2>4. n \in W => g[n].parent = Pool
    BY <1>12, <2>1 DEF BuiltNode
  <2>5. g[n].parent = Pool => n \in W \/ g[n].kind \in PoolKinds
    BY <1>13, <1>15, <2>1 DEF BuiltNode
  <2>6. g[n].kind = "ANT_SENTINEL" /\ n \notin W => g[n].number = 0
    BY <1>3, <1>13, <1>14, <2>1 DEF BuiltNode
  <2>7. QED
    BY <2>3, <2>4, <2>5, <2>6 DEF BuiltNode
<1>17. DistinctBelow(g, c)
  <2>1. KidSet(g, c) = KidSet(h, c)
    <3>1. c \notin KidSet(h, c) /\ g[c] = h[c]
      BY <1>3, <1>14
    <3>2. QED
      BY <3>1 DEF KidSet
  <2>2. ASSUME NEW m \in KidSet(h, c), NEW n \in KidSet(h, c),
               ~Deleted(g, m), ~Deleted(g, n), g[m].name = g[n].name
        PROVE  m = n
    <3>1. m \in Range(kids) /\ n \in Range(kids) /\ m \in DOMAIN h /\ n \in DOMAIN h
      BY <1>3, <1>6
    <3>2. m \notin twins /\ n \notin twins
      BY <1>7, <2>2, <3>1 DEF Merges, Deleted, twins
    <3>3. Heir(h, kids, m) = m /\ Heir(h, kids, n) = n
      BY <3>1, <3>2 DEF Twins, twins
    <3>4. h[m].name = h[n].name /\ h[m].name # NoString
      BY <1>13, <2>2, <3>1
    <3>5. Heir(h, kids, m) = Heir(h, kids, n)
      BY <3>4 DEF Heir
    <3>6. QED
      BY <3>3, <3>5
  <2>3. QED
    BY <2>1, <2>2 DEF DistinctBelow
<1>18. QED
  BY <1>1, <1>3, <1>6, <1>8, <1>9, <1>12, <1>13, <1>14, <1>16, <1>17 DEF Built, MergesLines
=============================================================================
