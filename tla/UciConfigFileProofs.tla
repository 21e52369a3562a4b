------------------------ MODULE UciConfigFileProofs ------------------------
(***************************************************************************)
(* Theorems about a configuration file that is shared: for any number of    *)
(* processes, calls and faults, and for documents of any size.             *)
(***************************************************************************)
EXTENDS UciConfigFile, UciTextProofs

\* What a file may hold.
FileSymbols == Symbols \cup {NUL}

Readers == [pc : {"open", "size", "read"}, inode : Nat, size : Nat, content : Seq(FileSymbols)]

Writers == [pc : {"writing"}, inode : Nat, document : Documents, done : Nat]

SoundReader(state, files) ==
    /\ state \in Readers
    /\ state.pc \in {"size", "read"} => state.inode \in DOMAIN files
    /\ state.pc # "read" => state.content = <<>>
    /\ state.pc = "read" => Len(state.content) <= state.size

SoundWriter(state, files) ==
    /\ state \in Writers
    /\ state.inode \in DOMAIN files
    /\ state.done <= Len(Render(state.document))

SoundProcess(state, files) ==
    \/ state \in {Idle, Killed}
    \/ SoundReader(state, files)
    \/ SoundWriter(state, files)

\* The file of a writer holds what it has written, and nothing else.
HoldsBeginning(state, files) ==
    state.pc = "writing" =>
        files[state.inode] = SubSeq(Render(state.document), 1, state.done)

FileInv ==
    /\ inodes \in Seq(Seq(FileSymbols))
    /\ path \in 0 .. Len(inodes)
    /\ faults \in Nat
    /\ proc = [p \in Procs |-> proc[p]]
    /\ \A p \in Procs : SoundProcess(proc[p], inodes)
    /\ \A p \in disturbed : p \in Procs /\ ~Outside(p)
    /\ \A p \in Procs : p \notin disturbed => HoldsBeginning(proc[p], inodes)

\* As long as no two syncs overlap, there is one writer at most.
SerialInv ==
    ~overlapped =>
        /\ \A p, q \in Procs : proc[p].pc = "writing" /\ proc[q].pc = "writing" => p = q
        /\ \A p \in Procs : HoldsBeginning(proc[p], inodes)
        /\ \A i \in DOMAIN inodes : \E t \in AllTexts : IsPrefix(inodes[i], t)

-----------------------------------------------------------------------------

\* What is written is a text, and one that a file may hold.
LEMMA DocumentsAreText ==
    ASSUME NEW d \in (Documents \cup {FirstDocument}) \ {Absent}
    PROVE  Render(d) \in Seq(Symbols) /\ Render(d) \in Seq(FileSymbols) /\ Len(Render(d)) \in Nat
<1>1. d \in TextDocuments
  BY DocumentsAssumption
<1>2. Render(d) \in Seq(Symbols)
  BY <1>1, RenderIsText
<1>3. Seq(Symbols) \subseteq Seq(FileSymbols)
  BY SeqMonotonic DEF FileSymbols
<1>4. QED
  BY <1>2, <1>3, LenProperties

\* What processes do with files goes on when there are more files.
LEMMA SoundWithMore ==
    ASSUME NEW state, NEW files, NEW more, DOMAIN files \subseteq DOMAIN more, SoundProcess(state, files)
    PROVE  SoundProcess(state, more)
BY DEF SoundProcess, SoundReader, SoundWriter

\* The beginning of a text.
LEMMA BeginningFacts ==
    ASSUME NEW S, NEW t \in Seq(S), NEW n \in 0 .. Len(t)
    PROVE  /\ SubSeq(t, 1, n) \in Seq(S) /\ Len(SubSeq(t, 1, n)) = n
           /\ DOMAIN SubSeq(t, 1, n) = 1 .. n
           /\ \A k \in 1 .. n : SubSeq(t, 1, n)[k] = t[k]
           /\ IsPrefix(SubSeq(t, 1, n), t)
<1> DEFINE s == SubSeq(t, 1, n)
<1>1. Len(t) \in Nat /\ n \in Nat /\ \A k \in 1 .. n : t[k] \in S
  BY LenProperties, ElementOfSeq
<1>2. s \in Seq(S) /\ Len(s) = n /\ \A k \in 1 .. n : s[k] = t[k]
  <2>1. /\ s \in Seq(S) /\ Len(s) = (IF 1 <= n THEN n - 1 + 1 ELSE 0)
        /\ \A k \in 1 .. n - 1 + 1 : s[k] = t[1 + k - 1]
    BY <1>1, SubSeqProperties
  <2> HIDE DEF s
  <2>2. QED
    BY <1>1, <2>1
<1>3. SubSeq(s, 1, Len(s)) = s
  <2> HIDE DEF s
  <2>1. QED
    BY <1>2
<1>4. IsPrefix(s, t)
  <2>1. SubSeq(s, 1, Len(s)) = SubSeq(t, 1, Len(s))
    BY <1>2, <1>3
  <2> HIDE DEF s
  <2>2. QED
    BY <1>1, <1>2, <2>1 DEF IsPrefix
<1>5. DOMAIN s = 1 .. n
  <2> HIDE DEF s
  <2>1. QED
    BY <1>2, LenProperties
<1>6. QED
  BY <1>2, <1>4, <1>5

\* A write at an offset.
LEMMA OverwrittenFacts ==
    ASSUME NEW text \in Seq(FileSymbols), NEW offset \in Nat, NEW word \in Seq(FileSymbols)
    PROVE  /\ Overwritten(text, offset, word) \in Seq(FileSymbols)
           /\ Len(text) <= offset + Len(word) =>
                 Len(Overwritten(text, offset, word)) = offset + Len(word)
<1>1. Len(text) \in Nat /\ Len(word) \in Nat /\ DOMAIN text = 1 .. Len(text)
      /\ DOMAIN word = 1 .. Len(word)
      /\ (\A k \in 1 .. Len(text) : text[k] \in FileSymbols)
      /\ (\A k \in 1 .. Len(word) : word[k] \in FileSymbols)
  BY LenProperties, ElementOfSeq
<1> DEFINE both == {Len(text), offset + Len(word)}
<1> DEFINE n == Max(both)
<1>2. n \in both /\ \A m \in both : m <= n
  <2> DEFINE sum == Len(text) + offset + Len(word)
  <2>1. both \subseteq 0 .. sum /\ both # {} /\ sum \in Nat
    BY <1>1
  <2> HIDE DEF both, sum
  <2>2. QED
    BY <2>1, MaxIsGreatest
<1>3. n \in Nat /\ n >= Len(text) /\ (Len(text) <= offset + Len(word) => n = offset + Len(word))
      /\ n >= offset + Len(word)
  BY <1>1, <1>2
<1> DEFINE e(k) == CASE k > offset /\ k <= offset + Len(word) -> word[k - offset]
                     [] k <= offset /\ k > Len(text)          -> NUL
                     [] OTHER                                 -> text[k]
<1>4. Overwritten(text, offset, word) = [k \in 1 .. n |-> e(k)]
  BY DEF Overwritten
<1> HIDE DEF n
<1>5. ASSUME NEW k \in 1 .. n PROVE e(k) \in FileSymbols
  <2>1. CASE k > offset /\ k <= offset + Len(word)
    <3>1. k - offset \in 1 .. Len(word)
      BY <1>1, <2>1
    <3>2. QED
      BY <1>1, <2>1, <3>1
  <2>2. CASE k <= offset /\ k > Len(text)
    BY <2>2, <1>1 DEF FileSymbols
  <2>3. CASE ~(k > offset /\ k <= offset + Len(word)) /\ ~(k <= offset /\ k > Len(text))
    <3>1. k \in 1 .. Len(text)
      BY <1>1, <1>2, <1>3, <2>3 DEF n
    <3>2. QED
      BY <1>1, <2>3, <3>1
  <2>4. QED
    BY <2>1, <2>2, <2>3
<1> HIDE DEF e
<1>6. [k \in 1 .. n |-> e(k)] \in Seq(FileSymbols) /\ Len([k \in 1 .. n |-> e(k)]) = n
  BY <1>3, <1>5
<1>7. QED
  BY <1>3, <1>4, <1>6

\* A write goes on where the one before it stopped.
LEMMA WriteGoesOn ==
    ASSUME NEW t \in Seq(FileSymbols), NEW n \in Nat, NEW c \in Nat, n + c <= Len(t)
    PROVE  Overwritten(SubSeq(t, 1, n), n, SubSeq(t, n + 1, n + c)) = SubSeq(t, 1, n + c)
<1> DEFINE s == SubSeq(t, 1, n)
<1> DEFINE w == SubSeq(t, n + 1, n + c)
<1> DEFINE u == SubSeq(t, 1, n + c)
<1>1. Len(t) \in Nat /\ n \in 0 .. Len(t) /\ n + c \in 0 .. Len(t)
      /\ \A k \in 1 .. Len(t) : t[k] \in FileSymbols
  BY LenProperties, ElementOfSeq
<1>2. /\ s \in Seq(FileSymbols) /\ Len(s) = n
      /\ \A k \in 1 .. n : s[k] = t[k]
  BY <1>1, BeginningFacts
<1>3. /\ u \in Seq(FileSymbols) /\ Len(u) = n + c
      /\ DOMAIN u = 1 .. n + c
      /\ \A k \in 1 .. n + c : u[k] = t[k]
  BY <1>1, BeginningFacts
<1>4. Len(w) = c /\ \A k \in 1 .. c : w[k] = t[n + k]
  <2>1. \A k \in n + 1 .. n + c : t[k] \in FileSymbols
    BY <1>1
  <2>2. /\ Len(w) = (IF n + 1 <= n + c THEN (n + c) - (n + 1) + 1 ELSE 0)
        /\ \A k \in 1 .. (n + c) - (n + 1) + 1 : w[k] = t[(n + 1) + k - 1]
    BY <1>1, <2>1, SubSeqProperties
  <2> HIDE DEF w
  <2>3. (n + c) - (n + 1) + 1 = c /\ \A k \in 1 .. c : (n + 1) + k - 1 = n + k
    OBVIOUS
  <2>4. QED
    BY <2>2, <2>3
<1> HIDE DEF s, w, u
<1>5. Max({Len(s), n + Len(w)}) = n + c
  <2>1. {Len(s), n + Len(w)} \subseteq 0 .. n + c /\ n + c \in {Len(s), n + Len(w)}
    BY <1>2, <1>4
  <2>2. /\ Max({Len(s), n + Len(w)}) \in {Len(s), n + Len(w)}
        /\ n + c <= Max({Len(s), n + Len(w)})
    BY <2>1, MaxIsGreatest
  <2>3. QED
    BY <2>1, <2>2
<1>6. Overwritten(s, n, w) = [k \in 1 .. n + c |-> u[k]]
  <2>1. ASSUME NEW k \in 1 .. n + c
        PROVE  u[k] = CASE k > n /\ k <= n + Len(w) -> w[k - n]
                        [] k <= n /\ k > Len(s)     -> NUL
                        [] OTHER                    -> s[k]
    <3>1. CASE k > n
      <4>1. k - n \in 1 .. c /\ n + (k - n) = k
        BY <3>1
      <4>2. QED
        BY <1>3, <1>4, <3>1, <4>1
    <3>2. CASE k <= n
      <4>1. k \in 1 .. n /\ ~(k > n) /\ ~(k > Len(s))
        BY <1>2, <3>2
      <4>2. QED
        BY <1>2, <1>3, <4>1
    <3>3. QED
      BY <3>1, <3>2
  <2>2. QED
    BY <1>5, <2>1 DEF Overwritten
<1>7. QED
  BY <1>3, <1>6 DEF s, u, w

-----------------------------------------------------------------------------

\* A flush of stdio starts at a multiple of its buffer.
LEMMA FlushStartFacts ==
    ASSUME NEW done \in Int
    PROVE  FlushStart(done) \in Int /\ done - BufferSize < FlushStart(done) /\ FlushStart(done) <= done
<1>1. BufferSize \in Nat /\ BufferSize > 0
  BY BufferAssumption
<1>2. done % BufferSize \in 0 .. BufferSize - 1
  BY <1>1
<1> DEFINE rest == done % BufferSize
<1>3. FlushStart(done) = done - rest /\ rest \in 0 .. BufferSize - 1
  BY <1>2 DEF FlushStart
<1> HIDE DEF rest
<1>4. QED
  BY <1>1, <1>3

\* What is left of the text of a writer, and of the flush it is in.
LEMMA WriterFacts ==
    ASSUME FileInv, NEW p \in Procs, proc[p].pc = "writing"
    PROVE  /\ SoundWriter(proc[p], inodes)
           /\ proc[p] \in Writers /\ proc[p].document \in Documents
           /\ proc[p].document \in (Documents \cup {FirstDocument}) \ {Absent}
           /\ proc[p].done \in Nat /\ Text(p) \in Seq(FileSymbols) /\ Len(Text(p)) \in Nat
           /\ proc[p].inode \in DOMAIN inodes
           /\ Left(p) \in Nat
           /\ \A count \in 0 .. FlushLeft(p) : count \in Nat /\ proc[p].done + count <= Len(Text(p))
<1>1. SoundWriter(proc[p], inodes)
  BY SMTT(30) DEF FileInv, SoundProcess, SoundReader, Readers, Idle, Killed
<1>2. /\ proc[p] \in Writers /\ proc[p].document \in Documents /\ proc[p].done \in Nat
      /\ proc[p].inode \in DOMAIN inodes /\ proc[p].done <= Len(Text(p))
  BY <1>1 DEF SoundWriter, Writers, Text
<1>3. proc[p].document \in (Documents \cup {FirstDocument}) \ {Absent}
  BY <1>2, DocumentsAssumption
<1>4. Text(p) \in Seq(FileSymbols) /\ Len(Text(p)) \in Nat
  <2>1. Render(proc[p].document) \in Seq(FileSymbols)
    BY <1>3, DocumentsAreText
  <2>2. Text(p) \in Seq(FileSymbols)
    BY <2>1 DEF Text
  <2>3. QED
    BY <2>2
<1>5. Left(p) \in Nat
  BY <1>2, <1>4 DEF Left
<1> DEFINE other == FlushStart(proc[p].done) + BufferSize - proc[p].done
<1>6. other \in Nat
  <2>1. /\ FlushStart(proc[p].done) \in Int
        /\ proc[p].done - BufferSize < FlushStart(proc[p].done)
    BY SMTT(30), <1>2, FlushStartFacts
  <2>2. BufferSize \in Int /\ proc[p].done \in Int
    BY <1>2, BufferAssumption
  <2>3. QED
    BY <2>1, <2>2
<1>7. FlushLeft(p) \in Nat /\ FlushLeft(p) <= Left(p)
  <2> HIDE DEF other
  <2>1. FlushLeft(p) = Min({Left(p), other})
    BY DEF FlushLeft, other
  <2>2. {Left(p), other} \subseteq Nat /\ {Left(p), other} # {}
    BY <1>5, <1>6
  <2>3. QED
    BY <1>5, <1>6, <2>1, <2>2, MinIsLeast
<1>8. QED
  BY <1>1, <1>2, <1>3, <1>4, <1>5, <1>7 DEF Left

\* A process is in one of its states at a time.
LEMMA StatesDiffer ==
    ASSUME NEW state, NEW files, SoundProcess(state, files)
    PROVE  /\ state.pc \in {"open", "size", "read"} => SoundReader(state, files)
           /\ state.pc = "writing" => SoundWriter(state, files)
           /\ state.pc = "idle" => state = Idle
           /\ state.pc \in {"idle", "killed", "open", "size", "read", "writing"}
BY DEF SoundProcess, SoundReader, SoundWriter, Readers, Writers, Idle, Killed

\* A step that changes no file.
LEMMA RestKeeps ==
    ASSUME FileInv, SerialInv, NEW p \in Procs, NEW state,
           UNCHANGED <<inodes, overlapped>>,
           path' \in {path, NoFile},
           faults' \in Nat,
           proc' = [proc EXCEPT ![p] = state],
           \/ state \in {Idle, Killed} /\ p \notin disturbed'
           \/ SoundReader(state, inodes),
           disturbed \ {p} \subseteq disturbed',
           disturbed' \subseteq Disturbs(p)
    PROVE  FileInv' /\ SerialInv'
<1>1. proc = [q \in Procs |-> proc[q]]
  BY DEF FileInv
<1>2. proc'[p] = state /\ \A q \in Procs \ {p} : proc'[q] = proc[q]
  BY <1>1
<1>3. SoundProcess(state, inodes) /\ state.pc # "writing"
  BY DEF SoundProcess, SoundReader, Readers, Idle, Killed
<1>4. \A q \in Procs : HoldsBeginning(proc[q], inodes) => HoldsBeginning(proc'[q], inodes)
  BY <1>2, <1>3 DEF HoldsBeginning
<1>5. ASSUME NEW q \in disturbed' PROVE q \in Procs /\ ~Outside(q)'
  <2>1. CASE q = p
    <3>1. SoundReader(state, inodes)
      BY <1>5, <2>1
    <3>2. state.pc \notin {"idle", "killed"}
      BY <3>1 DEF SoundReader, Readers
    <3>3. QED
      BY <1>2, <2>1, <3>2 DEF Outside
  <2>2. CASE q # p
    <3>1. q \in disturbed \/ (q \in Procs \ {p} /\ ~Outside(q))
      BY <1>5 DEF Disturbs
    <3>2. q \in Procs /\ ~Outside(q)
      BY <3>1 DEF FileInv
    <3>3. QED
      BY <1>2, <2>2, <3>2 DEF Outside
  <2>3. QED
    BY <2>1, <2>2
<1>6. ASSUME NEW q \in Procs, q \notin disturbed' PROVE HoldsBeginning(proc'[q], inodes)
  <2>1. CASE q = p
    BY <1>2, <1>3, <2>1 DEF HoldsBeginning
  <2>2. CASE q # p
    <3>1. q \notin disturbed
      BY <1>6, <2>2
    <3>2. QED
      BY <1>4, <3>1 DEF FileInv
  <2>3. QED
    BY <2>1, <2>2
<1>7. \A q \in Procs : SoundProcess(proc'[q], inodes)
  BY <1>2, <1>3 DEF FileInv
<1>8. proc' = [q \in Procs |-> proc'[q]]
  BY <1>1
<1>9. path' \in 0 .. Len(inodes)
  <2>1. Len(inodes) \in Nat
    BY LenProperties DEF FileInv
  <2>2. QED
    BY <2>1 DEF FileInv, NoFile
<1>10. FileInv'
  BY <1>5, <1>6, <1>7, <1>8, <1>9 DEF FileInv
<1>11. SerialInv'
  <2>1. ASSUME ~overlapped PROVE \A q, r \in Procs :
                proc'[q].pc = "writing" /\ proc'[r].pc = "writing" => q = r
    BY <1>2, <1>3, <2>1 DEF SerialInv
  <2>2. QED
    BY <1>4, <2>1 DEF SerialInv
<1>12. QED
  BY <1>10, <1>11

\* A write, after which the call goes on or has failed.
LEMMA WriteKeeps ==
    ASSUME FileInv, SerialInv, NEW p \in Procs, proc[p].pc = "writing",
           NEW count \in 0 .. FlushLeft(p),
           UNCHANGED <<path, overlapped>>,
           faults' \in Nat,
           inodes' = AfterWrite(p, count),
           \/ proc' = [proc EXCEPT ![p] = Advanced(p, count)] /\ disturbed' = Disturbs(p)
           \/ proc' = [proc EXCEPT ![p] = Idle] /\ disturbed' = Disturbs(p) \ {p}
    PROVE  FileInv' /\ SerialInv'
<1> DEFINE i == proc[p].inode
<1> DEFINE t == Text(p)
<1> DEFINE n == proc[p].done
<1> DEFINE word == SubSeq(t, n + 1, n + count)
<1> DEFINE after == Overwritten(inodes[i], n, word)
<1>1. /\ SoundWriter(proc[p], inodes) /\ proc[p] \in Writers
      /\ n \in Nat /\ t \in Seq(FileSymbols) /\ Len(t) \in Nat
      /\ i \in DOMAIN inodes
      /\ count \in Nat /\ n + count <= Len(t)
  BY WriterFacts
<1>2. /\ inodes \in Seq(Seq(FileSymbols)) /\ DOMAIN inodes = 1 .. Len(inodes)
      /\ Len(inodes) \in Nat
      /\ \A k \in DOMAIN inodes : inodes[k] \in Seq(FileSymbols)
  BY LenProperties, ElementOfSeq DEF FileInv
<1>3. word \in Seq(FileSymbols)
  <2>1. \A k \in n + 1 .. n + count : t[k] \in FileSymbols
    BY <1>1, ElementOfSeq
  <2> HIDE DEF t, n
  <2>2. QED
    BY <1>1, <2>1, SubSeqProperties
<1>4. after \in Seq(FileSymbols)
  BY <1>1, <1>2, <1>3, OverwrittenFacts
<1>5. inodes' = [inodes EXCEPT ![i] = after]
  BY DEF AfterWrite
<1>6. /\ inodes' \in Seq(Seq(FileSymbols)) /\ DOMAIN inodes' = DOMAIN inodes
      /\ Len(inodes') = Len(inodes)
      /\ inodes'[i] = after
      /\ \A k \in DOMAIN inodes : k # i => inodes'[k] = inodes[k]
  <2> HIDE DEF after, i
  <2>1. QED
    BY <1>1, <1>2, <1>4, <1>5, ExceptSeq
<1>7. inodes[i] = SubSeq(t, 1, n) => after = SubSeq(t, 1, n + count)
  BY <1>1, WriteGoesOn
<1>8. /\ \A q \in Procs \ {p} : proc'[q] = proc[q]
      /\ proc' = [q \in Procs |-> proc'[q]]
      /\ proc'[p] = Advanced(p, count) \/ proc'[p] = Idle
  BY DEF FileInv
<1> DEFINE advanced == Advanced(p, count)
<1>9. /\ SoundWriter(advanced, inodes)
      /\ advanced.pc = "writing" /\ advanced.inode = i
      /\ advanced.document = proc[p].document /\ advanced.done = n + count
  <2>1. /\ advanced \in Writers /\ advanced.inode = i
        /\ advanced.document = proc[p].document /\ advanced.done = n + count
    <3>1. advanced = [pc |-> "writing", inode |-> i, document |-> proc[p].document,
                      done |-> n + count]
      BY <1>1 DEF Advanced, Writers
    <3>2. /\ i \in Nat /\ proc[p].document \in Documents /\ n + count \in Nat
      BY <1>1 DEF Writers
    <3> HIDE DEF advanced, i, n
    <3>3. QED
      BY <3>1, <3>2 DEF Writers
  <2>2. QED
    BY <1>1, <2>1 DEF SoundWriter, Writers, Text
<1>10. inodes[i] = SubSeq(t, 1, n) => HoldsBeginning(proc'[p], inodes')
  <2>1. CASE proc'[p] = Idle
    BY <2>1 DEF HoldsBeginning, Idle
  <2>2. CASE proc'[p] = advanced
    <3> HIDE DEF advanced, after
    <3>1. QED
      BY <1>6, <1>7, <1>9, <2>2 DEF HoldsBeginning, Text
  <2>3. QED
    BY <1>8, <2>1, <2>2
<1> HIDE DEF after, word, advanced
<1>11. FileInv'
  <2>1. path' \in 0 .. Len(inodes')
    BY <1>6 DEF FileInv
  <2>2. ASSUME NEW q \in Procs PROVE SoundProcess(proc'[q], inodes')
    <3>1. SoundProcess(proc'[q], inodes)
      <4>1. CASE q = p
        BY <1>8, <1>9, <4>1 DEF SoundProcess, advanced
      <4>2. CASE q # p
        BY <1>8, <4>2 DEF FileInv
      <4>3. QED
        BY <4>1, <4>2
    <3>2. QED
      BY <1>6, <3>1, SoundWithMore
  <2>3. ASSUME NEW q \in disturbed' PROVE q \in Procs /\ ~Outside(q)'
    <3>1. q \in disturbed \/ (q \in Procs \ {p} /\ ~Outside(q))
      BY <2>3 DEF Disturbs
    <3>2. q \in Procs /\ ~Outside(q)
      BY <3>1 DEF FileInv
    <3>3. CASE q = p
      <4>1. proc'[p] = advanced
        BY <2>3, <3>3 DEF FileInv, advanced
      <4>2. QED
        BY <1>9, <3>2, <3>3, <4>1 DEF Outside
    <3>4. CASE q # p
      BY <1>8, <3>2, <3>4 DEF Outside
    <3>5. QED
      BY <3>3, <3>4
  <2>4. ASSUME NEW q \in Procs, q \notin disturbed' PROVE HoldsBeginning(proc'[q], inodes')
    <3>1. CASE q = p
      <4>1. CASE proc'[p] = Idle
        BY <3>1, <4>1 DEF HoldsBeginning, Idle
      <4>2. CASE proc'[p] # Idle
        <5>1. disturbed' = Disturbs(p)
          BY <4>2 DEF FileInv
        <5>2. p \notin disturbed
          BY <2>4, <3>1, <5>1 DEF Disturbs
        <5>3. inodes[i] = SubSeq(t, 1, n)
          BY <5>2 DEF FileInv, HoldsBeginning, Text
        <5>4. QED
          BY <1>10, <3>1, <5>3
      <4>3. QED
        BY <4>1, <4>2
    <3>2. CASE q # p
      <4>1. Outside(q)
        BY <2>4, <3>2 DEF Disturbs
      <4>2. QED
        BY <1>8, <3>2, <4>1 DEF HoldsBeginning, Outside
    <3>3. QED
      BY <3>1, <3>2
  <2>5. QED
    BY <1>6, <1>8, <2>1, <2>2, <2>3, <2>4 DEF FileInv
<1>12. SerialInv'
  <2>1. SUFFICES ASSUME ~overlapped
        PROVE  /\ \A q, r \in Procs : proc'[q].pc = "writing" /\ proc'[r].pc = "writing" => q = r
               /\ \A q \in Procs : HoldsBeginning(proc'[q], inodes')
               /\ \A k \in DOMAIN inodes' : \E u \in AllTexts : IsPrefix(inodes'[k], u)
    BY DEF SerialInv
  <2>2. \A q \in Procs : proc[q].pc = "writing" => q = p
    BY <2>1 DEF SerialInv
  <2>3. \A q \in Procs : proc'[q].pc = "writing" => q = p
    BY <1>8, <2>2
  <2>4. inodes[i] = SubSeq(t, 1, n)
    BY <2>1 DEF SerialInv, HoldsBeginning, Text
  <2>5. ASSUME NEW q \in Procs PROVE HoldsBeginning(proc'[q], inodes')
    <3>1. CASE q = p
      BY <1>10, <2>4, <3>1
    <3>2. CASE q # p
      BY <2>3, <3>2 DEF HoldsBeginning
    <3>3. QED
      BY <3>1, <3>2
  <2>6. IsPrefix(inodes'[i], t) /\ t \in AllTexts
    <3>1. inodes'[i] = SubSeq(t, 1, n + count)
      BY <1>6, <1>7, <2>4
    <3>2. n + count \in 0 .. Len(t)
      BY <1>1
    <3>3. proc[p].document \in (Documents \cup {FirstDocument}) \ {Absent}
      BY WriterFacts
    <3>4. t \in AllTexts
      BY <3>3 DEF AllTexts, Text
    <3>5. IsPrefix(SubSeq(t, 1, n + count), t)
      BY <1>1, <3>2, BeginningFacts
    <3>6. QED
      BY <3>1, <3>4, <3>5
  <2>7. ASSUME NEW k \in DOMAIN inodes' PROVE \E u \in AllTexts : IsPrefix(inodes'[k], u)
    <3>1. CASE k = i
      BY <2>6, <3>1
    <3>2. CASE k # i
      BY <1>6, <2>1, <3>2 DEF SerialInv
    <3>3. QED
      BY <3>1, <3>2
  <2>8. QED
    BY <2>3, <2>5, <2>7
<1>13. QED
  BY <1>11, <1>12

\* The beginning of a sync.
LEMMA OpenKeeps ==
    ASSUME FileInv, SerialInv, NEW p \in Procs, NEW d \in Documents, OpenToWrite(p, d)
    PROVE  FileInv' /\ SerialInv'
<1> DEFINE i == IF path = NoFile THEN Len(inodes) + 1 ELSE path
<1>1. /\ inodes \in Seq(Seq(FileSymbols)) /\ DOMAIN inodes = 1 .. Len(inodes)
      /\ Len(inodes) \in Nat
      /\ path \in 0 .. Len(inodes)
      /\ proc[p] = Idle
  BY LenProperties DEF FileInv, OpenToWrite, Begin
<1>2. /\ path' = i
      /\ proc' = [proc EXCEPT ![p] = Writer(i, d)]
      /\ disturbed' = Disturbs(p)
      /\ faults' = faults
      /\ overlapped' = (overlapped \/ \E q \in Procs : proc[q].pc = "writing")
  BY DEF OpenToWrite, GoOn
<1>3. /\ inodes' \in Seq(Seq(FileSymbols))
      /\ DOMAIN inodes' = 1 .. Len(inodes') /\ Len(inodes') \in Nat
      /\ DOMAIN inodes \subseteq DOMAIN inodes'
      /\ i \in DOMAIN inodes' /\ i \in Nat
      /\ inodes'[i] = <<>>
      /\ \A k \in DOMAIN inodes' : k # i => k \in DOMAIN inodes /\ inodes'[k] = inodes[k]
  <2>1. <<>> \in Seq(FileSymbols)
    OBVIOUS
  <2>2. CASE path = NoFile
    <3>1. inodes' = Append(inodes, <<>>) /\ i = Len(inodes) + 1
      BY <2>2 DEF OpenToWrite
    <3>2. /\ inodes' \in Seq(Seq(FileSymbols)) /\ Len(inodes') = Len(inodes) + 1
          /\ \A k \in 1 .. Len(inodes) : inodes'[k] = inodes[k]
          /\ inodes'[Len(inodes) + 1] = <<>>
      BY <1>1, <2>1, <3>1, AppendProperties
    <3>3. DOMAIN inodes' = 1 .. Len(inodes')
      BY <3>2, LenProperties
    <3> HIDE DEF i
    <3>4. QED
      BY <1>1, <3>1, <3>2, <3>3
  <2>3. CASE path # NoFile
    <3>1. inodes' = [inodes EXCEPT ![path] = <<>>] /\ i = path /\ path \in 1 .. Len(inodes)
      BY <1>1, <2>3 DEF OpenToWrite, Truncated, NoFile
    <3>2. inodes' \in Seq(Seq(FileSymbols)) /\ Len(inodes') = Len(inodes)
      BY <1>1, <2>1, <3>1, ExceptSeq
    <3>3. DOMAIN inodes' = DOMAIN inodes /\ inodes'[path] = <<>>
          /\ \A k \in DOMAIN inodes : k # path => inodes'[k] = inodes[k]
      BY <1>1, <3>1
    <3> HIDE DEF i
    <3>4. QED
      BY <1>1, <3>1, <3>2, <3>3
  <2>4. QED
    BY <2>2, <2>3
<1> HIDE DEF i
<1>4. /\ \A q \in Procs \ {p} : proc'[q] = proc[q]
      /\ proc' = [q \in Procs |-> proc'[q]]
      /\ proc'[p] = Writer(i, d)
  BY <1>2 DEF FileInv
<1>5. d \in (Documents \cup {FirstDocument}) \ {Absent}
  BY DocumentsAssumption
<1>6. Render(d) \in Seq(FileSymbols) /\ Len(Render(d)) \in Nat
  BY <1>5, DocumentsAreText
<1>7. SoundWriter(proc'[p], inodes') /\ proc'[p].pc = "writing" /\ HoldsBeginning(proc'[p], inodes')
  <2>1. SubSeq(Render(d), 1, 0) = <<>>
    BY <1>6, BeginningFacts, EmptySeq
  <2>2. /\ proc'[p].pc = "writing" /\ proc'[p].inode = i
        /\ proc'[p].document = d /\ proc'[p].done = 0
        /\ proc'[p] \in Writers
    BY <1>3, <1>4 DEF Writer, Writers
  <2>3. QED
    BY <1>3, <1>6, <2>1, <2>2 DEF SoundWriter, HoldsBeginning
<1>8. FileInv'
  <2>1. ASSUME NEW q \in Procs PROVE SoundProcess(proc'[q], inodes')
    <3>1. CASE q = p
      BY <1>7, <3>1 DEF SoundProcess
    <3>2. CASE q # p
      BY <1>3, <1>4, <3>2, SoundWithMore DEF FileInv
    <3>3. QED
      BY <3>1, <3>2
  <2>2. ASSUME NEW q \in disturbed' PROVE q \in Procs /\ ~Outside(q)'
    <3>1. q \in disturbed \/ (q \in Procs \ {p} /\ ~Outside(q))
      BY <1>2, <2>2 DEF Disturbs
    <3>2. q \in Procs /\ ~Outside(q)
      BY <3>1 DEF FileInv
    <3>3. QED
      BY <1>1, <1>4, <1>7, <3>2 DEF Outside
  <2>3. ASSUME NEW q \in Procs, q \notin disturbed' PROVE HoldsBeginning(proc'[q], inodes')
    <3>1. CASE q = p
      BY <1>7, <3>1
    <3>2. CASE q # p
      <4>1. Outside(q)
        BY <1>2, <2>3, <3>2 DEF Disturbs
      <4>2. QED
        BY <1>4, <3>2, <4>1 DEF HoldsBeginning, Outside
    <3>3. QED
      BY <3>1, <3>2
  <2>4. path' \in 0 .. Len(inodes')
    BY <1>2, <1>3
  <2>5. QED
    BY <1>2, <1>3, <1>4, <2>1, <2>2, <2>3, <2>4 DEF FileInv
<1>9. SerialInv'
  <2>1. SUFFICES ASSUME ~overlapped'
        PROVE  /\ \A q, r \in Procs : proc'[q].pc = "writing" /\ proc'[r].pc = "writing" => q = r
               /\ \A q \in Procs : HoldsBeginning(proc'[q], inodes')
               /\ \A k \in DOMAIN inodes' : \E u \in AllTexts : IsPrefix(inodes'[k], u)
    BY DEF SerialInv
  <2>2. ~overlapped /\ \A q \in Procs : proc[q].pc # "writing"
    BY <1>2, <2>1
  <2>3. \A q \in Procs : proc'[q].pc = "writing" => q = p
    BY <1>4, <2>2
  <2>4. ASSUME NEW q \in Procs PROVE HoldsBeginning(proc'[q], inodes')
    BY <1>7, <2>3 DEF HoldsBeginning
  <2>5. ASSUME NEW k \in DOMAIN inodes' PROVE \E u \in AllTexts : IsPrefix(inodes'[k], u)
    <3>1. CASE k = i
      <4>1. SubSeq(Render(d), 1, 0) = <<>> /\ IsPrefix(SubSeq(Render(d), 1, 0), Render(d))
        BY <1>6, BeginningFacts, EmptySeq
      <4>2. Render(d) \in AllTexts
        BY <1>5 DEF AllTexts
      <4>3. QED
        BY <1>3, <3>1, <4>1, <4>2
    <3>2. CASE k # i
      BY <1>3, <2>2, <3>2 DEF SerialInv
    <3>3. QED
      BY <3>1, <3>2
  <2>6. QED
    BY <2>3, <2>4, <2>5
<1>10. QED
  BY <1>8, <1>9

\* A step of fread.
LEMMA ReadKeepsSound ==
    ASSUME FileInv, NEW p \in Procs, proc[p].pc = "read",
           Len(proc[p].content) < proc[p].size,
           Len(proc[p].content) < Len(inodes[proc[p].inode])
    PROVE  LET text == inodes[proc[p].inode]
               had  == Len(proc[p].content)
               upto == Min({proc[p].size, Len(text), had + BufferSize})
               next == [proc[p] EXCEPT !.content = @ \o SubSeq(text, had + 1, upto)]
           IN  /\ SoundReader(next, inodes)
               /\ next.pc = "read" /\ next.inode = proc[p].inode /\ next.size = proc[p].size
               /\ proc[p].content = SubSeq(text, 1, had)
                    => next.content = SubSeq(text, 1, Len(next.content))
<1> DEFINE text == inodes[proc[p].inode]
<1> DEFINE had  == Len(proc[p].content)
<1> DEFINE upto == Min({proc[p].size, Len(text), had + BufferSize})
<1> DEFINE next == [proc[p] EXCEPT !.content = @ \o SubSeq(text, had + 1, upto)]
<1>1. SoundReader(proc[p], inodes)
  BY StatesDiffer DEF FileInv
<1>2. /\ proc[p] \in Readers /\ proc[p].content \in Seq(FileSymbols) /\ had \in Nat
      /\ proc[p].size \in Nat
      /\ proc[p].inode \in Nat
      /\ text \in Seq(FileSymbols) /\ Len(text) \in Nat
  BY <1>1, LenProperties, ElementOfSeq DEF SoundReader, Readers, FileInv
<1>3. upto \in had + 1 .. proc[p].size /\ upto <= Len(text)
  <2> DEFINE bounds == {proc[p].size, Len(text), had + BufferSize}
  <2>1. BufferSize \in Nat /\ BufferSize > 0
    BY BufferAssumption
  <2>2. \A b \in bounds : b \in Nat /\ b > had
    BY <1>2, <2>1
  <2>3. bounds \subseteq Nat /\ bounds # {} /\ proc[p].size \in bounds /\ Len(text) \in bounds
    BY <2>2
  <2>4. Min(bounds) \in bounds /\ \A b \in bounds : Min(bounds) <= b
    <3> HIDE DEF bounds
    <3>1. QED
      BY <2>3, MinIsLeast
  <2>5. upto = Min(bounds)
    OBVIOUS
  <2> HIDE DEF bounds, upto
  <2>6. QED
    BY <1>2, <2>2, <2>3, <2>4, <2>5
<1> DEFINE more == SubSeq(text, had + 1, upto)
<1>4. more \in Seq(FileSymbols) /\ Len(more) = upto - had
  <2> HIDE DEF upto, text, had
  <2>1. \A k \in had + 1 .. upto : text[k] \in FileSymbols
    BY <1>2, <1>3, ElementOfSeq
  <2>2. QED
    BY <1>2, <1>3, <2>1, SubSeqProperties
<1> DEFINE all == proc[p].content \o more
<1>5. all \in Seq(FileSymbols) /\ Len(all) = upto
  <2> HIDE DEF more, upto
  <2>1. QED
    BY <1>2, <1>3, <1>4, ConcatProperties
<1>6. next = [pc |-> "read", inode |-> proc[p].inode, size |-> proc[p].size, content |-> all]
  <2>1. next = [proc[p] EXCEPT !.content = all]
    OBVIOUS
  <2> HIDE DEF next, all, more, upto, text, had
  <2>2. proc[p] \in Readers /\ proc[p].pc = "read"
    BY <1>2
  <2>3. QED
    BY <2>1, <2>2 DEF Readers
<1>9. proc[p].content = SubSeq(text, 1, had) => all = SubSeq(text, 1, upto)
  <2> HIDE DEF text, had, upto, all, next
  <2>1. SUFFICES ASSUME proc[p].content = SubSeq(text, 1, had)
        PROVE  all = SubSeq(text, 1, upto)
    OBVIOUS
  <2>2. all = SubSeq(text, 1, had) \o SubSeq(text, had + 1, upto)
    BY <2>1 DEF all
  <2>3. QED
    BY <1>2, <1>3, <2>2, ConcatAdjacentSubSeq
<1> HIDE DEF next, all, upto, had, text
<1>7. next \in Readers
  BY <1>2, <1>5, <1>6 DEF Readers
<1>8. SoundReader(next, inodes)
  BY <1>1, <1>2, <1>3, <1>5, <1>6, <1>7 DEF SoundReader
<1>10. /\ next.pc = "read" /\ next.inode = proc[p].inode /\ next.size = proc[p].size
       /\ proc[p].content = SubSeq(text, 1, had) => next.content = SubSeq(text, 1, Len(next.content))
  BY <1>5, <1>6, <1>9
<1>11. QED
  BY <1>8, <1>10 DEF next, upto, had, text

-----------------------------------------------------------------------------

\* A call that returns without having changed a file.
LEMMA LeaveKeeps ==
    ASSUME FileInv, SerialInv, NEW p \in Procs,
           UNCHANGED <<inodes, overlapped>>, path' \in {path, NoFile}, faults' \in Nat,
           proc' = [proc EXCEPT ![p] = Idle],
           disturbed' = disturbed \ {p}
    PROVE  FileInv' /\ SerialInv'
<1>1. disturbed \ {p} \subseteq disturbed' /\ p \notin disturbed' /\ disturbed' \subseteq Disturbs(p)
  BY DEF Disturbs
<1>2. QED
  BY <1>1, RestKeeps

\* A parse that goes on.
LEMMA ReadKeeps ==
    ASSUME FileInv, SerialInv, NEW p \in Procs, NEW state,
           UNCHANGED <<inodes, overlapped, path, disturbed>>, faults' \in Nat,
           proc' = [proc EXCEPT ![p] = state],
           SoundReader(state, inodes)
    PROVE  FileInv' /\ SerialInv'
<1>1. disturbed \ {p} \subseteq disturbed' /\ disturbed' \subseteq Disturbs(p)
  BY DEF Disturbs
<1>2. path' \in {path, NoFile}
  OBVIOUS
<1>3. QED
  BY <1>1, <1>2, RestKeeps

\* The steps of a parse.
LEMMA ParseKeeps ==
    ASSUME FileInv, SerialInv, NEW p \in Procs,
           Stat(p) \/ OpenToRead(p) \/ Measure(p) \/ ReadSome(p) \/ ParseText(p) \/ ReadFails(p)
    PROVE  FileInv' /\ SerialInv'
<1>1. UNCHANGED <<path, inodes, overlapped>> /\ path' \in {path, NoFile}
  BY DEF Stat, OpenToRead, Measure, ReadSome, ParseText, ReadFails, Unchanged
<1>2. faults \in Nat /\ faults' \in Nat
  <2>1. faults \in Nat
    BY DEF FileInv
  <2>2. faults' = faults \/ faults' = faults + 1
    BY DEF Stat, OpenToRead, Measure, ReadSome, ParseText, ReadFails, Fault
  <2>3. QED
    BY <2>1, <2>2
<1>3. \A error, document : ParseReturns(p, error, document) =>
          proc' = [proc EXCEPT ![p] = Idle] /\ disturbed' = disturbed \ {p}
  BY DEF ParseReturns, Leave
<1>4. ASSUME NEW error, NEW document, ParseReturns(p, error, document)
      PROVE  FileInv' /\ SerialInv'
  BY <1>1, <1>2, <1>3, <1>4, LeaveKeeps
<1>5. ASSUME NEW state, Parsing(p, state), SoundReader(state, inodes)
      PROVE  FileInv' /\ SerialInv'
  <2>1. proc' = [proc EXCEPT ![p] = state] /\ UNCHANGED disturbed
    BY <1>5 DEF Parsing, GoOn
  <2>2. QED
    BY <1>1, <1>2, <1>5, <2>1, ReadKeeps
<1>6. SoundProcess(proc[p], inodes) /\ DOMAIN inodes = 1 .. Len(inodes) /\ Len(inodes) \in Nat
      /\ \A k \in DOMAIN inodes : Len(inodes[k]) \in Nat
  BY LenProperties, ElementOfSeq DEF FileInv
<1>7. CASE Stat(p)
  <2>1. SoundReader(Reader, inodes)
    BY DEF SoundReader, Readers, Reader, NoFile
  <2>2. QED
    BY <1>4, <1>5, <1>7, <2>1 DEF Stat
<1>8. CASE OpenToRead(p)
  <2> DEFINE next == [proc[p] EXCEPT !.pc = "size", !.inode = path]
  <2>1. ASSUME path # NoFile PROVE SoundReader(next, inodes)
    <3>1. SoundReader(proc[p], inodes) /\ proc[p].pc = "open"
      BY <1>6, <1>8, StatesDiffer DEF OpenToRead
    <3>2. path \in DOMAIN inodes /\ path \in Nat
      BY <1>6, <2>1 DEF FileInv, NoFile
    <3>3. proc[p] \in Readers /\ proc[p].content = <<>>
      BY <3>1 DEF SoundReader
    <3>4. next \in Readers
      BY <3>2, <3>3 DEF Readers
    <3>5. next.pc = "size" /\ next.inode = path /\ next.content = <<>>
      BY <3>3 DEF Readers
    <3> HIDE DEF next
    <3>6. QED
      BY <3>2, <3>4, <3>5 DEF SoundReader
  <2>2. QED
    BY <1>4, <1>5, <1>8, <2>1 DEF OpenToRead
<1>9. CASE Measure(p)
  <2> DEFINE size == Len(inodes[proc[p].inode])
  <2> DEFINE next == [proc[p] EXCEPT !.pc = "read", !.size = size]
  <2>1. SoundReader(next, inodes)
    <3>1. SoundReader(proc[p], inodes) /\ proc[p].pc = "size"
      BY <1>6, <1>9, StatesDiffer DEF Measure
    <3>2. proc[p].inode \in DOMAIN inodes /\ proc[p].inode \in Nat /\ size \in Nat
      BY <1>6, <3>1 DEF SoundReader, Readers
    <3> HIDE DEF size
    <3>3. proc[p] \in Readers /\ proc[p].content = <<>>
      BY <3>1 DEF SoundReader
    <3>4. next \in Readers
      BY <3>2, <3>3 DEF Readers
    <3>5. next.pc = "read" /\ next.inode = proc[p].inode /\ next.size = size /\ next.content = <<>>
      BY <3>3 DEF Readers
    <3> HIDE DEF next
    <3>6. Len(next.content) = 0
      BY <3>5
    <3>7. QED
      BY <3>2, <3>4, <3>5, <3>6 DEF SoundReader
  <2>2. QED
    BY <1>4, <1>5, <1>9, <2>1 DEF Measure
<1>10. CASE ReadSome(p)
  <2> DEFINE text == inodes[proc[p].inode]
  <2> DEFINE had  == Len(proc[p].content)
  <2> DEFINE next == [proc[p] EXCEPT !.content = @ \o SubSeq(text, had + 1,
                                         Min({proc[p].size, Len(text), had + BufferSize}))]
  <2>1. proc[p].pc = "read" /\ had < proc[p].size
    BY <1>10 DEF ReadSome
  <2>2. CASE had >= Len(text)
    BY <1>4, <1>10, <2>2 DEF ReadSome, EndsEarly
  <2>3. CASE ~(had >= Len(text))
    <3>1. SoundReader(proc[p], inodes)
      BY <1>6, <2>1, StatesDiffer
    <3>2. had \in Nat /\ Len(text) \in Nat
      BY <1>6, <2>1, <3>1, LenProperties DEF SoundReader, Readers
    <3>3. had < Len(text)
      BY <2>3, <3>2
    <3>4. SoundReader(next, inodes)
      BY <2>1, <3>3, ReadKeepsSound
    <3>5. Parsing(p, next)
      BY <1>10, <2>3 DEF ReadSome
    <3>6. QED
      BY <1>5, <3>4, <3>5
  <2>4. QED
    BY <2>2, <2>3
<1>11. CASE ParseText(p)
  BY <1>4, <1>11 DEF ParseText
<1>12. CASE ReadFails(p)
  BY <1>4, <1>12 DEF ReadFails
<1>13. QED
  BY <1>7, <1>8, <1>9, <1>10, <1>11, <1>12

\* The end of a sync, removing the file, and calls that fail or are killed.
LEMMA OthersKeep ==
    ASSUME FileInv, SerialInv, NEW p \in Procs,
           \/ SyncReturns(p) \/ RemoveFile(p) \/ RemoveFails(p) \/ Kill(p)
           \/ \E d \in Documents : CreateFails(p, d)
    PROVE  FileInv' /\ SerialInv'
<1>1. UNCHANGED <<inodes, overlapped>> /\ path' \in {path, NoFile}
  BY DEF SyncReturns, RemoveFile, RemoveFails, Kill, CreateFails, Unchanged
<1>2. faults' \in Nat
  <2>1. faults \in Nat
    BY DEF FileInv
  <2>2. faults' = faults \/ faults' = faults + 1
    BY DEF SyncReturns, RemoveFile, RemoveFails, Kill, CreateFails, Fault
  <2>3. QED
    BY <2>1, <2>2
<1>3. ASSUME proc[p] = Idle PROVE p \notin disturbed
  <2>1. Outside(p)
    BY <1>3 DEF Outside, Idle
  <2>2. QED
    BY <2>1 DEF FileInv
<1>4. disturbed \ {p} \subseteq disturbed' /\ disturbed' \subseteq Disturbs(p) /\ p \notin disturbed'
  <2>1. CASE SyncReturns(p) \/ Kill(p)
    BY <2>1 DEF SyncReturns, Kill, Disturbs
  <2>2. CASE RemoveFile(p)
    BY <1>3, <2>2 DEF RemoveFile, Begin, Disturbs
  <2>3. CASE RemoveFails(p) \/ \E d \in Documents : CreateFails(p, d)
    BY <1>3, <2>3 DEF RemoveFails, CreateFails, Begin, Disturbs
  <2>4. QED
    BY <2>1, <2>2, <2>3
<1>5. PICK state \in {Idle, Killed} : proc' = [proc EXCEPT ![p] = state]
  BY DEF SyncReturns, RemoveFile, RemoveFails, Kill, CreateFails, Leave, GoOn
<1>6. QED
  BY <1>1, <1>2, <1>4, <1>5, RestKeeps

\* The invariants hold at first and go on to hold.
LEMMA FileInvInit == ASSUME FileInit PROVE FileInv /\ SerialInv
<1>1. /\ inodes \in Seq(Seq(FileSymbols)) /\ path \in 0 .. Len(inodes)
      /\ \A i \in DOMAIN inodes : \E t \in AllTexts : IsPrefix(inodes[i], t)
  <2>1. CASE FirstDocument = Absent
    BY <2>1 DEF FileInit, NoFile
  <2>2. CASE FirstDocument # Absent
    <3> DEFINE t == Render(FirstDocument)
    <3>1. path = 1 /\ inodes = << t >>
      BY <2>2 DEF FileInit
    <3>2. t \in Seq(FileSymbols) /\ Len(t) \in Nat
      BY <2>2, DocumentsAreText
    <3>3. t \in AllTexts
      BY <2>2 DEF AllTexts
    <3> HIDE DEF t
    <3>4. IsPrefix(t, t)
      BY <3>2 DEF IsPrefix
    <3>5. QED
      BY <3>1, <3>2, <3>3, <3>4
  <2>3. QED
    BY <2>1, <2>2
<1>2. /\ proc = [p \in Procs |-> Idle] /\ disturbed = {} /\ faults = 0
  BY DEF FileInit
<1>3. \A p \in Procs : proc[p] = Idle /\ proc[p].pc = "idle"
  BY <1>2 DEF Idle
<1>4. proc = [p \in Procs |-> proc[p]]
  BY <1>2
<1>5. QED
  BY <1>1, <1>2, <1>3, <1>4 DEF FileInv, SerialInv, SoundProcess, HoldsBeginning

LEMMA FileInvNext == ASSUME FileInv, SerialInv, [FileNext]_fileVars PROVE FileInv' /\ SerialInv'
<1>1. CASE UNCHANGED fileVars
  BY <1>1 DEF fileVars, FileInv, SerialInv, Outside
<1>2. CASE FileNext
  <2>1. PICK p \in Procs : Calls(p) \/ Steps(p) \/ Faults(p)
    BY <1>2 DEF FileNext
  <2>2. CASE Stat(p) \/ OpenToRead(p) \/ Measure(p) \/ ReadSome(p) \/ ParseText(p) \/ ReadFails(p)
    BY <2>2, ParseKeeps
  <2>3. CASE \E d \in Documents : OpenToWrite(p, d)
    BY <2>3, OpenKeeps
  <2>4. CASE \/ SyncReturns(p) \/ RemoveFile(p) \/ RemoveFails(p) \/ Kill(p)
             \/ \E d \in Documents : CreateFails(p, d)
    BY <2>4, OthersKeep
  <2>5. faults \in Nat
    BY DEF FileInv
  <2>6. CASE WriteSome(p)
    <3>1. PICK count \in 1 .. FlushLeft(p) :
             inodes' = AfterWrite(p, count) /\ proc' = [proc EXCEPT ![p] = Advanced(p, count)]
      BY <2>6 DEF WriteSome, GoOn
    <3>2. proc[p].pc = "writing" /\ UNCHANGED <<path, overlapped, faults>> /\ disturbed' = Disturbs(p)
      BY <2>6 DEF WriteSome
    <3>3. count \in 0 .. FlushLeft(p) /\ faults' \in Nat
      BY <2>5, <3>2
    <3>4. QED
      BY <3>1, <3>2, <3>3, WriteKeeps
  <2>7. CASE WriteFails(p)
    <3>1. PICK count \in 0 .. FlushLeft(p) :
             inodes' = AfterWrite(p, count) /\ proc' = [proc EXCEPT ![p] = Idle]
      BY <2>7 DEF WriteFails, Leave
    <3>2. /\ proc[p].pc = "writing" /\ UNCHANGED <<path, overlapped>>
          /\ faults' = faults + 1 /\ disturbed' = Disturbs(p) \ {p}
      BY <2>7 DEF WriteFails, Fault
    <3>3. faults' \in Nat
      BY <2>5, <3>2
    <3>4. QED
      BY <3>1, <3>2, <3>3, WriteKeeps
  <2>8. QED
    BY <2>1, <2>2, <2>3, <2>4, <2>6, <2>7 DEF Calls, Steps, Faults
<1>3. QED
  BY <1>1, <1>2

\* Whatever processes, calls and faults there are: a process never has an offset outside
\* of what it reads or writes, and the name of the file leads to a file or to none.
THEOREM FileIsTyped == FileSpec => []FileTypeOK
<1>1. ASSUME FileInv PROVE FileTypeOK
  <2>1. /\ inodes \in Seq(Seq(FileSymbols)) /\ DOMAIN inodes = 1 .. Len(inodes)
        /\ Len(inodes) \in Nat
    BY <1>1, LenProperties DEF FileInv
  <2>2. path \in DOMAIN inodes \cup {NoFile}
    BY <1>1, <2>1 DEF FileInv, NoFile
  <2>3. ASSUME NEW i \in DOMAIN inodes PROVE Range(inodes[i]) \subseteq Symbols \cup {NUL}
    <3>1. inodes[i] \in Seq(FileSymbols)
      BY <2>1, <2>3, ElementOfSeq
    <3>2. \A k \in DOMAIN inodes[i] : inodes[i][k] \in FileSymbols
      BY <3>1, LenProperties, ElementOfSeq
    <3>3. QED
      BY <3>2 DEF Range, FileSymbols
  <2>4. ASSUME NEW p \in Procs
        PROVE  /\ proc[p].pc \in {"idle", "killed", "open", "size", "read", "writing"}
               /\ proc[p].pc = "writing" => proc[p].inode \in DOMAIN inodes /\ Left(p) >= 0
               /\ proc[p].pc = "read" => Len(proc[p].content) <= proc[p].size
               /\ p \in disturbed => ~Outside(p)
    <3>1. SoundProcess(proc[p], inodes)
      BY <1>1 DEF FileInv
    <3>2. proc[p].pc = "writing" => proc[p].inode \in DOMAIN inodes /\ Left(p) >= 0
      BY <1>1, WriterFacts
    <3>3. QED
      BY <1>1, <3>1, <3>2, StatesDiffer DEF SoundReader, FileInv
  <2>5. QED
    BY <2>2, <2>3, <2>4 DEF FileTypeOK
<1>2. QED
  BY <1>1, FileInvInit, FileInvNext, PTL DEF FileSpec

\* uci2_ast_sync truncates a file before it writes, and a process may be killed or a write
\* fail at any point.  As long as no two syncs overlap, what is left in any file is the
\* beginning of one text, however often this happens.
THEOREM TornFilesAreBeginnings == FileSpec => []FilesAreBeginnings
<1>1. SerialInv => FilesAreBeginnings
  BY DEF SerialInv, FilesAreBeginnings
<1>2. QED
  BY <1>1, FileInvInit, FileInvNext, PTL DEF FileSpec

-----------------------------------------------------------------------------

\* What UE_NONE of a sync says in the step in which it is returned.
LEMMA NoneStep ==
    ASSUME FileInv, SerialInv, NoneMeansFlushed, [FileNext]_fileVars
    PROVE  NoneMeansFlushed'
<1>1. CASE UNCHANGED fileVars
  BY <1>1 DEF fileVars, NoneMeansFlushed
<1>2. ASSUME returned'.call # "sync" \/ returned'.err # "UE_NONE" PROVE NoneMeansFlushed'
  BY <1>2 DEF NoneMeansFlushed
<1>3. ASSUME NEW p \in Procs, SyncReturns(p) PROVE NoneMeansFlushed'
  <2> DEFINE t == Text(p)
  <2>1. proc[p].pc = "writing" /\ Left(p) = 0
    BY <1>3 DEF SyncReturns
  <2>2. /\ proc[p].done \in Nat /\ t \in Seq(FileSymbols) /\ Len(t) \in Nat
        /\ t = Render(proc[p].document)
    BY <2>1, WriterFacts DEF Text
  <2>3. /\ returned'.document = proc[p].document
        /\ returned'.disturbed = (p \in disturbed)
        /\ returned'.found = inodes[proc[p].inode]
    BY <1>3 DEF SyncReturns, Leave
  <2>4. ASSUME p \notin disturbed PROVE inodes[proc[p].inode] = t
    <3>1. inodes[proc[p].inode] = SubSeq(t, 1, proc[p].done)
      BY <2>1, <2>4 DEF FileInv, HoldsBeginning, Text
    <3>2. proc[p].done = Len(t)
      BY <2>1, <2>2 DEF Left
    <3> HIDE DEF t
    <3>3. QED
      BY <2>2, <3>1, <3>2
  <2>5. Len(t) >= FlushStart(Len(t) - 1)
    <3>1. Len(t) - 1 \in Int
      BY <2>2
    <3>2. FlushStart(Len(t) - 1) \in Int /\ FlushStart(Len(t) - 1) <= Len(t) - 1
      BY <3>1, FlushStartFacts
    <3>3. QED
      BY <2>2, <3>2
  <2>6. IsPrefix(t, t)
    <3> HIDE DEF t
    <3>1. QED
      BY <2>2 DEF IsPrefix
  <2>7. Render(returned'.document) = t
    BY <2>2, <2>3
  <2> HIDE DEF t
  <2>8. QED
    BY <2>3, <2>4, <2>5, <2>6, <2>7 DEF NoneMeansFlushed
<1>4. ASSUME NEW p \in Procs, WriteFails(p) PROVE NoneMeansFlushed'
  <2> DEFINE t == Text(p)
  <2> DEFINE n == proc[p].done
  <2> DEFINE i == proc[p].inode
  <2>1. PICK count \in 0 .. FlushLeft(p) :
           Leave(p, "sync", FailureCode(p), proc[p].document, Unknown, AfterWrite(p, count)[i])
    BY <1>4 DEF WriteFails
  <2>2. proc[p].pc = "writing" /\ faults' = faults + 1 /\ faults \in Nat
    BY <1>4 DEF WriteFails, Fault, FileInv
  <2>3. /\ returned'.document = proc[p].document
        /\ returned'.disturbed = (p \in disturbed)
        /\ returned'.err = FailureCode(p)
        /\ returned'.found = AfterWrite(p, count)[i]
    BY <2>1 DEF Leave
  <2>4. /\ n \in Nat /\ t \in Seq(FileSymbols) /\ Len(t) \in Nat /\ count \in Nat
        /\ n + count <= Len(t) /\ i \in DOMAIN inodes
    BY <2>2, WriterFacts
  <2>5. Render(returned'.document) = t
    BY <2>3 DEF Text
  <2>6. ASSUME p \notin disturbed PROVE returned'.found = SubSeq(t, 1, n + count)
    <3>1. inodes[i] = SubSeq(t, 1, n)
      BY <2>2, <2>6 DEF FileInv, HoldsBeginning, Text
    <3>2. AfterWrite(p, count)[i] = Overwritten(inodes[i], n, SubSeq(t, n + 1, n + count))
      BY <2>4 DEF AfterWrite
    <3>3. Overwritten(SubSeq(t, 1, n), n, SubSeq(t, n + 1, n + count)) = SubSeq(t, 1, n + count)
      BY <2>4, WriteGoesOn
    <3>4. returned'.found = AfterWrite(p, count)[i]
      BY <2>3
    <3> HIDE DEF t, n, i
    <3>5. QED
      BY <3>1, <3>2, <3>3, <3>4
  <2>7. n + count \in 0 .. Len(t)
    BY <2>4
  <2> HIDE DEF t, n
  <2>8. /\ IsPrefix(SubSeq(t, 1, n + count), t)
        /\ Len(SubSeq(t, 1, n + count)) = n + count
    BY <2>4, <2>7, BeginningFacts
  <2>9. ASSUME returned'.err = "UE_NONE" PROVE n + count >= FlushStart(Len(t) - 1)
    <3>1. FlushStart(n) = FlushStart(Len(t) - 1)
      <4>1. FailureCode(p) = "UE_NONE"
        BY <2>3, <2>9
      <4>2. InLastFlush(p)
        BY <4>1 DEF FailureCode
      <4>3. QED
        BY <4>2 DEF InLastFlush, t, n
    <3>2. n \in Int /\ count \in Nat
      BY <2>4
    <3>3. FlushStart(n) \in Int /\ FlushStart(n) <= n
      BY <3>2, FlushStartFacts
    <3>4. n + count >= FlushStart(n)
      BY <3>2, <3>3
    <3>5. QED
      BY <3>1, <3>4
  <2>10. faults' # 0
    BY <2>2
  <2>11. QED
    BY <2>3, <2>5, <2>6, <2>8, <2>9, <2>10 DEF NoneMeansFlushed
<1>5. ASSUME NEW p \in Procs, Calls(p) \/ Steps(p) \/ Faults(p), ~SyncReturns(p), ~WriteFails(p)
      PROVE  returned'.call # "sync" \/ returned'.err # "UE_NONE"
  <2>1. CASE Stat(p) \/ OpenToRead(p) \/ Measure(p) \/ ReadSome(p) \/ ParseText(p) \/ ReadFails(p)
    <3>1. CASE Stat(p)
      BY <3>1 DEF Stat, Parsing, ParseReturns, EndsEarly, GoOn, Leave, NoReturn
    <3>2. CASE OpenToRead(p)
      BY <3>2 DEF OpenToRead, Parsing, ParseReturns, EndsEarly, GoOn, Leave, NoReturn
    <3>3. CASE Measure(p)
      BY <3>3 DEF Measure, Parsing, ParseReturns, EndsEarly, GoOn, Leave, NoReturn
    <3>4. CASE ReadSome(p)
      BY <3>4 DEF ReadSome, Parsing, ParseReturns, EndsEarly, GoOn, Leave, NoReturn
    <3>5. CASE ParseText(p)
      BY <3>5 DEF ParseText, Parsing, ParseReturns, EndsEarly, GoOn, Leave, NoReturn
    <3>6. CASE ReadFails(p)
      BY <3>6 DEF ReadFails, Parsing, ParseReturns, EndsEarly, GoOn, Leave, NoReturn
    <3>7. QED
      BY <2>1, <3>1, <3>2, <3>3, <3>4, <3>5, <3>6
  <2>2. CASE \E d \in Documents : OpenToWrite(p, d) \/ CreateFails(p, d)
    BY <2>2 DEF OpenToWrite, CreateFails, GoOn, Leave, NoReturn
  <2>3. CASE WriteSome(p) \/ Kill(p) \/ RemoveFile(p) \/ RemoveFails(p)
    BY <2>3 DEF WriteSome, Kill, RemoveFile, RemoveFails, GoOn, Leave, NoReturn
  <2>4. QED
    BY <1>5, <2>1, <2>2, <2>3 DEF Calls, Steps, Faults
<1>6. QED
  BY <1>1, <1>2, <1>3, <1>4, <1>5 DEF FileNext

\* The results of fflush, fsync and fclose are not looked at.  UE_NONE of an undisturbed
\* sync still says that everything before the last flush of stdio is in the file, whatever
\* the document and the size of the buffer.
THEOREM NoneSaysFlushed == FileSpec => []NoneMeansFlushed
<1>1. FileInit => NoneMeansFlushed
  BY DEF FileInit, NoReturn, NoneMeansFlushed
<1>2. QED
  BY <1>1, FileInvInit, FileInvNext, NoneStep, PTL DEF FileSpec

-----------------------------------------------------------------------------
(***************************************************************************)
(* What a parse reads that nobody disturbs.                                *)
(***************************************************************************)

WrittenDocuments == (Documents \cup {FirstDocument}) \ {Absent}

\* What is known of the file.
Known ==
    settled # Unknown =>
        IF path = NoFile THEN settled = Absent
        ELSE settled \in WrittenDocuments /\ inodes[path] = Render(settled)

\* What a process that nobody has disturbed knows: the file is still the one it has
\* opened, has the size that was measured and begins with what was read.
ReadsOn(p) ==
    /\ proc[p].pc = "open" => path # NoFile
    /\ proc[p].pc \in {"size", "read", "writing"} => path = proc[p].inode
    /\ proc[p].pc = "read" =>
          /\ proc[p].size = Len(inodes[path])
          /\ proc[p].content = SubSeq(inodes[path], 1, Len(proc[p].content))

KnownInv == Known /\ \A p \in Procs : p \notin disturbed => ReadsOn(p)

\* A document without a text is empty.
LEMMA EmptyTextIsEmpty ==
    ASSUME NEW d \in WrittenDocuments, Render(d) = <<>>
    PROVE  d = <<>>
<1> DEFINE parts == [k \in DOMAIN d |-> RenderSection(d[k])]
<1>1. /\ Len(d) \in Nat /\ DOMAIN d = 1 .. Len(d) /\ d = [k \in 1 .. Len(d) |-> d[k]]
      /\ \A k \in 1 .. Len(d) : d[k] \in
            [type : Seq(Symbols), name : Seq(Symbols) \cup {NoString}, lines : Seq(TextLines)]
  <2>1. d \in TextDocuments
    BY DocumentsAssumption DEF WrittenDocuments
  <2>2. QED
    BY <2>1, LenProperties, ElementOfSeq DEF TextDocuments
<1>2. ASSUME NEW k \in 1 .. Len(d)
      PROVE  RenderSection(d[k]) \in Seq(Symbols) /\ Len(RenderSection(d[k])) > 0
  <2> DEFINE section == d[k]
  <2>1. /\ section.type \in Seq(Symbols)
        /\ section.name \in Seq(Symbols) \cup {NoString}
        /\ section.lines \in Seq(TextLines)
    BY <1>1
  <2> HIDE DEF section
  <2>2. RenderSection(section) \in Seq(Symbols) /\ RenderSection(section) # <<>>
    BY <2>1, SectionIsText
  <2>3. QED
    BY <2>2, EmptySeq, LenProperties DEF section
<1>3. Render(d) = FlattenSeq(parts)
  BY DEF Render, SeqMap
<1>4. parts \in Seq(Seq(Symbols)) /\ Len(parts) = Len(d)
  <2>1. parts = [k \in 1 .. Len(d) |-> RenderSection(d[k])]
    BY <1>1
  <2>2. QED
    BY <1>1, <1>2, <2>1
<1>5. MadeOf(Render(d), parts, Len(d))
  BY <1>3, <1>4, FlattenFacts
<1>6. ASSUME Len(d) # 0 PROVE FALSE
  <2>1. 1 \in 1 .. Len(d) /\ parts[1] = RenderSection(d[1])
    BY <1>1, <1>6
  <2>2. 1 \in 1 .. Len(parts[1])
    <3>1. Len(RenderSection(d[1])) > 0 /\ RenderSection(d[1]) \in Seq(Symbols)
      BY <1>2, <2>1
    <3>2. QED
      BY <2>1, <3>1, LenProperties
  <2> HIDE DEF parts
  <2>3. \E p \in 1 .. Len(Render(d)) : Render(d)[p] = parts[1][1]
    BY <1>5, <2>1, <2>2 DEF MadeOf
  <2>4. QED
    BY <2>3
<1>7. QED
  BY <1>1, <1>6

\* What other processes know after a step of p, that changes no file or disturbs them.
LEMMA OthersReadOn ==
    ASSUME FileInv, KnownInv, NEW p \in Procs,
           \A q \in Procs \ {p} : proc'[q] = proc[q],
           \/ UNCHANGED <<path, inodes>> /\ disturbed \ {p} \subseteq disturbed'
           \/ Disturbs(p) \ {p} \subseteq disturbed'
    PROVE  \A q \in Procs \ {p} : q \notin disturbed' => ReadsOn(q)'
<1>1. SUFFICES ASSUME NEW q \in Procs \ {p}, q \notin disturbed' PROVE ReadsOn(q)'
  OBVIOUS
<1>2. proc'[q] = proc[q]
  OBVIOUS
<1>3. CASE UNCHANGED <<path, inodes>> /\ q \notin disturbed
  BY <1>2, <1>3 DEF KnownInv, ReadsOn
<1>4. CASE Outside(q)
  BY <1>2, <1>4 DEF ReadsOn, Outside
<1>5. QED
  BY <1>1, <1>3, <1>4 DEF Disturbs

\* The invariant after a step of p.
LEMMA KnownGoesOn ==
    ASSUME FileInv, KnownInv, NEW p \in Procs, NEW state,
           proc' = [proc EXCEPT ![p] = state],
           \/ UNCHANGED <<path, inodes>> /\ disturbed \ {p} \subseteq disturbed'
           \/ Disturbs(p) \ {p} \subseteq disturbed',
           Known', p \notin disturbed' => ReadsOn(p)'
    PROVE  KnownInv'
<1>1. \A q \in Procs \ {p} : proc'[q] = proc[q]
  BY DEF FileInv
<1>2. QED
  BY <1>1, OthersReadOn DEF KnownInv

\* A text without a NUL is scanned to its end.
LEMMA TextIsScanned ==
    ASSUME NEW t \in Seq(Symbols)
    PROVE  Scanned(t) = t
<1>1. \A k \in DOMAIN t : t[k] # NUL
  BY NulAssumption, LenProperties, ElementOfSeq
<1>2. QED
  BY <1>1 DEF Scanned

\* What a process has read that nobody has disturbed, is what is in the file.
LEMMA WholeFileIsRead ==
    ASSUME FileInv, KnownInv, NEW p \in Procs, p \notin disturbed,
           proc[p].pc = "read", Len(proc[p].content) = proc[p].size
    PROVE  path \in DOMAIN inodes /\ path # NoFile /\ proc[p].content = inodes[path]
<1>1. SoundReader(proc[p], inodes)
  BY StatesDiffer DEF FileInv
<1>2. /\ path = proc[p].inode /\ path \in DOMAIN inodes
      /\ proc[p].size = Len(inodes[path])
      /\ proc[p].content = SubSeq(inodes[path], 1, Len(proc[p].content))
  BY <1>1 DEF KnownInv, ReadsOn, SoundReader
<1>3. inodes[path] \in Seq(FileSymbols) /\ DOMAIN inodes = 1 .. Len(inodes)
  BY <1>2, LenProperties, ElementOfSeq DEF FileInv
<1>4. SubSeq(inodes[path], 1, Len(inodes[path])) = inodes[path]
  BY <1>3
<1>5. QED
  BY SMTT(30), <1>2, <1>3, <1>4 DEF NoFile

\* A call that returns its answer has lost nothing of what the file is known to hold.
LEMMA ReadAnswers ==
    ASSUME FileInv, NEW p \in Procs, NEW error, NEW document, ParseReturns(p, error, document),
           p \notin disturbed /\ settled # Unknown =>
               \/ error = "UE_FILE_IO" /\ faults' > 0 /\ settled # Absent
               \/ error = "UE_FILE_NOT_FOUND" /\ settled = Absent
               \/ error = "UE_NONE" /\ document = settled
    PROVE  UndisturbedReadsLast'
BY DEF ParseReturns, Leave, UndisturbedReadsLast

\* The same for what is left of a file that was torn.
LEMMA TornAnswers ==
    ASSUME NEW p \in Procs, NEW error, NEW document, ParseReturns(p, error, document),
           UNCHANGED overlapped,
           p \notin disturbed /\ ~overlapped /\ error = "UE_NONE" =>
               \E d \in WrittenDocuments : CutDocument(document, d)
    PROVE  TornFileIsCut'
BY DEF ParseReturns, Leave, TornFileIsCut, WrittenDocuments

\* A step that is no return of a parse answers nothing.
LEMMA NoAnswer ==
    ASSUME returned'.call # "parse"
    PROVE  UndisturbedReadsLast' /\ TornFileIsCut'
BY DEF UndisturbedReadsLast, TornFileIsCut

\* A call that goes on has no answer yet.
LEMMA GoOnAnswersNothing ==
    ASSUME NEW p, NEW state, GoOn(p, state)
    PROVE  returned'.call # "parse"
BY DEF GoOn, NoReturn

\* The beginning of a written text that an undisturbed file holds.
LEMMA FileIsBeginning ==
    ASSUME FileInv, SerialInv, ~overlapped, NEW i \in DOMAIN inodes
    PROVE  \E d \in WrittenDocuments : \E n \in 0 .. Len(Render(d)) :
               inodes[i] = SubSeq(Render(d), 1, n) /\ inodes[i] \in Seq(Symbols)
<1>1. PICK t \in AllTexts : IsPrefix(inodes[i], t)
  BY DEF SerialInv
<1>2. PICK d \in WrittenDocuments : t = Render(d)
  BY <1>1 DEF AllTexts, WrittenDocuments
<1>3. t \in Seq(Symbols) /\ Len(t) \in Nat
  BY <1>2, DocumentsAreText DEF WrittenDocuments
<1>4. inodes[i] \in Seq(FileSymbols)
  BY LenProperties, ElementOfSeq DEF FileInv
<1> DEFINE n == Len(inodes[i])
<1>5. n \in Nat /\ n <= Len(t) /\ inodes[i] = SubSeq(t, 1, n)
  <2>1. n <= Len(t) /\ SubSeq(inodes[i], 1, n) = SubSeq(t, 1, n)
    BY <1>1 DEF IsPrefix
  <2>2. SubSeq(inodes[i], 1, n) = inodes[i]
    BY <1>4, SubSeqFull
  <2>3. QED
    BY <1>4, <2>1, <2>2, LenProperties
<1>6. SubSeq(t, 1, n) \in Seq(Symbols)
  BY <1>3, <1>5, BeginningFacts
<1>7. n \in 0 .. Len(Render(d)) /\ inodes[i] = SubSeq(Render(d), 1, n) /\ inodes[i] \in Seq(Symbols)
  BY <1>2, <1>3, <1>5, <1>6
<1>8. QED
  BY <1>7

\* What the file holds when its document is known.
LEMMA KnownText ==
    ASSUME FileInv, KnownInv, settled # Unknown, path # NoFile
    PROVE  settled \in WrittenDocuments /\ inodes[path] = Render(settled) /\ inodes[path] \in Seq(Symbols)
BY DocumentsAreText DEF KnownInv, Known, WrittenDocuments

\* What an undisturbed parse makes of the text.
LEMMA ParseTextAnswers ==
    ASSUME FileInv, SerialInv, KnownInv, NEW p \in Procs, ParseText(p)
    PROVE  /\ (\A d \in WrittenDocuments : ReadBack(d)) => UndisturbedReadsLast'
           /\ (\A d \in WrittenDocuments : Tearable(d)) => TornFileIsCut'
<1> DEFINE tokens == Lex(Scanned(proc[p].content))
<1>1. /\ proc[p].pc = "read" /\ Len(proc[p].content) = proc[p].size
      /\ IF Grammatical(tokens) THEN ParseReturns(p, "UE_NONE", DocumentOf(tokens))
                                ELSE ParseReturns(p, "UE_PARSER", <<>>)
      /\ UNCHANGED overlapped
  BY DEF ParseText, Unchanged
<1>2. ASSUME p \notin disturbed
      PROVE  path \in DOMAIN inodes /\ path # NoFile /\ proc[p].content = inodes[path]
  BY <1>1, <1>2, WholeFileIsRead
<1>3. ASSUME \A d \in WrittenDocuments : ReadBack(d), p \notin disturbed, settled # Unknown
      PROVE  Grammatical(tokens) /\ DocumentOf(tokens) = settled
  <2>1. /\ settled \in WrittenDocuments /\ proc[p].content = Render(settled)
        /\ proc[p].content \in Seq(Symbols)
    BY <1>2, <1>3, KnownText
  <2>2. tokens = Lex(Render(settled))
    BY <2>1, TextIsScanned
  <2>3. QED
    BY <1>3, <2>1, <2>2 DEF ReadBack
<1>4. ASSUME \A d \in WrittenDocuments : Tearable(d), p \notin disturbed, ~overlapped, Grammatical(tokens)
      PROVE  \E d \in WrittenDocuments : CutDocument(DocumentOf(tokens), d)
  <2>1. PICK d \in WrittenDocuments : \E n \in 0 .. Len(Render(d)) :
              inodes[path] = SubSeq(Render(d), 1, n) /\ inodes[path] \in Seq(Symbols)
    BY <1>2, <1>4, FileIsBeginning
  <2>2. PICK n \in 0 .. Len(Render(d)) :
              inodes[path] = SubSeq(Render(d), 1, n) /\ inodes[path] \in Seq(Symbols)
    BY <2>1
  <2>3. tokens = Lex(SubSeq(Render(d), 1, n))
    BY <1>2, <1>4, <2>2, TextIsScanned
  <2>4. CutDocument(DocumentOf(tokens), d)
    BY <1>4, <2>3 DEF Tearable
  <2>5. QED
    BY <2>4
<1> HIDE DEF tokens
<1>5. CASE Grammatical(tokens)
  BY <1>1, <1>3, <1>4, <1>5, ReadAnswers, TornAnswers
<1>6. CASE ~Grammatical(tokens)
  <2>1. ParseReturns(p, "UE_PARSER", <<>>)
    BY <1>1, <1>6
  <2>2. (\A d \in WrittenDocuments : ReadBack(d)) => UndisturbedReadsLast'
    BY <1>3, <1>6, <2>1, ReadAnswers
  <2>3. TornFileIsCut'
    BY <1>1, <2>1, TornAnswers
  <2>4. QED
    BY <2>2, <2>3
<1>7. QED
  BY <1>5, <1>6

\* An empty file is an empty document, which nothing but the empty one is written as.
LEMMA MeasureAnswers ==
    ASSUME FileInv, SerialInv, KnownInv, NEW p \in Procs, Measure(p),
           ParseReturns(p, "UE_NONE", <<>>), Len(inodes[proc[p].inode]) = 0
    PROVE  UndisturbedReadsLast' /\ TornFileIsCut'
<1>1. proc[p].pc = "size" /\ UNCHANGED overlapped
  BY DEF Measure, Unchanged
<1>2. SoundReader(proc[p], inodes)
  BY <1>1, StatesDiffer DEF FileInv
<1>3. /\ proc[p].inode \in DOMAIN inodes /\ proc[p].inode # NoFile
      /\ inodes[proc[p].inode] \in Seq(FileSymbols)
  BY <1>1, <1>2, LenProperties, ElementOfSeq DEF SoundReader, FileInv, NoFile
<1>4. inodes[proc[p].inode] = <<>>
  BY <1>3, EmptySeq
<1>5. ASSUME p \notin disturbed PROVE path = proc[p].inode
  BY <1>1, <1>5 DEF KnownInv, ReadsOn
<1>6. ASSUME p \notin disturbed, settled # Unknown PROVE settled = <<>>
  <2>1. settled \in WrittenDocuments /\ Render(settled) = <<>>
    BY <1>3, <1>4, <1>5, <1>6, KnownText
  <2>2. QED
    BY <2>1, EmptyTextIsEmpty
<1>7. ASSUME p \notin disturbed, ~overlapped PROVE \E d \in WrittenDocuments : CutDocument(<<>>, d)
  <2>1. PICK d \in WrittenDocuments : TRUE
    BY <1>3, <1>7, FileIsBeginning
  <2>2. Len(d) \in Nat
    BY DocumentsAssumption, LenProperties DEF WrittenDocuments, TextDocuments
  <2>3. CutDocument(<<>>, d)
    BY <2>2 DEF CutDocument
  <2>4. QED
    BY <2>3
<1>8. QED
  BY <1>1, <1>6, <1>7, ReadAnswers, TornAnswers

\* What every step of a parse leaves of the invariant.
LEMMA ParseKnows ==
    ASSUME FileInv, SerialInv, KnownInv, NEW p \in Procs,
           Stat(p) \/ OpenToRead(p) \/ Measure(p) \/ ReadSome(p) \/ ParseText(p) \/ ReadFails(p)
    PROVE  KnownInv'
<1>1. UNCHANGED <<path, inodes, settled>>
  BY DEF Stat, OpenToRead, Measure, ReadSome, ParseText, ReadFails, Unchanged
<1>2. Known'
  BY <1>1 DEF KnownInv, Known
<1>3. ASSUME NEW error, NEW document, ParseReturns(p, error, document) PROVE KnownInv'
  <2>1. proc' = [proc EXCEPT ![p] = Idle] /\ disturbed' = disturbed \ {p}
    BY <1>3 DEF ParseReturns, Leave
  <2>2. ReadsOn(p)'
    <3>1. proc'[p] = Idle
      BY <2>1 DEF FileInv
    <3>2. QED
      BY <3>1 DEF ReadsOn, Idle
  <2>3. QED
    BY <1>1, <1>2, <2>1, <2>2, KnownGoesOn
<1>4. ASSUME NEW state, Parsing(p, state),
             p \notin disturbed =>
                /\ state.pc = "open" => path # NoFile
                /\ state.pc \in {"size", "read", "writing"} => path = state.inode
                /\ state.pc = "read" =>
                      /\ state.size = Len(inodes[path])
                      /\ state.content = SubSeq(inodes[path], 1, Len(state.content))
      PROVE  KnownInv'
  <2>1. proc' = [proc EXCEPT ![p] = state] /\ disturbed' = disturbed
    BY <1>4 DEF Parsing, GoOn
  <2>2. proc'[p] = state
    BY <2>1 DEF FileInv
  <2>3. p \notin disturbed' => ReadsOn(p)'
    BY <1>1, <1>4, <2>1, <2>2 DEF ReadsOn
  <2>4. QED
    BY <1>1, <1>2, <2>1, <2>3, KnownGoesOn
<1>5. CASE Stat(p)
  BY <1>3, <1>4, <1>5 DEF Stat, Reader
<1>6. SoundProcess(proc[p], inodes)
  BY DEF FileInv
<1>7. CASE OpenToRead(p)
  <2> DEFINE next == [proc[p] EXCEPT !.pc = "size", !.inode = path]
  <2>1. next.pc = "size" /\ next.inode = path
    <3>1. proc[p] \in Readers
      BY <1>6, <1>7, StatesDiffer DEF OpenToRead, SoundReader
    <3>2. QED
      BY <3>1 DEF Readers
  <2>2. path = NoFile \/ Parsing(p, next)
    BY <1>7 DEF OpenToRead
  <2> HIDE DEF next
  <2>3. QED
    BY <1>3, <1>4, <1>7, <2>1, <2>2 DEF OpenToRead
<1>8. CASE Measure(p)
  <2> DEFINE size == Len(inodes[proc[p].inode])
  <2> DEFINE next == [proc[p] EXCEPT !.pc = "read", !.size = size]
  <2>1. SoundReader(proc[p], inodes) /\ proc[p].pc = "size"
    BY <1>6, <1>8, StatesDiffer DEF Measure
  <2>2. next.pc = "read" /\ next.inode = proc[p].inode /\ next.size = size /\ next.content = <<>>
    BY <2>1 DEF SoundReader, Readers
  <2>3. SubSeq(inodes[path], 1, Len(<<>>)) = <<>>
    BY SubSeqEmpty
  <2>4. p \notin disturbed => path = proc[p].inode
    BY <2>1 DEF KnownInv, ReadsOn
  <2>5. (\E error, document : ParseReturns(p, error, document)) \/ Parsing(p, next)
    BY <1>8 DEF Measure
  <2>6. CASE Parsing(p, next)
    <3> HIDE DEF next
    <3>1. QED
      BY <1>4, <2>2, <2>3, <2>4, <2>6
  <2>7. QED
    BY <1>3, <2>5, <2>6
<1>9. CASE ReadSome(p)
  <2> DEFINE text == inodes[proc[p].inode]
  <2> DEFINE had  == Len(proc[p].content)
  <2> DEFINE next == [proc[p] EXCEPT !.content = @ \o SubSeq(text, had + 1,
                                         Min({proc[p].size, Len(text), had + BufferSize}))]
  <2>1. proc[p].pc = "read" /\ had < proc[p].size
    BY <1>9 DEF ReadSome
  <2>2. CASE had >= Len(text)
    BY <1>3, <1>9, <2>2 DEF ReadSome, EndsEarly
  <2>3. CASE ~(had >= Len(text))
    <3>1. SoundReader(proc[p], inodes)
      BY <1>6, <2>1, StatesDiffer
    <3>2. had \in Nat /\ Len(text) \in Nat
      BY <2>1, <3>1, LenProperties, ElementOfSeq DEF SoundReader, Readers, FileInv
    <3>3. had < Len(text)
      BY <2>3, <3>2
    <3>4. /\ next.pc = "read" /\ next.inode = proc[p].inode /\ next.size = proc[p].size
          /\ proc[p].content = SubSeq(text, 1, had)
                => next.content = SubSeq(text, 1, Len(next.content))
      BY <2>1, <3>3, ReadKeepsSound
    <3>5. Parsing(p, next)
      BY <1>9, <2>3 DEF ReadSome
    <3>6. p \notin disturbed =>
              /\ path = proc[p].inode
              /\ proc[p].size = Len(inodes[path])
              /\ proc[p].content = SubSeq(inodes[path], 1, Len(proc[p].content))
      BY <2>1 DEF KnownInv, ReadsOn
    <3> HIDE DEF next
    <3>7. QED
      BY <1>4, <3>4, <3>5, <3>6
  <2>4. QED
    BY <2>2, <2>3
<1>10. CASE ParseText(p) \/ ReadFails(p)
  BY <1>3, <1>10 DEF ParseText, ReadFails
<1>11. QED
  BY <1>5, <1>7, <1>8, <1>9, <1>10

\* What the end of a sync, removing the file and failures leave of the invariant.
LEMMA OthersKnow ==
    ASSUME FileInv, SerialInv, KnownInv, NEW p \in Procs,
           \/ SyncReturns(p) \/ RemoveFile(p) \/ RemoveFails(p) \/ Kill(p) \/ WriteFails(p)
           \/ \E d \in Documents : CreateFails(p, d)
    PROVE  KnownInv'
<1>1. PICK state \in {Idle, Killed} : proc' = [proc EXCEPT ![p] = state]
  BY DEF SyncReturns, RemoveFile, RemoveFails, Kill, CreateFails, WriteFails, Leave, GoOn
<1>2. ReadsOn(p)'
  <2>1. proc'[p] = state
    BY <1>1 DEF FileInv
  <2>2. QED
    BY <2>1 DEF ReadsOn, Idle, Killed
<1>3. CASE RemoveFails(p) \/ Kill(p) \/ \E d \in Documents : CreateFails(p, d)
  <2>1. UNCHANGED <<path, inodes, settled>> /\ disturbed \ {p} \subseteq disturbed'
    BY <1>3 DEF RemoveFails, Kill, CreateFails, Unchanged
  <2>2. Known'
    BY <2>1 DEF KnownInv, Known
  <2>3. QED
    BY <1>1, <1>2, <2>1, <2>2, KnownGoesOn
<1>4. CASE SyncReturns(p)
  <2>1. /\ UNCHANGED <<path, inodes>> /\ disturbed \ {p} \subseteq disturbed'
        /\ proc[p].pc = "writing" /\ Left(p) = 0
        /\ settled' = IF p \in disturbed THEN Unknown ELSE proc[p].document
    BY <1>4 DEF SyncReturns
  <2>2. ASSUME p \notin disturbed
        PROVE  /\ path # NoFile /\ proc[p].document \in WrittenDocuments
               /\ inodes[path] = Render(proc[p].document)
    <3>1. /\ proc[p].document \in WrittenDocuments /\ proc[p].inode \in DOMAIN inodes
          /\ proc[p].done \in Nat /\ Text(p) \in Seq(FileSymbols) /\ Len(Text(p)) \in Nat
      BY <2>1, WriterFacts DEF WrittenDocuments
    <3>2. path = proc[p].inode /\ path # NoFile
      BY <2>1, <2>2, <3>1, LenProperties DEF KnownInv, ReadsOn, FileInv, NoFile
    <3>3. inodes[path] = SubSeq(Text(p), 1, proc[p].done)
      BY <2>1, <2>2, <3>2 DEF FileInv, HoldsBeginning, Text
    <3>4. proc[p].done = Len(Text(p))
      BY <2>1, <3>1 DEF Left
    <3>5. SubSeq(Text(p), 1, Len(Text(p))) = Text(p)
      BY <3>1, SubSeqFull
    <3>6. QED
      BY <3>1, <3>2, <3>3, <3>4, <3>5 DEF Text
  <2>3. Known'
    BY <2>1, <2>2 DEF Known
  <2>4. QED
    BY <1>1, <1>2, <2>1, <2>3, KnownGoesOn
<1>5. CASE RemoveFile(p)
  <2>1. CASE path = NoFile
    <3>1. UNCHANGED <<path, inodes, settled, disturbed>>
      BY <1>5, <2>1 DEF RemoveFile
    <3>2. Known' /\ disturbed \ {p} \subseteq disturbed'
      BY <3>1 DEF KnownInv, Known
    <3>3. QED
      BY <1>1, <1>2, <3>1, <3>2, KnownGoesOn
  <2>2. CASE path # NoFile
    <3>1. path' = NoFile /\ settled' = Absent /\ disturbed' = Disturbs(p)
      BY <1>5, <2>2 DEF RemoveFile
    <3>2. Known' /\ Disturbs(p) \ {p} \subseteq disturbed'
      BY <3>1 DEF Known
    <3>3. QED
      BY <1>1, <1>2, <3>2, KnownGoesOn
  <2>3. QED
    BY <2>1, <2>2
<1>6. CASE WriteFails(p)
  <2>1. settled' = Unknown /\ disturbed' = Disturbs(p) \ {p}
    BY <1>6 DEF WriteFails
  <2>2. Known' /\ Disturbs(p) \ {p} \subseteq disturbed'
    BY <2>1 DEF Known
  <2>3. QED
    BY <1>1, <1>2, <2>2, KnownGoesOn
<1>7. QED
  BY <1>3, <1>4, <1>5, <1>6

\* What the steps of a sync leave of it.
LEMMA WritersKnow ==
    ASSUME FileInv, SerialInv, KnownInv, NEW p \in Procs,
           WriteSome(p) \/ \E d \in Documents : OpenToWrite(p, d)
    PROVE  KnownInv'
<1>1. settled' = Unknown /\ disturbed' = Disturbs(p)
  BY DEF WriteSome, OpenToWrite
<1>2. Known' /\ Disturbs(p) \ {p} \subseteq disturbed'
  BY <1>1 DEF Known
<1>3. CASE WriteSome(p)
  <2>1. PICK count \in 1 .. FlushLeft(p) : proc' = [proc EXCEPT ![p] = Advanced(p, count)]
    BY <1>3 DEF WriteSome, GoOn
  <2>2. proc[p].pc = "writing" /\ path' = path
    BY <1>3 DEF WriteSome
  <2>3. proc'[p].pc = "writing" /\ proc'[p].inode = proc[p].inode
    <3>1. proc'[p] = [proc[p] EXCEPT !.done = @ + count]
      BY <2>1 DEF FileInv, Advanced
    <3>2. proc[p] \in Writers
      BY <2>2, WriterFacts
    <3>3. QED
      BY <3>1, <3>2 DEF Writers
  <2>4. ASSUME p \notin disturbed' PROVE ReadsOn(p)'
    <3>1. p \notin disturbed
      BY <1>1, <2>4 DEF Disturbs
    <3>2. path = proc[p].inode
      BY <2>2, <3>1 DEF KnownInv, ReadsOn
    <3>3. QED
      BY <2>2, <2>3, <3>2 DEF ReadsOn
  <2>5. QED
    BY <1>2, <2>1, <2>4, KnownGoesOn
<1>4. CASE \E d \in Documents : OpenToWrite(p, d)
  <2>1. PICK d \in Documents : OpenToWrite(p, d)
    BY <1>4
  <2>2. proc' = [proc EXCEPT ![p] = Writer(path', d)]
    BY <2>1 DEF OpenToWrite, GoOn
  <2>3. proc'[p].pc = "writing" /\ proc'[p].inode = path'
    BY <2>2 DEF FileInv, Writer
  <2>4. ReadsOn(p)'
    BY <2>3 DEF ReadsOn
  <2>5. QED
    BY <1>2, <2>2, <2>4, KnownGoesOn
<1>5. QED
  BY <1>3, <1>4

\* It holds at first and goes on to hold.
LEMMA KnownInvInit == ASSUME FileInit PROVE KnownInv /\ UndisturbedReadsLast /\ TornFileIsCut
<1>1. Known
  <2>1. CASE FirstDocument = Absent
    BY <2>1 DEF FileInit, Known, NoFile
  <2>2. CASE FirstDocument # Absent
    BY <2>2 DEF FileInit, Known, NoFile, WrittenDocuments
  <2>3. QED
    BY <2>1, <2>2
<1>2. \A p \in Procs : ReadsOn(p)
  BY DEF FileInit, Idle, ReadsOn
<1>3. UndisturbedReadsLast /\ TornFileIsCut
  BY DEF FileInit, NoReturn, UndisturbedReadsLast, TornFileIsCut
<1>4. QED
  BY <1>1, <1>2, <1>3 DEF KnownInv

LEMMA KnownInvNext ==
    ASSUME FileInv, SerialInv, KnownInv, [FileNext]_fileVars
    PROVE  KnownInv'
<1>1. CASE UNCHANGED fileVars
  BY <1>1 DEF fileVars, KnownInv, Known, ReadsOn
<1>2. CASE FileNext
  <2>1. PICK p \in Procs : Calls(p) \/ Steps(p) \/ Faults(p)
    BY <1>2 DEF FileNext
  <2>2. QED
    BY <2>1, ParseKnows, OthersKnow, WritersKnow DEF Calls, Steps, Faults
<1>3. QED
  BY <1>1, <1>2

\* What a parse returns in the step in which it does.
LEMMA AnswerStep ==
    ASSUME FileInv, SerialInv, KnownInv, [FileNext]_fileVars
    PROVE  /\ UndisturbedReadsLast /\ (\A d \in WrittenDocuments : ReadBack(d)) => UndisturbedReadsLast'
           /\ TornFileIsCut /\ (\A d \in WrittenDocuments : Tearable(d)) => TornFileIsCut'
<1>1. CASE UNCHANGED fileVars
  BY <1>1 DEF fileVars, UndisturbedReadsLast, TornFileIsCut
<1>2. ASSUME NEW p \in Procs, Stat(p) \/ OpenToRead(p) \/ Measure(p) \/ ReadSome(p) \/ ReadFails(p)
      PROVE  UndisturbedReadsLast' /\ TornFileIsCut'
  <2>1. UNCHANGED overlapped
    BY <1>2 DEF Stat, OpenToRead, Measure, ReadSome, ReadFails, Unchanged
  <2>2. ASSUME NEW state, Parsing(p, state) PROVE UndisturbedReadsLast' /\ TornFileIsCut'
    BY <2>2, GoOnAnswersNothing, NoAnswer DEF Parsing
  <2>3. CASE Stat(p)
    <3>1. CASE path = NoFile
      <4>1. ParseReturns(p, "UE_FILE_NOT_FOUND", <<>>)
        BY <2>3, <3>1 DEF Stat
      <4>2. settled # Unknown => settled = Absent
        BY <3>1 DEF KnownInv, Known
      <4>3. QED
        BY <2>1, <4>1, <4>2, ReadAnswers, TornAnswers
    <3>2. CASE path # NoFile
      BY <2>2, <2>3, <3>2 DEF Stat
    <3>3. QED
      BY <3>1, <3>2
  <2>4. CASE OpenToRead(p)
    <3>1. CASE path = NoFile
      <4>1. ParseReturns(p, "UE_FILE_IO", <<>>)
        BY <2>4, <3>1 DEF OpenToRead
      <4>2. p \in disturbed
        BY <2>4, <3>1 DEF OpenToRead, KnownInv, ReadsOn
      <4>3. QED
        BY <2>1, <4>1, <4>2, ReadAnswers, TornAnswers
    <3>2. CASE path # NoFile
      BY <2>2, <2>4, <3>2 DEF OpenToRead
    <3>3. QED
      BY <3>1, <3>2
  <2>5. CASE Measure(p)
    <3>1. CASE Len(inodes[proc[p].inode]) = 0
      <4>1. ParseReturns(p, "UE_NONE", <<>>)
        BY <2>5, <3>1 DEF Measure
      <4>2. QED
        BY <2>5, <3>1, <4>1, MeasureAnswers
    <3>2. CASE Len(inodes[proc[p].inode]) # 0
      BY <2>2, <2>5, <3>2 DEF Measure
    <3>3. QED
      BY <3>1, <3>2
  <2>6. CASE ReadSome(p)
    <3> DEFINE had == Len(proc[p].content)
    <3> DEFINE size == Len(inodes[proc[p].inode])
    <3>1. CASE had >= size
      <4>1. proc[p].pc = "read" /\ had < proc[p].size /\ ParseReturns(p, "UE_FILE_IO", <<>>)
        BY <2>6, <3>1 DEF ReadSome, EndsEarly
      <4>2. had \in Nat /\ proc[p].size \in Nat
        <5>1. SoundReader(proc[p], inodes)
          BY <4>1, StatesDiffer DEF FileInv
        <5>2. QED
          BY <5>1, LenProperties DEF SoundReader, Readers
      <4>3. p \in disturbed
        <5>1. p \notin disturbed => proc[p].size = size
          BY <4>1 DEF KnownInv, ReadsOn
        <5>2. QED
          BY <3>1, <4>1, <4>2, <5>1
      <4>4. QED
        BY <2>1, <4>1, <4>3, ReadAnswers, TornAnswers
    <3>2. CASE ~(had >= size)
      BY <2>2, <2>6, <3>2 DEF ReadSome
    <3>3. QED
      BY <3>1, <3>2
  <2>7. CASE ReadFails(p)
    <3>1. ParseReturns(p, "UE_FILE_IO", <<>>) /\ proc[p].pc \in {"open", "size", "read"}
      BY <2>7 DEF ReadFails
    <3>2. faults' > 0
      BY <2>7 DEF ReadFails, Fault, FileInv
    <3>3. ASSUME p \notin disturbed, settled # Unknown PROVE settled # Absent
      <4>1. SoundReader(proc[p], inodes)
        BY <3>1, StatesDiffer DEF FileInv
      <4>2. path # NoFile
        BY <3>1, <3>3, <4>1, LenProperties
           DEF KnownInv, ReadsOn, SoundReader, FileInv, NoFile
      <4>3. QED
        BY <3>3, <4>2 DEF KnownInv, Known, WrittenDocuments
    <3>4. QED
      BY <2>1, <3>1, <3>2, <3>3, ReadAnswers, TornAnswers
  <2>8. QED
    BY <1>2, <2>3, <2>4, <2>5, <2>6, <2>7
<1>3. ASSUME NEW p \in Procs,
             \/ SyncReturns(p) \/ RemoveFile(p) \/ RemoveFails(p) \/ Kill(p) \/ WriteFails(p)
             \/ WriteSome(p)
             \/ \E d \in Documents : CreateFails(p, d) \/ OpenToWrite(p, d)
      PROVE  UndisturbedReadsLast' /\ TornFileIsCut'
  <2>1. returned'.call # "parse"
    BY <1>3 DEF SyncReturns, RemoveFile, RemoveFails, Kill, WriteFails, WriteSome, CreateFails,
                OpenToWrite, Leave, GoOn, NoReturn
  <2>2. QED
    BY <2>1, NoAnswer
<1>4. CASE FileNext
  <2>1. PICK p \in Procs : Calls(p) \/ Steps(p) \/ Faults(p)
    BY <1>4 DEF FileNext
  <2>2. QED
    BY <1>2, <1>3, <2>1, ParseTextAnswers DEF Calls, Steps, Faults
<1>5. QED
  BY <1>1, <1>4

\* Whatever other processes do before and after, and whatever failed or was killed before:
\* a parse that nobody disturbs returns the document of the last sync that nobody
\* disturbed, if only every document that is written is one that can be read.
THEOREM ParseReturnsTheLastSync ==
    ASSUME \A d \in WrittenDocuments : ReadBack(d)
    PROVE  FileSpec => []UndisturbedReadsLast
<1>1. FileInv /\ SerialInv /\ KnownInv /\ UndisturbedReadsLast /\ [FileNext]_fileVars
          => UndisturbedReadsLast'
  BY AnswerStep
<1>2. QED
  BY <1>1, FileInvInit, FileInvNext, KnownInvInit, KnownInvNext, PTL DEF FileSpec

\* After any number of killed and failing syncs, a parse that nobody disturbs returns what
\* is left of one of the documents that were written, with nothing but its end lost, if
\* this holds for every beginning of the text of one.
THEOREM TornFilesAreCut ==
    ASSUME \A d \in WrittenDocuments : Tearable(d)
    PROVE  FileSpec => []TornFileIsCut
<1>1. FileInv /\ SerialInv /\ KnownInv /\ TornFileIsCut /\ [FileNext]_fileVars
          => TornFileIsCut'
  BY AnswerStep
<1>2. QED
  BY <1>1, FileInvInit, FileInvNext, KnownInvInit, KnownInvNext, PTL DEF FileSpec

=============================================================================
