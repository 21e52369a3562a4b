---------------------------- MODULE UciConfigFile ----------------------------
(***************************************************************************)
(* One configuration file and the processes that use it: uci2_config_parse, *)
(* uci2_ast_sync and uci2_config_remove of src/src/uci2.c as sequences of   *)
(* system calls, with everything that may happen between two of them.  A    *)
(* write may fail, a process may be killed, a file may be removed while it  *)
(* is open.  Processes hold no locks.                                       *)
(*                                                                         *)
(* A regular file is an inode, which lives on for those who have it open    *)
(* when its name is removed.  What a process may keep of an AST is reduced  *)
(* to its document.                                                         *)
(***************************************************************************)
EXTENDS UciText

CONSTANTS
    Procs,          \* the processes
    Documents,      \* what they write
    FirstDocument,  \* what the file holds at first
    Unknown,        \* the file may hold anything
    Absent,         \* there is no file
    BufferSize,     \* how much stdio reads or writes in one call of the system
    MaxCalls,       \* bound: the calls of the library, of all processes
    MaxFaults       \* bound: failing system calls and killed processes

ASSUME BufferAssumption == BufferSize \in Nat \ {0}

ASSUME DocumentsAssumption ==
    /\ Absent \notin Documents
    /\ (Documents \cup {FirstDocument}) \ {Absent} \subseteq TextDocuments

VARIABLES
    path,           \* the inode the name of the file leads to, or NoFile
    inodes,         \* what is in the files that were ever created, by inode
    proc,           \* what each process is doing
    disturbed,      \* history: the processes inside a call since which another process has
                    \* changed a file
    returned,       \* history: what a call has returned in the last step, or NoReturn
    settled,        \* history: the document that the last undisturbed call left in the file
    overlapped,     \* history: two calls of uci2_ast_sync have overlapped
    calls, faults   \* history: how many there were

fileVars == <<path, inodes, proc, disturbed, returned, settled, overlapped, calls, faults>>

NoFile == 0

\* What fills the hole that a write behind the end of a file leaves.
NUL == "NUL"

\* A C string holds no NUL byte, so no text that is written does.
ASSUME NulAssumption == NUL \notin Symbols

\* A process outside of the library, and one that was killed.
Idle   == [pc |-> "idle"]
Killed == [pc |-> "killed"]

Reader == [pc |-> "open", inode |-> NoFile, size |-> 0, content |-> <<>>]
Writer(inode, document) == [pc |-> "writing", inode |-> inode, document |-> document, done |-> 0]

Outside(p) == proc[p].pc \in {"idle", "killed"}

NoReturn == [call |-> "none"]

Contents == IF path = NoFile THEN Absent ELSE inodes[path]

FileInit ==
    /\ IF FirstDocument = Absent THEN path = NoFile /\ inodes = <<>>
                                 ELSE path = 1 /\ inodes = << Render(FirstDocument) >>
    /\ proc = [p \in Procs |-> Idle]
    /\ disturbed = {}
    /\ returned = NoReturn
    /\ settled = FirstDocument
    /\ overlapped = FALSE
    /\ calls = 0
    /\ faults = 0

-----------------------------------------------------------------------------
(***************************************************************************)
(* How a step of a call ends: the call goes on, or it returns.             *)
(***************************************************************************)

Begin(p) ==
    /\ proc[p] = Idle
    /\ calls < MaxCalls
    /\ calls' = calls + 1

Fault ==
    /\ faults < MaxFaults
    /\ faults' = faults + 1

\* The processes that are inside a call while p changes a file.
Disturbs(p) == disturbed \cup {q \in Procs \ {p} : ~Outside(q)}

GoOn(p, state) ==
    /\ proc' = [proc EXCEPT ![p] = state]
    /\ returned' = NoReturn

\* expected: what is known of the file; found: what it holds.
Leave(p, call, error, document, expected, found) ==
    /\ proc' = [proc EXCEPT ![p] = Idle]
    /\ returned' = [call |-> call, err |-> error, document |-> document,
                    disturbed |-> p \in disturbed, expected |-> expected, found |-> found]

-----------------------------------------------------------------------------
(***************************************************************************)
(* uci2_config_parse.                                                      *)
(***************************************************************************)

Unchanged == UNCHANGED <<path, inodes, settled, overlapped>>

Parsing(p, state) ==
    /\ GoOn(p, state)
    /\ UNCHANGED disturbed

ParseReturns(p, error, document) ==
    /\ Leave(p, "parse", error, document, settled, Contents)
    /\ disturbed' = disturbed \ {p}

\* stat: the only place where a missing file is told from another error.
Stat(p) ==
    /\ Begin(p)
    /\ IF path = NoFile THEN ParseReturns(p, "UE_FILE_NOT_FOUND", <<>>)
                        ELSE Parsing(p, Reader)
    /\ Unchanged /\ UNCHANGED faults

\* fopen(path, "r")
OpenToRead(p) ==
    /\ proc[p].pc = "open"
    /\ IF path = NoFile THEN ParseReturns(p, "UE_FILE_IO", <<>>)
                        ELSE Parsing(p, [proc[p] EXCEPT !.pc = "size", !.inode = path])
    /\ Unchanged /\ UNCHANGED <<calls, faults>>

\* fseek, ftell: an empty file is an empty AST.
Measure(p) ==
    LET size == Len(inodes[proc[p].inode])
    IN  /\ proc[p].pc = "size"
        /\ IF size = 0 THEN ParseReturns(p, "UE_NONE", <<>>)
                       ELSE Parsing(p, [proc[p] EXCEPT !.pc = "read", !.size = size])
        /\ Unchanged /\ UNCHANGED <<calls, faults>>

\* Mutant: the file is read from its beginning when it ends too early.
StartsOver(p) == Parsing(p, [proc[p] EXCEPT !.content = <<>>])

\* The file has become shorter than the size that was measured.
EndsEarly(p) == ParseReturns(p, "UE_FILE_IO", <<>>)

\* fread reads BufferSize symbols at a time, until it has the size that was measured
\* or the file ends.
ReadSome(p) ==
    LET text == inodes[proc[p].inode]
        had  == Len(proc[p].content)
        upto == Min({proc[p].size, Len(text), had + BufferSize})
    IN  /\ proc[p].pc = "read"
        /\ had < proc[p].size
        /\ IF had >= Len(text) THEN EndsEarly(p)
           ELSE Parsing(p, [proc[p] EXCEPT !.content = @ \o SubSeq(text, had + 1, upto)])
        /\ Unchanged /\ UNCHANGED <<calls, faults>>

\* yy_scan_string takes the text up to the first NUL.
Scanned(text) ==
    LET nuls == {k \in DOMAIN text : text[k] = NUL}
    IN  IF nuls = {} THEN text ELSE SubSeq(text, 1, Min(nuls) - 1)

ParseText(p) ==
    LET tokens == Lex(Scanned(proc[p].content))
    IN  /\ proc[p].pc = "read"
        /\ Len(proc[p].content) = proc[p].size
        /\ IF Grammatical(tokens) THEN ParseReturns(p, "UE_NONE", DocumentOf(tokens))
                                  ELSE ParseReturns(p, "UE_PARSER", <<>>)
        /\ Unchanged /\ UNCHANGED <<calls, faults>>

\* stat fails although there is a file, or fopen, fseek, ftell or fread does.
ReadFails(p) ==
    /\ proc[p].pc \in {"open", "size", "read"}
    /\ Fault
    /\ ParseReturns(p, "UE_FILE_IO", <<>>)
    /\ Unchanged /\ UNCHANGED calls

-----------------------------------------------------------------------------
(***************************************************************************)
(* uci2_ast_sync.                                                          *)
(***************************************************************************)

\* Mutant: an existing file is not truncated.
Kept(text) == text

Truncated(text) == <<>>

\* fopen(path, "w") creates the file or truncates it.
OpenToWrite(p, document) ==
    LET inode == IF path = NoFile THEN Len(inodes) + 1 ELSE path
    IN  /\ Begin(p)
        /\ path' = inode
        /\ inodes' = IF path = NoFile THEN Append(inodes, <<>>)
                     ELSE [inodes EXCEPT ![path] = Truncated(@)]
        /\ GoOn(p, Writer(inode, document))
        /\ disturbed' = Disturbs(p)
        /\ settled' = Unknown
        /\ overlapped' = (overlapped \/ \E q \in Procs : proc[q].pc = "writing")
        /\ UNCHANGED faults

\* text with word written at an offset; what was skipped before reads as NUL.
Overwritten(text, offset, word) ==
    [k \in 1 .. Max({Len(text), offset + Len(word)}) |->
        CASE k > offset /\ k <= offset + Len(word) -> word[k - offset]
          [] k <= offset /\ k > Len(text)          -> NUL
          [] OTHER                                 -> text[k]]

Text(p) == Render(proc[p].document)

Left(p) == Len(Text(p)) - proc[p].done

\* The file after p wrote the next count symbols of its text at its own offset.
AfterWrite(p, count) ==
    [inodes EXCEPT ![proc[p].inode] =
        Overwritten(@, proc[p].done, SubSeq(Text(p), proc[p].done + 1, proc[p].done + count))]

\* stdio writes BufferSize symbols at a time, in fprintf, and the last of them in
\* fflush.  A flush is one call of write, or several when a call takes only a part.
FlushStart(done) == done - (done % BufferSize)

InLastFlush(p) == FlushStart(proc[p].done) = FlushStart(Len(Text(p)) - 1)

FlushLeft(p) == Min({Left(p), FlushStart(proc[p].done) + BufferSize - proc[p].done})

\* Mutant: a whole buffer counts as written, however much the call took.
FlushForgotten(p, count) == [proc[p] EXCEPT !.done = @ + BufferSize]

Advanced(p, count) == [proc[p] EXCEPT !.done = @ + count]

WriteSome(p) ==
    /\ proc[p].pc = "writing"
    /\ \E count \in 1 .. FlushLeft(p) :
          /\ inodes' = AfterWrite(p, count)
          /\ GoOn(p, Advanced(p, count))
    /\ disturbed' = Disturbs(p)
    /\ settled' = Unknown
    /\ UNCHANGED <<path, overlapped, calls, faults>>

SyncReturns(p) ==
    LET document == proc[p].document
        known    == IF p \in disturbed THEN Unknown ELSE document
    IN  /\ proc[p].pc = "writing"
        /\ Left(p) = 0
        /\ settled' = known
        /\ Leave(p, "sync", "UE_NONE", document, known, inodes[proc[p].inode])
        /\ disturbed' = disturbed \ {p}
        /\ UNCHANGED <<path, inodes, overlapped, calls, faults>>

\* Mutant: the results of fprintf are not looked at either.
FailureIgnored(p) == "UE_NONE"

\* A failing write is seen where fprintf made it; the results of fflush, fsync and
\* fclose are not looked at.
FailureCode(p) == IF InLastFlush(p) THEN "UE_NONE" ELSE "UE_FILE_IO"

\* A write fails.  fclose may write what is in the buffer after all.
WriteFails(p) ==
    /\ proc[p].pc = "writing"
    /\ Left(p) > 0
    /\ Fault
    /\ \E count \in 0 .. FlushLeft(p) :
          LET after == AfterWrite(p, count)
          IN  /\ inodes' = after
              /\ Leave(p, "sync", FailureCode(p), proc[p].document, Unknown,
                       after[proc[p].inode])
    /\ disturbed' = Disturbs(p) \ {p}
    /\ settled' = Unknown
    /\ UNCHANGED <<path, overlapped, calls>>

\* fopen for writing fails: the file is left as it is.
CreateFails(p, document) ==
    /\ Begin(p)
    /\ Fault
    /\ Leave(p, "sync", "UE_FILE_IO", document, settled, Contents)
    /\ Unchanged /\ UNCHANGED disturbed

-----------------------------------------------------------------------------
(***************************************************************************)
(* uci2_config_remove, and the death of a process.                         *)
(***************************************************************************)

RemoveFile(p) ==
    /\ Begin(p)
    /\ path' = NoFile
    /\ IF path = NoFile
       THEN /\ Leave(p, "remove", "UE_FILE_NOT_FOUND", <<>>, settled, Absent)
            /\ UNCHANGED <<disturbed, settled>>
       ELSE /\ Leave(p, "remove", "UE_NONE", <<>>, Absent, Absent)
            /\ disturbed' = Disturbs(p)
            /\ settled' = Absent
    /\ UNCHANGED <<inodes, overlapped, faults>>

\* remove fails although there is a file.
RemoveFails(p) ==
    /\ Begin(p)
    /\ path # NoFile
    /\ Fault
    /\ Leave(p, "remove", "UE_FILE_IO", <<>>, settled, Contents)
    /\ Unchanged /\ UNCHANGED disturbed

\* A process is killed inside of a call: what it had in its buffer is lost.
Kill(p) ==
    /\ ~Outside(p)
    /\ Fault
    /\ GoOn(p, Killed)
    /\ disturbed' = disturbed \ {p}
    /\ UNCHANGED <<path, inodes, settled, overlapped, calls>>

-----------------------------------------------------------------------------

Calls(p) ==
    \/ Stat(p)
    \/ \E d \in Documents : OpenToWrite(p, d)
    \/ RemoveFile(p)

Steps(p) ==
    \/ OpenToRead(p)
    \/ Measure(p)
    \/ ReadSome(p)
    \/ ParseText(p)
    \/ WriteSome(p)
    \/ SyncReturns(p)

Faults(p) ==
    \/ \E d \in Documents : CreateFails(p, d)
    \/ ReadFails(p)
    \/ WriteFails(p)
    \/ RemoveFails(p)
    \/ Kill(p)

FileNext == \E p \in Procs : Calls(p) \/ Steps(p) \/ Faults(p)

\* The system lets a process that is inside a call go on: some step of p is enabled
\* there at any time and only p changes proc[p], so that this is weak fairness of p.
GoesOn(p) == []<>Outside(p) \/ []<><<proc'[p] # proc[p]>>_proc

FileSpec == FileInit /\ [][FileNext]_fileVars /\ \A p \in Procs : GoesOn(p)

-----------------------------------------------------------------------------
(***************************************************************************)
(* What the functions promise.                                             *)
(***************************************************************************)

\* The offsets of a process lie inside what it reads and writes, and a name leads
\* to a file.
FileTypeOK ==
    /\ path \in DOMAIN inodes \cup {NoFile}
    /\ \A i \in DOMAIN inodes : Range(inodes[i]) \subseteq Symbols \cup {NUL}
    /\ \A p \in Procs :
          /\ proc[p].pc \in {"idle", "killed", "open", "size", "read", "writing"}
          /\ proc[p].pc = "writing" => proc[p].inode \in DOMAIN inodes /\ Left(p) >= 0
          /\ proc[p].pc = "read" => Len(proc[p].content) <= proc[p].size
          /\ p \in disturbed => ~Outside(p)

\* A parse that nobody disturbs returns the document of the last sync that nobody
\* disturbed, and finds no file after a remove, whatever failed or was killed before.
\* Without a fault there is no other way for it to end.
UndisturbedReadsLast ==
    LET r == returned
    IN  r.call = "parse" /\ ~r.disturbed /\ r.expected # Unknown =>
            \/ r.err = "UE_FILE_IO" /\ faults > 0 /\ r.expected # Absent
            \/ r.err = "UE_FILE_NOT_FOUND" /\ r.expected = Absent
            \/ r.err = "UE_NONE" /\ r.document = r.expected

\* The texts that a sync may have begun to write.
AllTexts == {Render(d) : d \in (Documents \cup {FirstDocument}) \ {Absent}}

\* As long as no two syncs overlap, every file holds the beginning of one text,
\* whoever was killed or failed in the middle of writing it.
FilesAreBeginnings ==
    ~overlapped => \A i \in DOMAIN inodes : \E t \in AllTexts : IsPrefix(inodes[i], t)

\* The first lines of a section.  The line they end with may have lost its end: a
\* name part of its letters, and a list line its element.
CutLine(cut, line) ==
    /\ cut.kind = line.kind
    /\ IsPrefix(cut.name, line.name)
    /\ cut.value = line.value \/ (cut.kind = "list" /\ cut.value = NoString)
    /\ cut.value # NoString => cut.name = line.name

CutSection(cut, section) ==
    /\ IsPrefix(cut.type, section.type)
    /\ cut.name \in {section.name, NoString}
    /\ Len(cut.lines) <= Len(section.lines)
    /\ cut.lines # <<>> =>
          /\ cut.type = section.type /\ cut.name = section.name
          /\ \A k \in 1 .. Len(cut.lines) - 1 : cut.lines[k] = section.lines[k]
          /\ CutLine(Last(cut.lines), section.lines[Len(cut.lines)])

\* The first sections of a document, and at most the last of them is cut.
CutDocument(cut, document) ==
    /\ Len(cut) <= Len(document)
    /\ \A k \in 1 .. Len(cut) - 1 : cut[k] = document[k]
    /\ cut # <<>> => CutSection(Last(cut), document[Len(cut)])

\* The documents that are parsed again as they were written, and those of which every
\* beginning that can be parsed is a cut one.  WrittenIsRead says which words a document
\* has to be made of.
ReadBack(d) == LET tokens == Lex(Render(d)) IN Grammatical(tokens) /\ DocumentOf(tokens) = d

Tearable(d) ==
    \A n \in 0 .. Len(Render(d)) :
        LET tokens == Lex(SubSeq(Render(d), 1, n))
        IN  Grammatical(tokens) => CutDocument(DocumentOf(tokens), d)

\* A sync that is killed or fails leaves a file that may still be parsed without an
\* error.  What is then read has lost its end, but holds no value that was not there.
TornFileIsCut ==
    LET r == returned
    IN  r.call = "parse" /\ ~r.disturbed /\ ~overlapped /\ r.err = "UE_NONE" =>
                \E d \in (Documents \cup {FirstDocument}) \ {Absent} : CutDocument(r.document, d)

\* A call comes to its end, whatever the other processes do to the file.
CallsReturn == \A p \in Procs : ~Outside(p) ~> Outside(p)

\* UE_NONE of uci2_ast_sync does not say that the file was written: the last flush of
\* stdio, which is the whole of a small file, may have failed.  It does say that
\* everything before the last flush is in the file, unless others were at work on it.
NoneMeansFlushed ==
    LET r    == returned
        text == Render(r.document)
    IN  r.call = "sync" /\ r.err = "UE_NONE" /\ ~r.disturbed =>
            /\ IsPrefix(r.found, text)
            /\ Len(r.found) >= FlushStart(Len(text) - 1)
            /\ faults = 0 => r.found = text

=============================================================================
