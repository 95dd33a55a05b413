------------------------------ MODULE DocCache ------------------------------
(***************************************************************************)
(* The directory of cache files: ldomDocCacheImpl of crengine's            *)
(* lvtinydom.cpp.  It keeps a list of the files, the most recently used    *)
(* first, with the size each had when it was opened or created, removes    *)
(* files when they take too much room, and writes the list to an index.    *)
(*                                                                         *)
(* An operation changes the directory and the list, and then writes the    *)
(* index, which may fail; the program may be killed in between.            *)
(*                                                                         *)
(* The index is compared with the one written before by its size and by a  *)
(* CRC32 over a buffer that ends in the CRC32 of what is in front of it.   *)
(* The CRC of such a buffer depends on its length alone: two lists of the  *)
(* same length are the same to writeIndex, and no file is that is not      *)
(* complete (but for collisions).                                          *)
(***************************************************************************)
EXTENDS Integers, Sequences, SequencesExt, FiniteSetsExt

CONSTANTS Docs,         \* the names of cache files (makeFileName)
          Sizes,        \* the sizes of documents, and of cache files when they are opened
          NameLen,      \* the bytes of a name
          MaxSize,      \* _maxSize
          Stuck,        \* the sets of files that cannot be deleted for a while
          Corrupt,      \* an index that readIndex refuses
          Absent        \* no index

ASSUME DocCacheAssumption ==
    /\ Sizes \subseteq Nat /\ MaxSize \in Nat
    /\ Stuck \subseteq SUBSET Docs
    /\ NameLen \in [Docs -> Nat]
    /\ \A x \in {Corrupt, Absent} : x \notin Nat /\ x \notin Seq([filename : Docs, size : Sizes])

VARIABLES
    up,         \* _cacheInstance is there
    files,      \* _files
    written,    \* what _oldStreamSize and _oldStreamCRC stand for
    step,       \* where the writing of the index is
    index,      \* cr3cache.inx
    disk,       \* the .cr3 files
    tracked,    \* history: every file was listed when the list was made
    failed      \* history: something could not be opened, or not be written as a whole

vars == <<up, files, written, step, index, disk, tracked, failed>>

Item(d, n) == [filename |-> d, size |-> n]
Names(list) == {list[i].filename : i \in DOMAIN list}

\* Where the file d is in the list; findFileIndex returns the first place.
Places(list, d) == {i \in DOMAIN list : list[i].filename = d}

-----------------------------------------------------------------------------
(* reserve. *)

\* Mutant of TooMuch: the first file of the list goes as well.
TooMuchAny(r, f, alloc) == r.dirsize + f.size > MaxSize

\* Mutant of TooMuch: a file may take the room that is asked for.
TooMuchLater(r, f, alloc) ==
    /\ r.files # <<>> \/ alloc > 0
    /\ r.dirsize + f.size > MaxSize + alloc

\* The file f takes too much room, on top of those that stay.
TooMuch(r, f, alloc) ==
    /\ r.files # <<>> \/ alloc > 0
    /\ r.dirsize + f.size > MaxSize

\* One round of the loop: what the files before f left, and f.
Visit(r, f, dir, alloc, stuck) ==
    IF f.filename \notin dir THEN r
    ELSE IF TooMuch(r, f, alloc) /\ f.filename \notin stuck
    THEN [r EXCEPT !.gone = @ \cup {f.filename}]
    ELSE [r EXCEPT !.files = Append(@, f), !.dirsize = @ + f.size]

\* What is left of the list and the directory.
Reserved(list, dir, alloc, stuck) ==
    LET last == FoldLeft(LAMBDA r, f : Visit(r, f, dir, alloc, stuck),
                         [files |-> <<>>, dirsize |-> alloc, gone |-> {}], list)
    IN [files |-> last.files, disk |-> dir \ last.gone]

-----------------------------------------------------------------------------
(* The operations, up to the writing of the index. *)

\* Mutant of ToTop: a file that is listed is listed again.
ToTopAgain(list, d, n) == <<Item(d, n)>> \o list

\* moveFileToTop
ToTop(list, d, n) ==
    <<Item(d, n)>> \o IF Places(list, d) = {} THEN list ELSE RemoveAt(list, Min(Places(list, d)))

Idle == up /\ step = "idle"

\* Mutant of Extra: what is not listed stays.
ExtraNone(list) == {}

\* removeExtraFiles: the files that are not listed.
Extra(list) == disk \ Names(list)

\* ldomDocCache::init, of a new instance and with whatever index there is.
Start(stuck) ==
    LET readable == index \notin {Corrupt, Absent}
        list == IF readable THEN index ELSE <<>>
        dir == IF readable THEN disk \ (Extra(list) \ stuck) ELSE disk
        r == Reserved(list, dir, 0, stuck)
    IN /\ step = "idle"
       /\ up' = TRUE /\ step' = "init"
       /\ files' = r.files /\ disk' = r.disk
       /\ written' = Absent
       /\ tracked' = (readable /\ Extra(list) \cap stuck = {}) /\ failed' = FALSE
       /\ UNCHANGED index

\* openExisting of a file that is there and has n bytes now (of any other,
\* nothing changes).
OpenExisting(d, n) ==
    /\ Idle
    /\ d \in disk \cap Names(files)
    /\ files' = ToTop(files, d, n)
    /\ step' = "index"
    /\ UNCHANGED <<up, written, index, disk, tracked, failed>>

\* createNew of a file for a document of n bytes.
CreateNew(d, n, stuck) ==
    LET r == Reserved(files, disk, n \div 10, stuck) IN
    /\ Idle
    /\ files' = ToTop(r.files, d, n)
    /\ disk' = r.disk \cup {d}
    /\ step' = "index"
    /\ UNCHANGED <<up, written, index, tracked, failed>>

\* createNew when the file cannot be opened.
CreateFails(d, n, stuck) ==
    LET r == Reserved(files, disk, n \div 10, stuck) IN
    /\ Idle
    /\ files' = r.files
    /\ disk' = r.disk \ ({d} \ stuck)
    /\ failed' = TRUE
    /\ UNCHANGED <<up, written, index, tracked, step>>

\* createNew of a document whose file the user renamed to keep it: that file
\* is opened, which is no affair of the list.
CreateKept(d, stuck) ==
    /\ Idle
    /\ disk' = disk \ ({d} \ stuck)
    /\ UNCHANGED <<up, files, written, step, index, tracked, failed>>

\* clear: the names have no directory, and nothing is deleted.
Clear ==
    /\ Idle
    /\ files' = <<>>
    /\ step' = "index"
    /\ tracked' = FALSE
    /\ UNCHANGED <<up, written, index, disk, failed>>

-----------------------------------------------------------------------------
(* writeIndex. *)

\* The length of the index of a list: magic, count and CRC32, and of each file the name
\* with its length, and the size.
Bytes(list) == FoldLeft(LAMBDA n, f : n + NameLen[f.filename] + 8, 57, list)

\* Size and CRC32 of an index: that of a complete one is a function of its length.
Stamp(x) == IF x \in {Corrupt, Absent} THEN x ELSE Bytes(x)

\* _oldStreamSize and _oldStreamCRC, taken from the file if they are not set.
Known == IF written = Absent THEN Stamp(index) ELSE written

Ends == step' = "idle" /\ UNCHANGED <<files, disk, tracked>>

\* The index is taken for the same.
WriteNothing ==
    /\ step \in {"index", "init"}
    /\ Known = Bytes(files)
    /\ written' = Known
    /\ Ends
    /\ UNCHANGED <<up, index, failed>>

\* The index is opened, and empty.
Truncate ==
    /\ step \in {"index", "init"}
    /\ Known # Bytes(files)
    /\ written' = Known
    /\ index' = Corrupt
    /\ step' = IF step = "init" THEN "writeInit" ELSE "write"
    /\ UNCHANGED <<up, files, disk, tracked, failed>>

\* Mutant of Write: what is written is not remembered.
WriteForgets ==
    /\ step \in {"write", "writeInit"}
    /\ index' = files
    /\ Ends
    /\ UNCHANGED <<up, written, failed>>

\* The index is written.
Write ==
    /\ step \in {"write", "writeInit"}
    /\ index' = files /\ written' = Bytes(files)
    /\ Ends
    /\ UNCHANGED <<up, failed>>

\* A part of the index is written, for which LVFileStream::Write returns LVERR_OK: it is
\* remembered like a whole one.
WriteShort ==
    /\ step \in {"write", "writeInit"}
    /\ index' = Corrupt /\ written' = Bytes(files)
    /\ failed' = TRUE
    /\ Ends
    /\ UNCHANGED up

\* The index cannot be opened, or not written: writeIndex returns false.
WriteFails ==
    /\ \/ step = "index" /\ Known # Bytes(files) /\ written' = Known
       \/ step = "write" /\ UNCHANGED written
    /\ failed' = TRUE
    /\ Ends
    /\ UNCHANGED <<up, index>>

-----------------------------------------------------------------------------
(* Everybody else. *)

\* The program is killed or closes the cache; or the index of a new instance
\* cannot be written, and the instance is deleted.
Stop ==
    /\ up
    /\ up' = FALSE /\ step' = "idle"
    /\ files' = <<>> /\ written' = Absent
    /\ tracked' = FALSE /\ failed' = FALSE
    /\ UNCHANGED <<index, disk>>

\* The user renames a file to keep it, or deletes it.
Take(d) ==
    /\ step = "idle"
    /\ d \in disk
    /\ disk' = disk \ {d}
    /\ UNCHANGED <<up, files, written, step, index, tracked, failed>>

Init ==
    /\ up = FALSE /\ step = "idle"
    /\ files = <<>> /\ written = Absent /\ index = Absent
    /\ disk = {}
    /\ tracked = FALSE /\ failed = FALSE

Next ==
    \/ \E stuck \in Stuck : Start(stuck)
    \/ \E d \in Docs, n \in Sizes : OpenExisting(d, n)
    \/ \E d \in Docs, n \in Sizes, stuck \in Stuck : CreateNew(d, n, stuck)
    \/ \E d \in Docs, n \in Sizes, stuck \in Stuck : CreateFails(d, n, stuck)
    \/ \E d \in Docs, stuck \in Stuck : CreateKept(d, stuck)
    \/ Clear
    \/ WriteNothing \/ Truncate \/ Write \/ WriteShort \/ WriteFails
    \/ Stop
    \/ \E d \in Docs : Take(d)

Spec == Init /\ [][Next]_vars

-----------------------------------------------------------------------------
(* Properties. *)

IsList(list) ==
    /\ list \in Seq([filename : Docs, size : Sizes])
    /\ IsInjective([i \in DOMAIN list |-> list[i].filename])

TypeOK ==
    /\ up \in BOOLEAN /\ tracked \in BOOLEAN /\ failed \in BOOLEAN
    /\ step \in {"idle", "init", "index", "write", "writeInit"}
    /\ IsList(files)
    /\ index \notin {Corrupt, Absent} => IsList(index)
    /\ written \in Nat \cup {Corrupt, Absent}
    /\ disk \subseteq Docs

\* Between two operations, as long as nothing failed, the index on disk can be read and has
\* the length of the list in memory: no kill, start or skipped writing leaves what
\* writeIndex remembers of the file behind the file, so no change that it can see is lost.
IndexIsAsLong ==
    Idle /\ ~ failed => index \notin {Corrupt, Absent} /\ Bytes(index) = Bytes(files)

\* Between two operations, as long as nothing failed, the index on disk is the list in
\* memory: writeIndex avoids the writing of an identical file only. (It does not.)
IndexIsList == Idle /\ ~ failed => index = files

\* A file that is not listed is never removed again while the program runs, so
\* there is none unless the index was lost, a deletion failed or clear was called.
NoOrphans == up /\ tracked => disk \subseteq Names(files)

\* The sizes of the files of a list that are among D.
Total(list, D) == FoldLeft(LAMBDA n, f : IF f.filename \in D THEN n + f.size ELSE n, 0, list)

\* When a file is created for a document of ten bytes or more, the others take no more than
\* what is left besides the room that is reserved for it. (For a smaller one nothing is
\* reserved, and the first file stays whatever its size.)
RoomIsMade ==
    [][\A d \in Docs, n \in Sizes :
         n >= 10 /\ CreateNew(d, n, {}) =>
            Total(files', Docs \ {d}) <= Max({0, MaxSize - n \div 10})]_vars

\* A start with an index does not lose the first file of the index that is there, whatever
\* its size, and no file of the index at all while they fit.
StartKeepsFiles ==
    [][\A stuck \in Stuck :
         Start(stuck) /\ index \notin {Corrupt, Absent} =>
            /\ \A i \in DOMAIN index :
                  /\ index[i].filename \in disk
                  /\ \A j \in 1 .. i - 1 : index[j].filename \notin disk
                  => index[i].filename \in disk'
            /\ Total(index, disk) <= MaxSize => Names(index) \cap disk \subseteq disk']_vars
=============================================================================
