------------------------------ MODULE BlobCache ------------------------------
(***************************************************************************)
(* ldomBlobCache of crengine's lvtinydom.cpp: the images and fonts that    *)
(* are embedded in a book, listed in the order in which the parser found   *)
(* them.  Each is in memory or in the cache file, where its index is its   *)
(* place in the list; the list itself is a block of the file.              *)
(*                                                                         *)
(* The content of a blob is its place in the book.  The cache file keeps   *)
(* the promise of CacheStore: another session opens it when it is clean,   *)
(* and every write makes it dirty until a complete save flushes it.        *)
(***************************************************************************)
EXTENDS Integers, Sequences, FiniteSetsExt

CONSTANTS Book,         \* the names of the blobs of the book
          IndexRange,   \* how many indexes an lUInt16 has
          MaxFailures,  \* bound: stream writes that fail
          MaxListed     \* bound: how many blobs are listed when a file opens

ASSUME BlobCacheAssumption ==
    /\ Book \in Seq(STRING) /\ IndexRange \in Nat \ {0}
    /\ MaxFailures \in Nat /\ MaxListed \in Nat

VARIABLES
    list,       \* _list
    changed,    \* _changed
    open,       \* _cacheFile is set
    phase,      \* whether the book is looked for in the cache, parsed, or loaded
    parsed,     \* how many of its blobs the parser has found
    saved,      \* the last saveChanges has come past the blobs
    file,       \* the cache file
    failures    \* counts against MaxFailures

blobVars == <<list, changed, open, phase, parsed, saved, file, failures>>

Nothing == 0        \* no data, no block
Garbage == -1       \* a block that was written in part

\* An ldomBlobItem.
Item(n, d) == [name |-> n, data |-> d]

\* The blocks by index and the saved list. lost is history: the blobs that addBlob failed
\* to write.
EmptyFile == [clean |-> FALSE, blocks |-> [k \in 0 .. IndexRange - 1 |-> Nothing],
              index |-> <<>>, lost |-> {}]

\* The lUInt16 index of the blob at place i.
Index(i) == (i - 1) % IndexRange

BlobInit ==
    /\ list = <<>> /\ changed = FALSE /\ open = FALSE
    /\ phase = "start" /\ parsed = 0 /\ saved = FALSE
    /\ file = EmptyFile /\ failures = 0

\* CacheFile::write of the blobs at the places W, of which those in bad fail. A block that
\* has the content already is not written.
Write(f, W, bad) ==
    LET At(k) == {i \in W : Index(i) = k}
        blocks == [k \in DOMAIN f.blocks |->
                      IF At(k) = {} THEN f.blocks[k]
                      ELSE IF Max(At(k)) \in bad THEN Garbage ELSE list[Max(At(k))].data]
    IN [f EXCEPT !.blocks = blocks, !.clean = @ /\ blocks = f.blocks]

Names == [i \in DOMAIN list |-> list[i].name]

\* Mutant of Emptied: what was written after a failure, and what was not, goes.
EmptiedAlways(W, bad) ==
    [i \in DOMAIN list |-> IF i \in W THEN Item(list[i].name, Nothing) ELSE list[i]]

\* The list when the blobs in W were written: setIndex, until one fails.
Emptied(W, bad) ==
    [i \in DOMAIN list |->
        IF i \in W /\ \A j \in bad : j > i THEN Item(list[i].name, Nothing) ELSE list[i]]

\* saveToCache to the file f: its timer expires at the place last, or never; the writes in
\* bad fail, and that of the list does when it is not listed.
SaveToCache(f, last, expires, bad, listed) ==
    LET W == {i \in 1 .. last : list[i].data # Nothing}
        g == Write(f, W, bad)
    IN /\ bad \subseteq {i \in W : f.blocks[Index(i)] # list[i].data}
       /\ expires => listed
       /\ failures + Cardinality(bad) <= MaxFailures
       /\ list' = Emptied(W, bad)
       /\ file' = IF expires THEN g
                  ELSE [g EXCEPT !.index = IF listed THEN Names ELSE <<>>,
                                 !.clean = @ /\ listed /\ f.index = Names]
       /\ changed' = (expires \/ bad # {} \/ ~ listed)
       /\ failures' = failures + Cardinality(bad) + (IF listed THEN 0 ELSE 1)
       /\ failures' <= MaxFailures

-----------------------------------------------------------------------------
(* A session. *)

\* loadIndex; a file without an index has no blobs.
LoadIndex(f) == [i \in DOMAIN f.index |-> Item(f.index[i], Nothing)]

\* openCacheFile, of a file that is clean, with setCacheFile. When the rest of
\* the document cannot be loaded, the book is parsed after all: the file stays open, and
\* the list as it is.
OpenFromCache(loaded) ==
    /\ phase = "start" /\ file.clean
    /\ Len(file.index) <= MaxListed
    /\ open' = TRUE
    /\ list' = LoadIndex(file)
    /\ phase' = IF loaded THEN "loaded" ELSE "parsing"
    /\ parsed' = IF loaded THEN Len(Book) ELSE 0
    /\ UNCHANGED <<changed, saved, file, failures>>

\* There is no file, or it cannot be opened.
NotInCache ==
    /\ phase = "start"
    /\ phase' = "parsing"
    /\ UNCHANGED <<list, changed, open, parsed, saved, file, failures>>

\* createCacheFile, at any time: an empty file, and what is in the list goes to it. Nobody
\* looks at the result.
CreateCacheFile(bad, listed) ==
    /\ phase # "start" /\ ~ open
    /\ open' = TRUE
    /\ IF list = <<>>
       THEN file' = EmptyFile /\ bad = {} /\ listed /\ UNCHANGED <<list, changed, failures>>
       ELSE IF changed THEN SaveToCache(EmptyFile, Len(list), FALSE, bad, listed)
       ELSE file' = EmptyFile /\ bad = {} /\ listed /\ UNCHANGED <<list, changed, failures>>
    /\ saved' = FALSE
    /\ UNCHANGED <<phase, parsed>>

\* Mutant of Marked: the list need not be saved.
Unmarked == changed

\* addBlob sets _changed.
Marked == TRUE

\* addBlob: to the file when there is one, whether that fails or not.
AddBlob(fails) ==
    /\ phase = "parsing" /\ parsed < Len(Book)
    /\ fails => open /\ failures < MaxFailures
    /\ LET i == Len(list) + 1
           b == parsed + 1
           block == IF fails THEN Garbage ELSE b
       IN /\ list' = Append(list, Item(Book[b], IF open THEN Nothing ELSE b))
          /\ file' = IF ~ open THEN file
                     ELSE [file EXCEPT !.blocks[Index(i)] = block,
                                       !.clean = @ /\ file.blocks[Index(i)] = block,
                                       !.lost = IF fails THEN @ \cup {i} ELSE @]
          /\ parsed' = b
    /\ changed' = Marked
    /\ failures' = failures + (IF fails THEN 1 ELSE 0)
    /\ saved' = FALSE
    /\ UNCHANGED <<open, phase>>

EndParsing ==
    /\ phase = "parsing" /\ parsed = Len(Book)
    /\ phase' = "loaded"
    /\ UNCHANGED <<list, changed, open, parsed, saved, file, failures>>

\* The stage of saveChanges that saves the blobs. Only when it is done without an error the
\* stages behind it are reached.
SaveBlobs(last, expires, bad, listed) ==
    /\ phase = "loaded" /\ open
    /\ IF list = <<>> \/ ~ changed
       THEN /\ last = 0 /\ bad = {} /\ listed /\ ~ expires
            /\ saved' = TRUE
            /\ UNCHANGED <<list, changed, file, failures>>
       ELSE /\ last \in DOMAIN list /\ (~ expires => last = Len(list))
            /\ SaveToCache(file, last, expires, bad, listed)
            /\ saved' = ~ changed'
    /\ UNCHANGED <<open, phase, parsed>>

\* The last stage.
Flush ==
    /\ saved
    /\ file' = [file EXCEPT !.clean = TRUE]
    /\ saved' = FALSE
    /\ UNCHANGED <<list, changed, open, phase, parsed, failures>>

\* The program ends, or is killed.
Restart ==
    /\ phase # "start"
    /\ list' = <<>> /\ changed' = FALSE /\ open' = FALSE
    /\ phase' = "start" /\ parsed' = 0 /\ saved' = FALSE
    /\ UNCHANGED <<file, failures>>

BlobNext ==
    \/ NotInCache \/ EndParsing \/ Flush \/ Restart
    \/ \E b \in BOOLEAN : OpenFromCache(b) \/ AddBlob(b)
    \/ \E bad \in SUBSET {i \in DOMAIN list : list[i].data # Nothing}, listed \in BOOLEAN :
          \/ CreateCacheFile(bad, listed)
          \/ \E last \in 0 .. Len(list), expires \in BOOLEAN : SaveBlobs(last, expires, bad, listed)

BlobSpec == BlobInit /\ [][BlobNext]_blobVars

-----------------------------------------------------------------------------
(* Properties. *)

\* The first place of a name.
FirstPlace(names, n) == Min({i \in DOMAIN names : names[i] = n})

\* getBlob
GetBlob(n) ==
    LET i == FirstPlace(Names, n)
    IN IF list[i].data # Nothing THEN list[i].data ELSE file.blocks[Index(i)]

InSeq(s, n) == \E i \in DOMAIN s : s[i] = n

\* A blob that the parser found is returned by its name, in memory, in the file, in between
\* while a save is interrupted or fails, and in a later session, also in one that had to
\* parse the book again to a list which was loaded. Except when addBlob could not write it,
\* which it does not look at, or when there are more blobs than indexes.
BlobsReadable ==
    Len(list) <= IndexRange =>
        \A k \in 1 .. parsed :
            /\ InSeq(Names, Book[k])
            /\ \/ open /\ FirstPlace(Names, Book[k]) \in file.lost
               \/ GetBlob(Book[k]) = FirstPlace(Book, Book[k])

\* A clean file has the list and every blob of the book, with the same exceptions.
CleanHasBlobs ==
    file.clean /\ Len(file.index) <= IndexRange =>
        \A n \in {Book[k] : k \in DOMAIN Book} :
            /\ InSeq(file.index, n)
            /\ \/ FirstPlace(file.index, n) \in file.lost
               \/ file.blocks[Index(FirstPlace(file.index, n))] = FirstPlace(Book, n)
=============================================================================
