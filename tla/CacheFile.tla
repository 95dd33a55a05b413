------------------------------ MODULE CacheFile ------------------------------
(***************************************************************************)
(* The swap file of a document: class CacheFile of crengine's              *)
(* lvtinydom.cpp.  Blocks are allocated in sectors, grown blocks move and  *)
(* leave free blocks behind, an index block lists all of them, and a       *)
(* header holds a copy of the index block's own record and a dirty flag.   *)
(*                                                                         *)
(* The file is seen through a caching stream: a write changes `cached',    *)
(* and each sector reaches the disk on its own, in any order, until        *)
(* Flush(true) has written everything.  A crash may come between any two   *)
(* of these steps; the handlers are therefore cut at every stream sync.    *)
(***************************************************************************)
EXTENDS Integers, Sequences, FiniteSets

CONSTANTS Keys,        \* keys of data blocks: (type, index) pairs
          Data,        \* contents of data blocks
          SizeOf,      \* size of each content, in units
          Sector,      \* CACHE_FILE_SECTOR_SIZE, in units
          IndexSlack,  \* spare records in a new index block (100 in the code)
          MaxSectors,  \* bound on the length of the file
          Index,       \* key of the index block, CBT_INDEX
          Free,        \* key of a free block, CBT_FREE
          Nothing,     \* no content was ever hashed or written
          Pad,         \* the 0xFF bytes written behind a block
          Compressed,  \* the blocks are packed (_uncompressedSize # 0)
          Validation,  \* _enableCacheFileContentsValidation
          MaxFailures  \* bound on failing stream writes (disk full) per file

ASSUME CacheFileAssumption ==
    /\ Sector \in Nat \ {0}
    /\ IndexSlack \in Nat
    /\ MaxSectors \in Nat \ {0}
    /\ SizeOf \in [Data -> Nat \ {0}]
    /\ Index # Free /\ Index \notin Keys /\ Free \notin Keys
    /\ Nothing \notin Data /\ Pad \notin Data /\ Pad # Nothing
    /\ Compressed \in BOOLEAN /\ Validation \in BOOLEAN
    /\ MaxFailures \in Nat

\* What an index block can contain: a copy of the records, its own one blank.
Snapshots == Seq([key : Keys \cup {Index, Free}, pos : Nat, bsize : Nat,
                  dsize : Nat, hash : Data \cup {Nothing}])

ASSUME NothingAssumption == Nothing \notin Snapshots

VARIABLES
    pc,            \* where the running call stands, "none" without a CacheFile
    tab,           \* _index, _freeIndex, _map and _size
    indexChanged,  \* _indexChanged
    dirty,         \* _dirty
    todo,          \* key and content of the write in progress
    cached,        \* the file as the process reads it
    disk,          \* the file as a crash leaves it
    aliased,       \* history: an index was saved that lists its own block free,
                   \* or a file was opened that ends before its last block
    failures       \* history: the stream writes that failed

vars == <<pc, tab, indexChanged, dirty, todo, cached, disk, aliased, failures>>
memory == <<tab, indexChanged, dirty>>
history == <<aliased, failures>>

-----------------------------------------------------------------------------
(* Records, contents and the block table. *)

Item(k, p, b, d, h) == [key |-> k, pos |-> p, bsize |-> b, dsize |-> d, hash |-> h]
NoItem == Item(Free, 0, 0, 0, Nothing)

\* roundSector: the sectors a block of n units takes.
Sectors(n) == (n + Sector - 1) \div Sector

\* The size of the content c of a block with key k; an index record takes one
\* unit.
ContentSize(k, c) == IF k = Index THEN Len(c) ELSE SizeOf[c]

NoTable == [index |-> <<>>, free |-> {}, size |-> 1,
            map |-> [k \in Keys \cup {Index} |-> 0]]

\* freeBlock: the record stays, typed free, and keeps its stale hash (that of
\* an index block is no hash of any data, and dropped here).
FreeBlock(t, i) ==
    LET b == t.index[i] IN
    [index |-> [t.index EXCEPT ![i] =
                  Item(Free, b.pos, b.bsize, 0,
                       IF b.key = Index THEN Nothing ELSE b.hash)],
     free  |-> t.free \cup {i},
     size  |-> t.size,
     map   |-> [t.map EXCEPT ![b.key] = 0]]

\* Mutant of Fits: any free block will do.
FitsAny(t, n) == t.free

\* The free blocks with room for n units, and the smallest of them.
Fits(t, n) == {i \in t.free : t.index[i].bsize * Sector >= n}
BestFits(t, n) ==
    {i \in Fits(t, n) : \A j \in Fits(t, n) : t.index[i].bsize <= t.index[j].bsize}

\* A free block is taken over by key k; position, size and old hash remain.
Renamed(b, k, n) == Item(k, b.pos, b.bsize, n, b.hash)

\* allocBlock of a key that is not mapped: the tables it may leave.  Which of
\* several smallest free blocks is taken is left open.
AllocBlock(t, k, n) ==
    IF Fits(t, n) # {}
    THEN {[index |-> [t.index EXCEPT ![i] = Renamed(t.index[i], k, n)],
           free  |-> t.free \ {i},
           size  |-> t.size,
           map   |-> [t.map EXCEPT ![k] = i]] : i \in BestFits(t, n)}
    ELSE {[index |-> Append(t.index, Item(k, t.size, Sectors(n), n, Nothing)),
           free  |-> t.free,
           size  |-> t.size + Sectors(n),
           map   |-> [t.map EXCEPT ![k] = Len(t.index) + 1]]}

\* The tables in which write() has found room for n units under key k.
Room(t, k, n) ==
    LET i == t.map[k] IN
    IF i = 0 THEN AllocBlock(t, k, n)
    ELSE IF t.index[i].dsize >= n THEN {t}
    ELSE AllocBlock(FreeBlock(t, i), k, n)

\* The block gets n units of data, with hash h.
Rewritten(b, n, h) == Item(b.key, b.pos, b.bsize, n, h)

\* What writeIndex stores: the records, those of the index block blanked.
Snapshot(ix) ==
    [i \in DOMAIN ix |-> IF ix[i].key = Index
                         THEN Item(Index, ix[i].pos, ix[i].bsize, 0, Nothing)
                         ELSE ix[i]]

\* The contents the program holds in the file, as its table tells.
Live == [k \in Keys |-> IF tab.map[k] = 0 THEN Nothing
                        ELSE tab.index[tab.map[k]].hash]

-----------------------------------------------------------------------------
(* Reading a file back. *)

\* The bytes of the block match the hash in its record.
Stored(f, it) ==
    /\ it.hash # Nothing
    /\ it.dsize = ContentSize(it.key, it.hash)
    /\ \A s \in it.pos .. it.pos + Sectors(it.dsize) - 1 : f.sec[s] = it.hash

\* CacheFileItem::validate; sector 0 holds the header.
ItemValid(f, it) == /\ it.dsize <= it.bsize * Sector
                    /\ it.pos + Sectors(it.dsize) - 1 <= f.len
                    /\ it.pos >= 1

\* 4096-1 bytes of tolerance are less than four sectors.
SizeTolerance == 3

Records(f) == IF f.hdr.idx.pos = 0 THEN <<>>
              ELSE [i \in DOMAIN f.hdr.idx.hash |->
                      IF f.hdr.idx.hash[i].key = Index THEN f.hdr.idx
                      ELSE f.hdr.idx.hash[i]]

\* open(): the file is accepted by readIndex and by validateContents.
Accept(f) ==
    /\ ~ f.hdr.dirty
    /\ f.hdr.fsize <= f.len + 1 + SizeTolerance
    /\ \/ f.hdr.idx.pos = 0
       \/ /\ f.hdr.idx.pos < f.hdr.fsize
          /\ f.hdr.idx.pos + f.hdr.idx.bsize <= f.hdr.fsize + SizeTolerance
          /\ f.hdr.idx.pos + Sectors(f.hdr.idx.dsize) - 1 <= f.len
          /\ Stored(f, f.hdr.idx)
          /\ \E i \in DOMAIN Records(f) : Records(f)[i].key = Index
          /\ \A i \in DOMAIN Records(f) : ItemValid(f, Records(f)[i])
          /\ Validation => \A i \in DOMAIN Records(f) :
                              Records(f)[i].key \in Keys => Stored(f, Records(f)[i])

\* _map after readIndex; no key occurs twice in an index.
MapOf(ix) ==
    [k \in Keys \cup {Index} |->
        IF \E i \in DOMAIN ix : ix[i].key = k
        THEN CHOOSE i \in DOMAIN ix : ix[i].key = k
        ELSE 0]

TableOf(f) == [index |-> Records(f),
               free  |-> {i \in DOMAIN Records(f) : Records(f)[i].key = Free},
               size  |-> f.len + 1,
               map   |-> MapOf(Records(f))]

\* What the program would hold after opening file f.
Image(f) == [k \in Keys |-> IF TableOf(f).map[k] = 0 THEN Nothing
                            ELSE Records(f)[TableOf(f).map[k]].hash]

-----------------------------------------------------------------------------
(* Writing to the stream. *)

BlankSectors == [s \in 1 .. MaxSectors |-> Nothing]
BlankHeader == [dirty |-> TRUE, idx |-> NoItem, fsize |-> 0]

\* Mutant of Padded: the padding is forgotten.
PaddedNever(f, it) == FALSE

\* write() pads a block that ends in the last sector of the file, or behind it.
Padded(f, it) == it.pos * Sector + it.dsize >= f.len * Sector

\* The sectors beyond the first n that padding fills after a complete write.
Padding(f, it, n) == IF n = Sectors(it.dsize) /\ Padded(f, it)
                     THEN it.pos + n .. it.pos + it.bsize - 1 ELSE {}

\* The stream after n sectors of content c went to the block of record it.
Written(f, it, c, n) ==
    LET end == IF Padding(f, it, n) # {} THEN it.pos + it.bsize - 1
                                         ELSE it.pos + n - 1
    IN [hdr |-> f.hdr,
        len |-> IF n > 0 /\ end > f.len THEN end ELSE f.len,
        sec |-> [s \in 1 .. MaxSectors |->
                    IF s \in it.pos .. it.pos + n - 1 THEN c
                    ELSE IF s \in Padding(f, it, n) THEN Pad
                    ELSE f.sec[s]]]

SimpleHeader(f, flag) == [f EXCEPT !.hdr.dirty = flag]

-----------------------------------------------------------------------------
Idle == pc = "idle"

\* createNew and create(stream): a fresh file, its header not yet on the disk.
Create ==
    /\ pc = "none"
    /\ ~ Accept(disk)
    /\ pc' = "idle"
    /\ tab' = NoTable
    /\ indexChanged' = FALSE
    /\ dirty' = TRUE
    /\ disk' = [hdr |-> BlankHeader, sec |-> BlankSectors, len |-> 0]
    /\ cached' = [hdr |-> [BlankHeader EXCEPT !.fsize = 1], sec |-> BlankSectors, len |-> 0]
    /\ aliased' = FALSE
    /\ failures' = 0
    /\ UNCHANGED todo

\* A write that failed may leave the file shorter than its blocks; open()
\* takes the length of the file for the end of them.
EndsEarly(f) ==
    /\ failures > 0
    /\ \E i \in DOMAIN Records(f) : Records(f)[i].pos + Records(f)[i].bsize > f.len + 1

\* open(stream): readIndex and validateContents.
Open ==
    /\ pc = "none"
    /\ Accept(disk)
    /\ pc' = "idle"
    /\ tab' = TableOf(disk)
    /\ indexChanged' = FALSE
    /\ dirty' = FALSE
    /\ aliased' = (aliased \/ EndsEarly(disk))
    /\ UNCHANGED <<todo, cached, disk, failures>>

\* write() returns early when the block already has this content.
Same(k, c) ==
    LET i == tab.map[k] IN
    /\ i # 0
    /\ tab.index[i].hash = c
    /\ (Compressed /\ k # Index) \/ tab.index[i].dsize = ContentSize(k, c)

\* Mutant of StartMarking: only the member is set, the header is not written.
StartMarkingMemberOnly == /\ dirty' = TRUE
                          /\ UNCHANGED cached
                          /\ pc' = "marking"

\* setDirtyFlag(true), up to its sync.
StartMarking == /\ dirty' = TRUE
                /\ cached' = SimpleHeader(cached, TRUE)
                /\ pc' = "marking"

\* write() of a data block, up to the sync of setDirtyFlag(true).
BeginWrite(k, d) ==
    /\ Idle
    /\ ~ Same(k, d)
    /\ todo' = [key |-> k, data |-> d]
    /\ IF dirty THEN pc' = "place" /\ UNCHANGED <<dirty, cached>>
                ELSE StartMarking
    /\ UNCHANGED <<tab, indexChanged, disk, history>>

\* The document marks the file dirty and leaves it so (updateMap).
LeaveDirty ==
    /\ Idle
    /\ ~ dirty
    /\ todo' = [key |-> Free, data |-> Nothing]
    /\ StartMarking
    /\ UNCHANGED <<tab, indexChanged, disk, history>>

\* Mutant of Marked: write() goes on before the dirty flag is on the disk.
MarkedUnsynced ==
    /\ pc = "marking"
    /\ pc' = IF todo.key = Free THEN "idle" ELSE "place"
    /\ UNCHANGED <<memory, todo, cached, disk, history>>

\* Flush(true) in setDirtyFlag(true) returns: everything is on the disk.
Marked ==
    /\ pc = "marking"
    /\ cached = disk
    /\ pc' = IF todo.key = Free THEN "idle" ELSE "place"
    /\ UNCHANGED <<memory, todo, cached, disk, history>>

\* Mutant of NoteIndexChange: the value is not a flag.
NoteIndexChangeUntyped == indexChanged' = todo.key

\* Mutant of NoteIndexChange: the record changes, the index is not rewritten.
NoteIndexChangeForgotten == UNCHANGED indexChanged

\* write() ends with the index to be saved again.
NoteIndexChange == indexChanged' = TRUE

\* The rest of write(): room is found, the bytes go to the stream, the record
\* gets the new hash.
Place ==
    /\ pc = "place"
    /\ \E t \in Room(tab, todo.key, ContentSize(todo.key, todo.data)) :
          LET i == t.map[todo.key]
              it == Rewritten(t.index[i], ContentSize(todo.key, todo.data), todo.data)
          IN /\ t.size <= MaxSectors + 1
             /\ tab' = [t EXCEPT !.index[i] = it]
             /\ cached' = Written(cached, it, todo.data, Sectors(it.dsize))
             /\ aliased' = (aliased \/ (todo.key = Index /\ i \in tab.free))
    /\ NoteIndexChange
    /\ pc' = IF todo.key = Index THEN "header" ELSE "idle"
    /\ UNCHANGED <<dirty, todo, disk, failures>>

\* The same when the stream takes only the first n sectors: write() returns
\* false and the record keeps its old hash under the new size.
PlaceFails ==
    /\ failures < MaxFailures
    /\ pc = "place"
    /\ \E t \in Room(tab, todo.key, ContentSize(todo.key, todo.data)) :
          LET i == t.map[todo.key]
              it == Rewritten(t.index[i], ContentSize(todo.key, todo.data), t.index[i].hash)
          IN \E n \in 0 .. Sectors(it.dsize) - 1 :
                /\ t.size <= MaxSectors + 1
                /\ tab' = [t EXCEPT !.index[i] = it]
                /\ cached' = Written(cached, it, todo.data, n)
                /\ indexChanged' = (indexChanged \/ t # tab)
    /\ failures' = failures + 1
    /\ pc' = "idle"
    /\ UNCHANGED <<dirty, todo, disk, aliased>>

\* flush(true), writeIndex: the records are copied before the index block is
\* written, and so before write() moves it.
BeginFlush ==
    /\ Idle
    /\ indexChanged
    /\ \E t \in IF tab.map[Index] = 0
                THEN AllocBlock(tab, Index, 2 * Len(tab.index) + IndexSlack)
                ELSE {tab} :
          /\ t.size <= MaxSectors + 1
          /\ tab' = t
          /\ todo' = [key |-> Index, data |-> Snapshot(t.index)]
          /\ pc' = IF Same(Index, Snapshot(t.index)) THEN "header" ELSE "place"
    /\ UNCHANGED <<indexChanged, dirty, cached, disk, history>>

\* flush(true) with an index that has not changed goes on to the dirty flag.
FlushUnchanged ==
    /\ Idle
    /\ ~ indexChanged
    /\ dirty
    /\ pc' = "clearing"
    /\ UNCHANGED <<memory, todo, cached, disk, history>>

\* Mutant of Header: the size is taken before the blocks were added.
HeaderOldSize == [dirty |-> dirty, idx |-> tab.index[tab.map[Index]],
                  fsize |-> cached.hdr.fsize]

\* CacheFileHeader(this, ...), as updateHeader writes it.
Header == [dirty |-> dirty, idx |-> tab.index[tab.map[Index]], fsize |-> tab.size]

\* updateHeader at the end of writeIndex, then setDirtyFlag(false).
UpdateHeader ==
    /\ pc = "header"
    /\ cached' = [cached EXCEPT !.hdr = Header]
    /\ indexChanged' = FALSE
    /\ pc' = "clearing"
    /\ UNCHANGED <<tab, dirty, todo, disk, history>>

\* setDirtyFlag(false): everything is on the disk before the flag is cleared.
ClearFlag ==
    /\ pc = "clearing"
    /\ cached = disk
    /\ dirty' = FALSE
    /\ cached' = SimpleHeader(cached, FALSE)
    /\ pc' = "cleared"
    /\ UNCHANGED <<tab, indexChanged, todo, disk, history>>

\* The second Flush(true) of setDirtyFlag(false) returns.
Cleared ==
    /\ pc = "cleared"
    /\ cached = disk
    /\ pc' = "idle"
    /\ UNCHANGED <<memory, todo, cached, disk, history>>

\* A dirty part of the stream reaches the disk: a flush in progress, an
\* intermediate flush(false), an evicted write block, or the system.
WriteBackHeader ==
    /\ pc # "none"
    /\ disk.hdr # cached.hdr
    /\ disk' = [disk EXCEPT !.hdr = cached.hdr]
    /\ UNCHANGED <<pc, memory, todo, cached, history>>

WriteBackSector(s) ==
    /\ pc # "none"
    /\ disk.sec[s] # cached.sec[s]
    /\ disk' = [hdr |-> disk.hdr,
                sec |-> [disk.sec EXCEPT ![s] = cached.sec[s]],
                len |-> IF s > disk.len THEN s ELSE disk.len]
    /\ UNCHANGED <<pc, memory, todo, cached, history>>

\* The process dies; the destructor likewise leaves the file as it is.
Crash ==
    /\ pc # "none"
    /\ pc' = "none"
    /\ tab' = NoTable
    /\ indexChanged' = FALSE
    /\ dirty' = TRUE
    /\ cached' = disk
    /\ UNCHANGED <<todo, disk, history>>

Init ==
    /\ pc = "none"
    /\ tab = NoTable
    /\ indexChanged = FALSE
    /\ dirty = TRUE
    /\ todo = [key |-> Free, data |-> Nothing]
    /\ disk = [hdr |-> BlankHeader, sec |-> BlankSectors, len |-> 0]
    /\ cached = disk
    /\ aliased = FALSE
    /\ failures = 0

Next ==
    \/ Create \/ Open
    \/ \E k \in Keys, d \in Data : BeginWrite(k, d)
    \/ LeaveDirty \/ Marked \/ Place \/ PlaceFails
    \/ BeginFlush \/ FlushUnchanged \/ UpdateHeader \/ ClearFlag \/ Cleared
    \/ WriteBackHeader
    \/ \E s \in 1 .. MaxSectors : WriteBackSector(s)
    \/ Crash

Spec == Init /\ [][Next]_vars

-----------------------------------------------------------------------------
(* Properties. *)

Hashes    == Data \cup Snapshots \cup {Nothing}
Items     == [key : Keys \cup {Index, Free}, pos : Nat, bsize : Nat,
              dsize : Nat, hash : Hashes]
Files     == [hdr : [dirty : BOOLEAN, idx : Items, fsize : Nat],
              sec : [1 .. MaxSectors -> Hashes \cup {Pad}],
              len : Nat]

Tables    == [index : Seq(Items), free : SUBSET Nat, size : Nat \ {0},
              map : [Keys \cup {Index} -> Nat]]

\* The types of the CacheFile members and of both views of the file.
TypeOK ==
    /\ pc \in {"none", "idle", "marking", "place", "header", "clearing", "cleared"}
    /\ tab \in Tables
    /\ indexChanged \in BOOLEAN
    /\ dirty \in BOOLEAN
    /\ todo \in [key : Keys \cup {Index, Free}, data : Hashes]
    /\ cached \in Files
    /\ disk \in Files
    /\ aliased \in BOOLEAN
    /\ failures \in Nat

\* An accepted file holds exactly what the running program believes to have
\* stored: at no point of a write or a flush would a crash leave a file that
\* open() takes for valid and that is older, newer or mixed.
RestartSeesLive == pc # "none" /\ Accept(disk) => Image(disk) = Live

\* The sectors on the disk change only while the disk says the file is dirty:
\* setDirtyFlag(true) is durable before write() touches any block.
DirtyBeforeData ==
    [][disk'.sec # disk.sec /\ pc # "none" => disk.hdr.dirty]_vars

SectorsOf(it) == it.pos .. it.pos + it.bsize - 1

\* Blocks of the table lie behind the header, inside the file and apart from
\* each other: allocBlock gives out no sector twice, in this session or after
\* open() has taken the end of the file for the end of its blocks.  Excepted
\* are an index that was saved with its own block listed as free, and a file
\* that a failed write has left shorter than its blocks.
BlocksDisjoint ==
    ~ aliased => \A i \in DOMAIN tab.index :
        /\ SectorsOf(tab.index[i]) \subseteq 1 .. tab.size - 1
        /\ \A j \in DOMAIN tab.index \ {i} :
              SectorsOf(tab.index[i]) \cap SectorsOf(tab.index[j]) = {}

\* Every stored block can be read back with its hash intact: allocation,
\* padding and reuse never run over a block in use.
StoredBlocksReadable ==
    Idle /\ ~ aliased /\ failures = 0 =>
        \A k \in Keys : tab.map[k] # 0 => Stored(cached, tab.index[tab.map[k]])

\* After flush(true) the next session accepts the file.
FlushedFileOpens == Idle /\ ~ dirty /\ ~ aliased /\ failures = 0 => Accept(disk)

\* The record of the index block in the header is a duplicate of one of the
\* records in the index, as the comment on CacheFileHeader says.
HeaderDuplicatesIndexRecord ==
    Idle /\ ~ dirty /\ disk.hdr.idx.pos # 0 =>
        \E i \in DOMAIN disk.hdr.idx.hash :
            /\ disk.hdr.idx.hash[i].key = Index
            /\ disk.hdr.idx.hash[i].pos = disk.hdr.idx.pos

\* CacheFile keeps the promise of the cache store.
Store == INSTANCE CacheStore WITH
            up    <- pc # "none",
            mem   <- IF pc = "none" THEN [k \in Keys |-> Nothing] ELSE Live,
            saved <- IF Accept(disk) THEN {Image(disk)} ELSE {}
KeepsPromise == Store!Spec
=============================================================================
