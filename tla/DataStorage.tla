----------------------------- MODULE DataStorage -----------------------------
(***************************************************************************)
(* The DOM's node storage: ldomDataStorageManager and its chunks,          *)
(* ldomTextStorageChunk, of crengine's lvtinydom.cpp.  Nodes are appended  *)
(* to the active chunk, or live in preallocated raw chunks (styles and     *)
(* rectangles); a chunk that was not used lately is swapped to the cache   *)
(* file when the unpacked chunks take too much memory, and is read back    *)
(* when one of its nodes is asked for.                                     *)
(*                                                                         *)
(* A buffer is a sequence of cells; a node of n cells stands in n copies.  *)
(* One chunk list serves one storage, so a run takes Raw or not Raw.       *)
(***************************************************************************)
EXTENDS Integers, Sequences, SequencesExt, FiniteSetsExt

CONSTANTS Values,       \* what a cell may hold
          Sizes,        \* the sizes of new nodes, in cells
          ChunkSize,    \* _chunkSize, or the size of a raw chunk
          MaxUnpacked,  \* _maxUncompressedSize
          MaxChunks,    \* bound on the number of chunks
          Raw,          \* raw chunks (getRendRectData, getStyleData) or nodes
          Zero,         \* the content of a fresh raw chunk
          Gone,         \* no buffer
          CacheOpens    \* what createCacheFile() may return

ASSUME DataStorageAssumption ==
    /\ Sizes \subseteq Nat \ {0} /\ \E n \in Sizes : \A m \in Sizes : m <= n
    /\ ChunkSize \in Nat \ {0}
    /\ MaxUnpacked \in Nat \ {0}
    /\ MaxChunks \in Nat \ {0}
    /\ Zero \in Values
    /\ Gone \notin Seq(Values)
    /\ Raw \in BOOLEAN
    /\ Raw => ChunkSize < MaxUnpacked
    /\ CacheOpens \subseteq BOOLEAN

VARIABLES
    store,      \* the chunks, and their copies in the cache file
    lru,        \* _recentChunk, _nextRecent and _prevRecent (0 is NULL)
    active,     \* _activeChunk
    cache,      \* _cache is set
    want,       \* the chunk a raw access grows the list for, or 0
    saved,      \* the chunk index of the last complete save
    clean,      \* the cache file is as that save left it
    truth,      \* history: what the cells of each chunk should hold
    persisted,  \* history: truth at the last complete save
    appended    \* history: chunks that grew while they were marked saved

vars == <<store, lru, active, cache, want, saved, clean, truth, persisted, appended>>
saving == <<saved, persisted>>

Slots == 1 .. MaxChunks

-----------------------------------------------------------------------------
(* Chunks. *)

Chunk(buf, size, pos, flag) ==
    [buf |-> buf, bufsize |-> size, bufpos |-> pos, saved |-> flag]

NodeChunk == Chunk(Gone, 0, 0, FALSE)
RawChunk == Chunk([i \in 1 .. ChunkSize |-> Zero], ChunkSize, ChunkSize, FALSE)

InMemory(s, c) == s.chunks[c].buf # Gone

\* Mutant of Unsaved: the flag is read the wrong way round.
UnsavedInverted(ch) == ch.buf # Gone /\ ch.saved

\* swapToCache writes a chunk that is in memory and not saved.
Unsaved(ch) == ch.buf # Gone /\ ~ ch.saved

\* swapToCache(false) of the chunks in W.
Save(s, W) ==
    [chunks |-> [c \in DOMAIN s.chunks |->
                    LET ch == s.chunks[c] IN
                    IF c \in W /\ Unsaved(ch)
                    THEN Chunk(ch.buf, ch.bufsize, ch.bufpos, TRUE) ELSE ch],
     file   |-> [c \in Slots |->
                    IF c \in W \cap DOMAIN s.chunks /\ Unsaved(s.chunks[c])
                    THEN s.chunks[c].buf ELSE s.file[c]]]

\* Mutant of Unpacked: the buffer is not freed.
UnpackedKept(ch) == ch

\* setunpacked(NULL, 0)
Unpacked(ch) == IF ch.buf = Gone THEN ch ELSE Chunk(Gone, 0, ch.bufpos, ch.saved)

\* swapToCache(true) of the chunks in V.
SwapOut(s, V) ==
    LET t == Save(s, V) IN
    [chunks |-> [c \in DOMAIN t.chunks |-> IF c \in V THEN Unpacked(t.chunks[c])
                                           ELSE t.chunks[c]],
     file   |-> t.file]

\* _uncompressedSize
Unpackeds(s) == FoldLeft(LAMBDA n, ch : n + ch.bufsize, 0, s.chunks)

-----------------------------------------------------------------------------
(* The list of recently used chunks. *)

NoList == [recent |-> 0, next |-> [c \in Slots |-> 0], prev |-> [c \in Slots |-> 0]]

\* Mutant of Linked: a null chunk is written through.
LinkedAnywhere(p, c, d) == [x \in Slots \cup {c} |-> IF x = c THEN d ELSE p[x]]

\* The pointers p with p[c] = d, if there is a c.
Linked(p, c, d) == IF c = 0 THEN p ELSE [p EXCEPT ![c] = d]

\* getChunk moves chunk c to the front.
ToFront(l, c) ==
    IF c = l.recent THEN l
    ELSE LET next == Linked(l.next, l.prev[c], l.next[c])
             prev == Linked(l.prev, l.next[c], l.prev[c])
         IN [recent |-> c,
             next   |-> Linked(next, c, l.recent),
             prev   |-> Linked(Linked(prev, c, 0), l.recent, c)]

\* The nth chunk of the list (0 at its end), and the list as a sequence.
Nth(l) == LET nth[n \in Nat] == IF n = 0 THEN 0
                                ELSE IF n = 1 THEN l.recent
                                ELSE IF nth[n - 1] = 0 THEN 0
                                ELSE l.next[nth[n - 1]]
          IN nth
Order(l) == LET nth == Nth(l)
                len == CHOOSE n \in 0 .. MaxChunks + 1 :
                          /\ \A m \in 1 .. n : nth[m] # 0
                          /\ n = MaxChunks + 1 \/ nth[n + 1] = 0
            IN [n \in 1 .. len |-> nth[n]]

\* Mutant of Stays: the chunk that is asked for is swapped like any other.
StaysUnlessUnused(size, c, act, excluded, sum) ==
    size + sum < MaxUnpacked \/ c = act

\* compact() keeps a chunk that fits, the active and the excluded chunk (the
\* active one even when 0xFFFFFF bytes are reserved, less than 0xFFFFFFF).
Stays(size, c, act, excluded, sum) ==
    size + sum < MaxUnpacked \/ c = act \/ c = excluded

\* The chunks that compact() swaps of a list, most recently used first.
Victims(s, order, act, reserved, excluded) ==
    LET size(n) == s.chunks[order[n]].bufsize
        sum[n \in 0 .. Len(order)] ==
            IF n = 0 THEN reserved
            ELSE IF Stays(size(n), order[n], act, excluded, sum[n - 1])
                 THEN sum[n - 1] + size(n) ELSE sum[n - 1]
    IN {order[n] : n \in {m \in DOMAIN order :
            ~ Stays(size(m), order[m], act, excluded, sum[m - 1])}}

\* The chunks compact() wants to swap; none while there is room, with 10% overflow.
Excess(s, l, act, reserved, excluded) ==
    IF Unpackeds(s) + reserved > MaxUnpacked + MaxUnpacked \div 10
    THEN Victims(s, Order(l), act, reserved, excluded) ELSE {}

\* compact(): the stores it may leave, and whether there is a cache file then;
\* without one it asks for it, and swaps nothing if there is none to be had.
Compact(s, l, act, reserved, excluded) ==
    LET V == Excess(s, l, act, reserved, excluded) IN
    {[store |-> IF open THEN SwapOut(s, V) ELSE s, cache |-> open] :
        open \in IF cache \/ V = {} THEN {cache} ELSE CacheOpens}

\* Chunk c becomes ch.
WithChunk(s, c, ch) == [chunks |-> [s.chunks EXCEPT ![c] = ch], file |-> s.file]

\* restoreFromCache
Restored(s, c) ==
    WithChunk(s, c, Chunk(s.file[c], Len(s.file[c]), s.chunks[c].bufpos, TRUE))

\* getChunk of chunk c: it is in memory afterwards, others may have to go.
Touch(s, c) ==
    IF ~ InMemory(s, c) /\ s.chunks[c].saved
    THEN Compact(Restored(s, c), ToFront(lru, c), active, 0, c)
    ELSE {[store |-> s, cache |-> cache]}

\* A new chunk is made and touched, and the others are compacted.
AddChunk(s, ch, act) ==
    LET t == [chunks |-> Append(s.chunks, ch), file |-> s.file]
    IN Compact(t, ToFront(lru, Len(t.chunks)), act, 0, 0)

Room(ch, n) == ch.buf = Gone \/ ch.bufsize - ch.bufpos >= n

LongEnough(n) == IF n > ChunkSize THEN n ELSE ChunkSize

\* A node of n cells v.
Node(n, v) == [i \in 1 .. n |-> v]

\* addText and addElem; the flag _saved stays as it is.
Added(ch, n, v) ==
    IF ch.buf = Gone THEN Chunk(Node(n, v), LongEnough(n), n, ch.saved)
    ELSE Chunk(ch.buf \o Node(n, v), ch.bufsize, ch.bufpos + n, ch.saved)

AddNode(s, c, n, v) == WithChunk(s, c, Added(s.chunks[c], n, v))

\* A cell changes, and modified() clears the flag.
Modified(ch, i, v) == Chunk([ch.buf EXCEPT ![i] = v], ch.bufsize, ch.bufpos, FALSE)

-----------------------------------------------------------------------------
Chunks == DOMAIN store.chunks

Idle == want = 0

\* The file is no longer what the last save left once a chunk is written to it.
NoteWrites == clean' = (clean /\ store'.file = store.file)

\* getText, getParent, getElem, getRaw: chunk c is used.
Get(c) ==
    /\ Idle
    /\ \E r \in Touch(store, c) : store' = r.store /\ cache' = r.cache
    /\ lru' = ToFront(lru, c)
    /\ NoteWrites
    /\ UNCHANGED <<active, want, saving, truth, appended>>

\* setParent, freeNode and setRaw: a cell of chunk c is changed.
Update(c, i, v) ==
    /\ Idle
    /\ \E r \in Touch(store, c) :
          /\ i \in DOMAIN r.store.chunks[c].buf
          /\ store' = IF r.store.chunks[c].buf[i] = v THEN r.store
                      ELSE WithChunk(r.store, c, Modified(r.store.chunks[c], i, v))
          /\ cache' = r.cache
    /\ lru' = ToFront(lru, c)
    /\ truth' = [truth EXCEPT ![c][i] = v]
    /\ NoteWrites
    /\ UNCHANGED <<active, want, saving, appended>>

\* allocText and allocElem with room in the active chunk, which is not touched.
AllocHere(n, v) ==
    /\ ~ Raw
    /\ active # 0
    /\ Room(store.chunks[active], n)
    /\ store' = AddNode(store, active, n, v)
    /\ truth' = [truth EXCEPT ![active] = @ \o Node(n, v)]
    /\ appended' = IF store.chunks[active].saved THEN appended \cup {active} ELSE appended
    /\ UNCHANGED <<lru, active, cache, want, saving, clean>>

\* The same in a new active chunk.
AllocInNew(n, v) ==
    /\ ~ Raw
    /\ active # 0 => ~ Room(store.chunks[active], n)
    /\ Len(store.chunks) < MaxChunks
    /\ LET c == Len(store.chunks) + 1 IN
          /\ active' = c
          /\ lru' = ToFront(lru, c)
          /\ \E r \in AddChunk(store, NodeChunk, c) :
                /\ store' = AddNode(r.store, c, n, v)
                /\ cache' = r.cache
          /\ truth' = Append(truth, Node(n, v))
    /\ NoteWrites
    /\ UNCHANGED <<want, saving, appended>>

\* getStyleData, setRendRectData, ...: the list must grow up to chunk c first.
Want(c) ==
    /\ Raw
    /\ Idle
    /\ c \notin Chunks
    /\ want' = c
    /\ UNCHANGED <<store, lru, active, cache, saving, clean, truth, appended>>

\* One round of the loop that grows it.
Grow ==
    /\ ~ Idle
    /\ LET c == Len(store.chunks) + 1 IN
          /\ lru' = ToFront(lru, c)
          /\ \E r \in AddChunk(store, RawChunk, 0) : store' = r.store /\ cache' = r.cache
          /\ want' = IF want = c THEN 0 ELSE want
          /\ truth' = Append(truth, RawChunk.buf)
    /\ NoteWrites
    /\ UNCHANGED <<active, saving, appended>>

\* The cache file is opened for the document, or for another storage.
OpenCache ==
    /\ Idle
    /\ ~ cache /\ TRUE \in CacheOpens
    /\ cache' = TRUE
    /\ UNCHANGED <<store, lru, active, want, saving, clean, truth, appended>>

\* tinyNodeCollection::compact, with more reserved than there is.
CompactAll ==
    /\ Idle
    /\ \E r \in Compact(store, lru, active, 2 * MaxUnpacked, 0) :
          store' = r.store /\ cache' = r.cache
    /\ NoteWrites
    /\ UNCHANGED <<lru, active, want, saving, truth, appended>>

\* save() until the timer expires: some chunks are saved, the index is not.
SavePart(n) ==
    /\ Idle /\ cache
    /\ store' = Save(store, 1 .. n)
    /\ NoteWrites
    /\ UNCHANGED <<lru, active, cache, want, saving, truth, appended>>

\* save() in time, and the flush(true) of the document after it.
SaveAll ==
    /\ Idle /\ cache
    /\ store' = Save(store, Chunks)
    /\ saved' = [c \in Chunks |-> store.chunks[c].bufpos]
    /\ persisted' = truth
    /\ clean' = TRUE
    /\ UNCHANGED <<lru, active, cache, want, truth, appended>>

\* The document is closed and opened again from the clean file: load().
Reload ==
    /\ clean
    /\ store' = [chunks |-> [c \in DOMAIN saved |-> Chunk(Gone, 0, saved[c], TRUE)],
                 file   |-> store.file]
    /\ lru' = NoList
    /\ active' = 0
    /\ want' = 0
    /\ truth' = persisted
    /\ UNCHANGED <<cache, saving, clean, appended>>

Init ==
    /\ store = [chunks |-> <<>>, file |-> [c \in Slots |-> Gone]]
    /\ lru = NoList
    /\ active = 0
    /\ cache = FALSE
    /\ want = 0
    /\ saved = <<>>
    /\ clean = FALSE
    /\ truth = <<>>
    /\ persisted = <<>>
    /\ appended = {}

Next ==
    \/ \E c \in Chunks : Get(c)
    \/ \E c \in Chunks, v \in Values : \E i \in DOMAIN truth[c] : Update(c, i, v)
    \/ \E n \in Sizes, v \in Values : AllocHere(n, v) \/ AllocInNew(n, v)
    \/ \E c \in Slots : Want(c)
    \/ Grow \/ OpenCache \/ CompactAll
    \/ \E n \in Chunks : SavePart(n)
    \/ SaveAll \/ Reload

Spec == Init /\ [][Next]_vars

-----------------------------------------------------------------------------
(* Properties. *)

ChunkSet == [buf : Seq(Values) \cup {Gone}, bufsize : Nat, bufpos : Nat, saved : BOOLEAN]

\* The types of the storage's members, the list links and the saved index.
TypeOK ==
    /\ store.chunks \in Seq(ChunkSet)
    /\ store.file \in [Slots -> Seq(Values) \cup {Gone}]
    /\ lru \in [recent : Slots \cup {0}, next : [Slots -> Slots \cup {0}],
                prev : [Slots -> Slots \cup {0}]]
    /\ active \in {0} \cup Chunks /\ want \in {0} \cup Slots
    /\ cache \in BOOLEAN /\ clean \in BOOLEAN
    /\ saved \in Seq(Nat)
    /\ truth \in Seq(Seq(Values)) /\ persisted \in Seq(Seq(Values))
    /\ appended \subseteq Slots

\* What getChunk would find in chunk c.
Contents(s, c) == IF InMemory(s, c) THEN s.chunks[c].buf
                  ELSE IF s.chunks[c].saved THEN s.file[c] ELSE <<>>

\* Every node can be read back as it was last written, through any number of
\* swaps, saves and reloads, in every chunk that did not grow while its flag
\* said saved.
NodesReadable ==
    /\ Chunks = DOMAIN truth
    /\ \A c \in Chunks \ appended : /\ Contents(store, c) = truth[c]
                                    /\ store.chunks[c].bufpos = Len(truth[c])

\* After "saves all unsaved chunks to cache file" (the comment on save()) the
\* file holds every node, also those added to a chunk that was saved before.
SavedFileComplete ==
    clean => \A c \in DOMAIN persisted : store.file[c] = persisted[c]

\* compact() can find every chunk that is in memory: the list visits it once,
\* and its links agree in both directions.
RecentListSound ==
    LET order == Order(lru) IN
    /\ \A m, n \in DOMAIN order : order[m] = order[n] => m = n
    /\ \A n \in DOMAIN order : lru.prev[order[n]] = IF n = 1 THEN 0 ELSE order[n - 1]
    /\ \A c \in Chunks : InMemory(store, c) => \E n \in DOMAIN order : order[n] = c

\* getChunk brings its chunk into memory, and a pointer into it (getElem) stays
\* good until another chunk is asked for: whatever compact() swaps for another
\* chunk's sake, only compact() of everything takes the most recent one.
RecentChunkStays ==
    [][\A c \in Chunks :
          lru'.recent = c /\ ~ InMemory(store', c) =>
              ~ Get(c) /\ (lru.recent = c /\ InMemory(store, c) => CompactAll)]_vars

LargestChunk == LongEnough(Max(Sizes \cup {ChunkSize}))

\* compact() finds what it may swap, and so the unpacked chunks outgrow the limit by no
\* more than the 10% and the chunk that is asked for, and the active one if there is one.
MemoryBounded ==
    /\ RecentListSound
    /\ CacheOpens = {TRUE} =>
           Unpackeds(store) <= MaxUnpacked + MaxUnpacked \div 10
                                   + (IF Raw THEN 1 ELSE 2) * LargestChunk
=============================================================================
