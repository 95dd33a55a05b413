# CoolReader: a TLA+ verification development

CoolReader (KnownReader) is an e-book reader: the C++ engine crengine parses a book to a
DOM, lays it out and keeps the result in a cache file, and front ends for Android, Qt,
wxWidgets and embedded devices show it. This directory models the parts of the engine and
of the Android program whose correctness depends on the order of steps, checks them with
TLC and proves the most important properties with TLAPS.

Contents: [1 inventory](#1-inventory), [2 the models](#2-the-models), [3 the runs](#3-the-runs),
[4 the proofs](#4-the-proofs), [5 what the runs found](#5-what-the-runs-found),
[6 what is not covered](#6-what-is-not-covered), [7 plan](#7-plan),
[8 how to run](#8-how-to-run).

## 1 Inventory

Paths are relative to `src/`; `lvtinydom.cpp` is `crengine/src/lvtinydom.cpp`.

### The persistence core: a document and its cache file

A document of some size does not stay in memory as a whole. Its nodes are packed into
chunks, chunks are swapped to a cache file, and the same file, when the book is saved to it
completely, is what the next session opens instead of parsing the book. Five components
work on this, one on top of the other:

    front ends (Android SwapToCacheTask, cr3gui OnFormatEnd, cr3qt, close book)
        | updateCache(timer), swapToCache(timer), until CR_DONE
    ldomDocument::saveChanges / swapToCache / updateMap / openFromCache     SaveChanges
        | save(), load()                    | write(block), flush(true)
    ldomDataStorageManager, its chunks  ----+                               DataStorage
        | write(chunk), read(chunk)         |
    CacheFile: blocks, index, dirty flag    |                               CacheFile
        | Write, Read, SetPos, Flush(sync)                                  (CacheStore)
    LVBlockWriteStream over LVFileStream                                    BlockWriteStream
        |                                                                   (ByteStream)
    *.cr3 files in the cache directory, listed by ldomDocCache              DocCache

| component | state | operations | what is hard | what makes it correct |
|---|---|---|---|---|
| `CacheFile` (lvtinydom.cpp 453-1360) | records of blocks, map, free list, `_size`, `_dirty`, `_indexChanged`, the file | create, open, write, flush, setDirtyFlag, allocBlock, freeBlock | a crash between any two stream operations; sectors reach the disk in any order; partial writes; reuse of free blocks | a file that opens has exactly the contents the program had; blocks never overlap |
| `ldomDataStorageManager`, `ldomTextStorageChunk` (3150-3830) | chunks (buffer, `_saved`), list of recent chunks, `_uncompressedSize`, `_activeChunk` | allocText, allocElem, get/set, getChunk, compact, swapToCache, restoreFromCache, save, load | flags that say whether memory or file is newer; a hand-linked list; pointers into chunks that may be swapped | every node reads back as last written; memory is bounded |
| `ldomDocument::saveChanges` and its callers (15579-16070, 16300-16420, lvdocview.cpp) | `_mapSavingStage`, `_cacheFileStale`, `_mapped`, `_maperror`, 13 stages | updateMap, swapToCache, openFromCache, render, addBlob | the save is cut into slices by a timer and goes on later; the document changes in between; stages fail; crashes | a clean file is one document; a document that is not stale is in it; saving ends |
| `LVBlockWriteStream` (lvblockwritestream.cpp) | cached blocks with modified ranges, `_size`, `_pos`, `_count`; the file below with its own idea of size | Read, Write, SetPos, Flush with a timer, close | eviction in the middle of a write, reads across cached and uncached blocks, what is modified at the end of the file | it behaves as the file it caches |
| `ldomDocCache` (16430-16770) | list of files, index on disk, files on disk, size and CRC of the index last written | init, openExisting, createNew, clear, writeIndex | killed between changing the directory and writing the index; files that cannot be deleted; files the user moves away | the index is not behind the list, no file is forgotten, room is made, nothing needed is deleted |

### The document in memory, and the book it is read from

| component | state | operations | what is hard | what makes it correct |
|---|---|---|---|---|
| `tinyNodeCollection` (lvtinydom.cpp 2820-3148, 5078-5302, 16139-16360, 18538-18625): slots of nodes, styles of elements | slots with a free list through them, style and font index of each element, `_fontMap`, `_nodeStyleHash` | allocTinyNode, recycleTinyNode, setNodeStyle, initNodeFont, dropStyles, calcStyleHash, updateLoadedStyles | indexes that are used again, in a map and a hash that outlive them; parts of 1024 slots whose first index is 1; what a session loads is not all that the last one had | no node in use is given out again; an element has the font of its style; the hash is that of the document; a document comes back as it was saved |
| `LVIndexedRefCache` (lvrefcache.h) | entries with counts, a free list through them | cache, addIndexRef, release, setIndex, getIndex | the count of an entry against all its holders | an entry that somebody holds is not dropped, equal values have one entry |
| `LVCachedStream` (lvcachedstream.cpp) | blocks of the stream, an LRU list | Seek, Read, fillFragment | a read evicts while it loads; fragments begin in front of what is missing | what is read is what the stream has; blocks that are there are not loaded again |
| `ldomBlobCache` (lvtinydom.cpp 1816-1976), under saveChanges and openFromCache | list of embedded images and fonts, each in memory or in the file, `_changed` | addBlob, getBlob, saveToCache with a timer, setCacheFile, loadIndex | the place in the list is the index in the file, over sessions and failed openings; writes that fail | a blob reads back as the book has it; a file that opens has all of them |

### The Android program's threads

| component | state | operations | what is hard | what makes it correct |
|---|---|---|---|---|
| `BackgroundThread`, `Sync`, `Services` | lists `posted` and `postedGUI`, handlers, `instance`, `mEngine` | postBackground, postGUI, callGUI, run, setGUIHandler, startServices, stopServices, quit | handlers that do not exist yet or any more, tested without the lock; restart while the old thread ends | every task runs once, in order; nobody waits forever; services that are up have an engine |
| `ServiceThread` (of the database service) | `mQueue`, `mStopped`, the handler | post, postAtFrontOfQueue, postDelayed, run, stop, waitForCompletion | tasks before the looper; a wait that ends by timeout | tasks run in order; stop loses none |
| `CoverpageManager` | a cache of bitmaps, three queues, tasks of two threads | queueForDrawing, coverpageLoaded, draw, notifyBitmapIsReady, unqueue, setFontFace | one request goes through five threads and queues, while the cache evicts and recycles | a view that was drawn gets its cover, in the font of now |

### The rest of the engine

* Navigation history, bookmarks (`lvtinydom.h` 2308-2361, `hist.cpp`, `lvdocview.cpp`).
* Page splitter, block renderer, text formatter, style sheets: algorithms over data,
  sequential.
* Parsers and importers of formats; archives; fonts and glyph caches (the latter with LRU
  lists under mutexes); hyphenation; images; MathML; properties; logging.
* `crgui`/`crskin`: windows, commands and an event queue for embedded devices.
* `crconcurrent`: mutexes for Android, and an executor that nothing in the repository uses.

### The rest of the front ends

* Android: `SwapToCacheTask` saves the document in slices and posts itself again; database,
  scanner, synchronizer, text to speech are application logic. The JNI bridge converts.
* cr3gui, cr3qt, cr3wx: user interface; they save when a document is formatted or closed.

`PROJECT.json` lists every component with its status and the reason where it has no module,
and under `hazards` the places in the code where a test would hardly reach a failure, each
with the properties that watch it.

## 2 The models

Names of operators follow the source: an action is the method, with everything it calls
that changes state; a step of a method is an action of its own only where a crash, a timer
or another actor can come in between. `PROJECT.json` maps each definition to its lines.

### CacheFile (with CacheStore)

`tab` is the record of `_index`, `_freeIndex`, `_map` and `_size`; `dirty` and
`indexChanged` are the flags. The stream is seen twice: `cached` as the process reads it,
`disk` as a crash leaves it. A write changes `cached`; `WriteBackSector` and
`WriteBackHeader` bring any sector or the header to the disk at any time, which covers the
write-back cache, its timer and the operating system; `Flush(true)` is a wait for
`cached = disk`. `write()` and `flush()` are therefore cut at their syncs: `BeginWrite`,
`Marked` (dirty flag on disk), `Place` (allocation and data) or `PlaceFails` (the stream
takes only a part); `BeginFlush`, `Place` of the index block, `UpdateHeader`, `ClearFlag`,
`Cleared`. `Crash` may come at any time, and so stands for the destructor, which does not
flush either.

The data: a content is a model value with a size, its hash is the content itself (xxhash
does not collide here), a sector holds one content or padding. `Compressed` blocks are
compared by hash alone. An index block contains the records, as in the code.

`CacheStore` is the promise: a map from keys to contents, and what a restart would see of
it, which is nothing or exactly the current contents, and is nothing whenever contents
change. `CacheFile!KeepsPromise` instantiates it with `mem` = the hashes in the table and
`saved` = the image of the disk if `open()` would accept it.

Two history variables: `failures` (stream writes that failed) and `aliased` (an index was
saved that lists its own block as free, or a file was opened that a failed write had left
shorter than its blocks, see 5). `BlocksDisjoint`, `StoredBlocksReadable`
and `FlushedFileOpens` say nothing after `aliased`, and the last two nothing after a failed
write, since the code drops that error; `RestartSeesLive`, `DirtyBeforeData` and
`KeepsPromise` have no exceptions.

### DataStorage

One storage manager: chunks with buffer, `_saved`, `_bufsize`, `_bufpos`, their copies in
the cache file, the list of recent chunks with its links as the code keeps them, the active
chunk. A node of n cells holds one value n times, so that `Update` can make a node differ
from what is in the file. `Raw` chooses between node storages (append to the active chunk)
and the storages of styles and rectangles (preallocated chunks that are created up to the
one wanted: `Want`, `Grow`). `compact()` is computed as the code does, in the order of the
list, with the requested and the active chunk exempt (`Victims`, of a list given as a sequence); when there is no cache file it asks
for one, which may fail (`CacheOpens`).
`SavePart` is a `save()` cut by its timer, `SaveAll` a complete one with the flush of the
document, and `Reload` a new session with a file that is still as that save left it.
`truth` is what the program wrote.

### SaveChanges

The file and the document are maps from parts to versions; a version is a count of the
changes the document has seen. Stages of `saveChanges` that lie next to each other and do
the same are one step (`Steps`). A call runs from its first step (1 for an unlimited timer,
`stage` for a limited one) to the end (`SaveDone`), to a check of the timer
(`SaveTimeout`), or to a step that fails (`SaveError`). A call is one action: nothing
changes the document while it runs, as the engine is called under one lock or from one
thread, and `Restart` after a prefix of it is the same as after a `SaveTimeout`, since the
file is dirty until step "flush". `Render`, `BuildToc`, `AddBlob` and `Swap` (compact of a
storage) are what changes document and file between two calls. The cache file below keeps
the promise of `CacheStore`: it opens if it is clean, and every write makes it dirty.

### BlockWriteStream (with ByteStream, ByteArrays)

The cached blocks in their order, each with its range to be written and its end, and the
file below with `m_size` and `m_pos` of `LVFileStream`, because `GetSize` of that stream
grows with its position and `readBlock` depends on it. `Flush(n)` is a flush that stops
after n blocks because its timer is over. `ByteStream` is the promise: a byte sequence with
a position. `IsByteStream` maps it to what the file would be if everything were written.
As the code does it, a read may stop in front of a zero: `ByteStream` says so explicitly, and
`ReadsInFull` (below) is the stronger statement, which fails. A file that is closed has all of
the stream, its size included, unless the stream ends in a zero: then the file may be left
too short (`short`), and nothing is promised from then on, since more than a byte may get lost
later (section 5).

What is written is any sequence of bytes (`WordsAssumption`), also a blank header and data that
fill their sectors and end in zeros. Writes start at multiples of `SectorSize`; within the
file they may have any length, as the header's, at its end they are whole sectors, which is
what CacheFile writes with its padding. `PaddedWords` adds that whole sectors do not end in
a zero, as if every block had padding (0xFF): then no file is ever left too short
(`NeverShort`, section 4). CacheFile does not guarantee this: the new header and a block that
fills its sectors exactly may end in a zero.

Data and their padding, two calls of `Write` in the code, are one word; nothing comes between
them. `_count` is cut at `BlockCount`, above which it is only compared. `SetSize`, which has
no caller on this stream, and failing writes are left out; therefore the component is marked
"partly".

### DocCache

The list, the index, the files in the directory, and what `_oldStreamSize` and
`_oldStreamCRC` stand for (`written`). An operation changes list and directory; the index
follows in steps: it is compared (`WriteNothing`), emptied (`Truncate`), written (`Write`),
written in part (`WriteShort`), or that fails (`WriteFails`); `Stop` may come in between. `Stuck` files cannot be deleted
for a while; `Take` is the user who renames a file to `.keep` or deletes it.
`openExisting` lists the size the file has then, which is any, as files grow. `clear()`
deletes names without their directory, that is nothing; no code calls it, but it is public.

What `writeIndex` compares is the length of the index (`Bytes`). `putCRC` (lvtinydom.cpp:16474)
appends the CRC32 of what the buffer has, and `getCRC` (16477) takes the CRC32 of the whole
buffer, its own CRC32 included; such a value depends on the length only. So the test
at 16481 compares sizes, and `written` is a length. Two lists have the same when their names
have (`NameLen`; `makeFileName` cuts a name at 25 characters and adds a hash, so equal lengths
are the normal case). A list in another order, with another size or with a name replaced by
an equally long one is not written. A short write counts as a success (`LVFileStream::Write`
returns LVERR_OK, lvfilestream.cpp:327-335) and its length is remembered. Collisions of
the CRC of an index that is not complete are left out.

`IndexIsList`, which one would expect, is refuted by the run `doccache_index`. `IndexIsAsLong`
is what the code keeps: that memory of the file (`written`) does not get behind the file over
kills, starts and failures, or changes it could see would be lost too. It excepts what
follows a failed or short write: there TLC refutes it, because the file was truncated and a
list of the remembered length is skipped. `NoOrphans` excepts a lost index, a failed deletion
and `clear()`. `StartKeepsFiles` speaks of the order of the index, which is the order of use
only as far as the index was written.

`reserve()` visits the list from its front (`Visit`) and keeps what fits, and the first file
whatever its size if nothing is asked for. What is asked for is a tenth of the document, so
`RoomIsMade` speaks of documents of ten bytes or more: below, n / 10 is 0.

### NodeTable (with RefCache)

`RefCache` is `LVIndexedRefCache` as operators on a record: the entries, where an entry
without a value holds the next free index as in the code, and the head of the free list.
Its hash table is the operator `Find`. `NodeTable` has one `tinyNodeCollection`: the slots
of elements and of texts (a free slot holds `_nextFreeIndex`), parent, style index and font
index of each element, both caches, `_fontMap` and `_nodeStyleHash`, here the values that
the hash is computed from. `phase` is where the program is: parsing, the boxes of a
rendering, its layout, ready; `Save` puts in `image` what the stages "nodes" and "styles" of
saveChanges write, and `Load` is the next session. `MoveItem` is `moveItemsTo`, by which boxing
gives a node another parent; `UpdateRenderContext` takes the hash for the layout that was made.
One thread does all of this, so an operation is one step, with every cache call it makes, in
the order of the slots. A document is rendered until it is first saved (`Renders` asks for
`NoImage` once it is ready), which bounds the sessions and not what they do.

The style of an element is any: what CSS makes of it is not modelled, nor are names,
attributes and the order of children; a child knows its parent only. `Room` bounds the counts, since every `getNodeStyle`
adds a reference that nobody releases. The walks over all elements (`Walked`) stop too early
when the number of slots is a multiple of the part length: the number of parts is rounded up
from `_elemCount`, but the first element has index 1. `AtBoundary = FALSE` keeps such walks
out (see 5). `outdated` is history: `_fontMap` named a font that was not that of the style
any more, until the next full rendering or opening; `FontsFollowStyles` and half of `ReferencesHeld` say nothing afterwards.

### ReadCache

One step is one iteration of a loop in `Read` or `fillFragment`, because the question is
what an eviction in one iteration does to the next. A byte is named by its place in the
stream, so that `ReadsFile` compares what was copied with what should have been. The list
is a sequence, `m_buf` the set of its elements. When a block cannot be loaded the program
exits (`FillFails`). That `int` overflows behind two gigabytes is left out.

### BlobCache

The content of a blob is its place in the book, so `BlobsReadable` can say which one a block
should have. The cache file keeps the promise of `CacheStore`: a write makes it dirty, and
only `Flush`, the last stage of saveChanges, makes it clean. One call of `saveToCache` is one
action; its parameters are the place where the timer expires (`last`), the writes that fail
(`bad`) and whether the list itself is written (`listed`). An index is an `lUInt16`:
`IndexRange` stands for its 65536 values, and the index of a blob is its place modulo that.

A session begins with `OpenFromCache`, which may fail behind the blobs; then list and file
stay as they are and the book is parsed to them (`loaded = FALSE`), so that the list grows
with each such session. `lost` is history, the blobs that `addBlob` failed to write: the
stream that a caller gets has no hash check, so what is read then is any content.
Blobs of no bytes, and streams already handed out, are left out.

### Task threads: Looper, BackgroundThread, ServiceThread

`Looper` is the message queue of Android as far as the code relies on it (external): what
is due in order, what is delayed, quit. `BackgroundThread` has every thread there was, as
`instance()` makes a new one when the last has ended; a post is a test of the handler
without the lock, then the rest (`PostBackground`, `PostBackgroundEnds`), and so is the
start of `run` (`Prepare`, `Copy`) and its end (`Leave`, `End`). `callGUI` waits in
`Get`, `Lock` and `Notify`, the steps of `Sync`. `instance()` reads its field twice; when the end
of a thread resets it in between, the caller gets a NullPointerException before anything
is posted, which is no step of the model. `StartServices`, `Forward` and
`StopServices` are `Services`. In `ServiceThread` a post holds the lock and is one step;
`StopService` and `QuitService` are the halves of `stop`.

The properties have exceptions where the code does not keep the promise, each of them a
history variable that names the steps it takes, and each needed: without it TLC refutes the
property in five to thirteen states (section 5).

### CoverPages

A cover goes from `DrawView` (a view without a bitmap asks) over the queue for the database
or the one for the scanner, `Answer`, `Scan` or `Download`, to `CoverpageLoaded`, which
makes an entry in the cache and posts a task, `DrawStarts`, `SetBitmap` and `DrawEnds` in the
background thread, the last two without the lock, and `Notify`, which makes the view be drawn again. Painting takes two steps, since
the background thread may recycle the bitmap in between. A bitmap is the font it was drawn
with. An entry is held while the background thread draws to it, as an object that may have
left the cache.

A file without a format is shown with its title and never asked for (`lost`). A bitmap that
is recycled while it is painted leaves the view blank; its entry goes only if that happens
behind the comparison with a black bitmap.

Deviations: an item has one size; custom covers, which skip the queues, and black ones, of
which the title is shown although they are ready, are left out; several delayed tasks of `notifyBitmapIsReady` are one flag; tasks that a later one
superseded do nothing and are not listed. `setCoverpageData` has no live caller.

## 3 The runs

Every property has a mutant of the code definition it watches, which TLC refutes under the
same configuration (`PROJECT.json`, "mutants"; the mutants stand beside the definitions they
change).

| run | instance | checks | distinct states |
|---|---|---|---|
| `cachefile` | 2 keys, contents of 1 and 2 sectors, 6 sectors, 1 failing write, packed | `TypeOK`, `RestartSeesLive`, `BlocksDisjoint`, `StoredBlocksReadable`, `FlushedFileOpens`, `DirtyBeforeData`, `KeepsPromise` | 2 109 510 |
| `datastorage` | 2 chunks of 2 cells, limit 3, nodes of 1 and 3 cells, 2 values, a cache file that may be missing | `TypeOK`, `NodesReadable`, `RecentChunkStays` | 1 205 866 |
| `datastorage_raw` | 4 raw chunks of 1 cell, limit 2 | `MemoryBounded` | 294 399 |
| `document` | SaveChanges: unlimited timers, documents up to version 3; NodeTable: 3 elements in parts of 2, 1 text, 3 styles of which 2 have the same font, counts up to 3 | `FileIsSnapshot`, `NotStaleIsSaved`; `NodesTypeOK`, `ReferencesHeld`, `FontsFollowStyles`, `HashCurrent`, `LoadedAsSaved` | 423 723 |
| `savechanges_ends` | both timers, versions up to 2, fairness | `ResumedSaveIsComplete`, `SavingEnds` | 138 837 |
| `savechanges_stale` | limited timers | refutes `NotStaleIsSaved` | |
| `blockwritestream` | blocks of 6 bytes, sectors of 3, 15 bytes, a cache of 2 blocks, a padded word and two blank ones | `StreamTypeOK`, `IsByteStream` | 429 633 |
| `doccache` | 3 documents, two with names of one length, sizes 8 and 40, limit 18 | `TypeOK`, `IndexIsAsLong`, `NoOrphans`, `RoomIsMade`, `StartKeepsFiles` | 86 861 |
| `doccache_index` | the same | refutes `IndexIsList` | |
| `reading` | 13 bytes in blocks of 2, 3 blocks cached, reads of 1 to 13 bytes; a book of 3 blobs, two with one name, 6 indexes, 2 failing writes | `NeverMissing`, `ReadsFile`, `LoadsOnlyMissing`, `BlobsReadable`, `CleanHasBlobs` | 56 689 |
| `taskthreads` | a thread beside the GUI thread, 2 tasks, 2 background threads, 2 starts; 4 tasks of a service | `InOrder`, `EveryTaskRuns`, `CleanStart`, `ServiceInOrder`, `StopLosesNothing` | 1 681 006 |
| `coverpages` | 2 covers, a cache for 1, 4 events | `TypeOK`, `NoStaleFont`, `EveryCoverArrives` | 3 020 981 |

Why the bounds are enough:

* CacheFile: two keys with contents of different sizes give every way a block can grow,
  move, be freed and be reused by another key or by the index; six sectors are one more
  than the two data blocks, the index block and one freed block need, so reuse is forced
  and the bound is met; the sectors of one write reach the disk in every order. A third key
  would add no relation between blocks that two keys, the index and the free blocks do not
  have.
* DataStorage: with two node chunks each can be active, requested, neither or both;
  oversized nodes exceed the chunk and the limit. Four raw chunks, of which two fit, give
  the list a head, a tail and two places in between.
* SaveChanges: two documents suffice to be mixed up, a third one to change again while
  they are. All storages do the same in `compact()`, so `Swapped` has one of them.
* BlockWriteStream: two blank sectors, as a new header is, cross blocks or fill one, a padded
  sector is written over and behind them, and a blank word of 4 bytes ends within a sector;
  three blocks exceed the cache of two, and a read of 6 bytes crosses cached and uncached
  ones. The constraint `LongEnough` does not follow a file that was left too short, of which
  nothing is promised.
* SaveChanges and NodeTable share nothing in the run `document`: a behaviour is of one of them.
* DocCache: three files, of two sizes and with names of two lengths: the larger alone exceeds the limit, two of the smaller
  do fit, three do not; for the smaller nothing is reserved, as 8 / 10 is 0. One is stuck.
* NodeTable: with three elements, two share a style while the third one's entry is freed and
  used again; two styles with one font and one with another tell a font that follows its
  style from one that follows its index. Three slots in parts of two make walks begin in one
  part and end in another.
* ReadCache: reads reach from less than a block to more than the cache holds, with holes in
  front of, between and behind blocks that are cached; the last block is a partial one.
* Blobs, in the same run, with which they share nothing: two of one name and one between
  them, so that the first place of a name matters. A list that was loaded and is parsed to
  again has six entries and uses every index once; a third such session would need nine
  (`MaxListed`).
* Task threads: order and loss are relations of two tasks, restart of two threads. The third
  task that a restart needs is that of `stopServices`, which is not counted. A service's four
  tasks are one before its looper, one after it, one delayed and one in front. The two classes
  share nothing, so a behaviour of the run is one of either.
* CoverPages: two covers compete for a cache of one, so that each request can evict the other
  at every stage; four events are two drawings and two of font change, drawing and unqueue.

Deadlock is checked where the system cannot stop (CacheFile); the other models stop at
their bounds (`MaxChunks`, `MaxChanges`, `MaxTasks`, `MaxEvents`), or have no step that must
follow, and say `CHECK_DEADLOCK FALSE`. Symmetry (keys, values, documents that may be stuck
alike, styles with the same font, covers) is used in runs without liveness only.

That everything which was asked for happens is stated without fairness where it can be:
`EveryTaskRuns`, `ServiceInOrder` and `EveryCoverArrives` say that it has happened when no
thread has anything left to do, so a lost task, a missing notification or threads that wait
for each other violate them.

Fairness: `SavingEnds` assumes `WF_vars(Advance)`, that the front end calls updateMap
again for as long as it returned CR_TIMEOUT, and that a slice gets at least to the next
check of the timer. The code that justifies it: `SwapToCacheTask.java` posts itself again on
`SWAP_TIMEOUT`, and cr3gui's `mainwnd.cpp` 427-429 "in each idle cycle call
_docview->updateCache(timeOut) while it returns CR_TIMEOUT". A slice in which a single step
takes longer than its timer still ends behind that step, because the timer is looked at
after the step. No fairness is assumed of renderings, crashes or failures; the property
holds however they interfere, up to the bound on changes, without which a reader who
changes the font forever would keep the document unsaved.

## 4 The proofs

Everything below holds for all values of the constants that satisfy the named assumptions
(`CacheFileAssumption`, `DataStorageAssumption`, `SaveChangesAssumption`,
`DocCacheAssumption`, `ReadCacheAssumption`, `CoverPagesAssumption`,
`BlobCacheAssumption`, `ServiceThreadAssumption`, `BackgroundThreadAssumption`,
`BlockWriteStreamAssumption`, `NodeTableAssumption`): any number of
keys, contents, sizes, sectors, chunks, changes of the document, failures, documents, nodes,
styles, fonts, blocks, blobs, covers, tasks, threads and restarts. TLC evaluates these assumptions in the runs.

`CacheFileProofs` (about 7150 obligations), all that the run `cachefile` checks:

* `TypeCorrect`, `AcceptedFileIsLive` (`RestartSeesLive`), `NoDataBeforeDirty`
  (`DirtyBeforeData`), `ImplementsStore` (`KeepsPromise`), `AllocationIsDisjoint`
  (`BlocksDisjoint`), `StoredIsReadable` (`StoredBlocksReadable`), `FlushedOpens`
  (`FlushedFileOpens`).
* None of the properties is inductive. `IInv` adds to the types: that the map, the free
  list and the records agree and each key has one record (`TableOK`); that an index saved
  in a header names each key once (`HeaderOK`); what the write in progress is, in
  particular that the contents of an index block are a snapshot of the table (`TodoOK`);
  what the dirty flag is in memory, in the stream and on the disk at each step (`FlagOK`);
  that the two views of the file differ in the flag at most while the file is clean, in
  memory or on the disk (`DiskOK`); and that the index in the stream's header says what the
  table says unless `indexChanged` is set. The disk is clean only between `ClearFlag` and
  the next `Marked`. The sync in `setDirtyFlag(false)` before the flag is cleared
  establishes `DiskOK`, the sync in `setDirtyFlag(true)` keeps it until the disk is dirty,
  and together with the last conjunct it gives `Image(disk) = Live`.
* The refinement uses the same invariant: every step changes at most one key, and only when
  the disk is not acceptable (`PlaceStores`, `PlaceFailsStores`), makes the disk acceptable
  with the current contents, or leaves both alone.
* The moved index block (see 5) does not disturb these: they hold also after `aliased`.
* `AllocationIsDisjoint` has `LayoutInv`: the records of the table, and those a restart
  would find (`HeaderApart`), name sectors apart. `allocBlock` and `freeBlock` leave each
  block where it is and at most append one behind all (`Grown`). What makes the end of the
  table the end of the file for the next session is `LengthOK`: without a failed write the
  stream ends where the table says, except between the allocation of an index block and its
  write (`IndexOwed`); a block written at the end is padded to its last sector
  (`WrittenAtEnd`). Looking for this proof is what found the shorter file of section 5.
* `StoredIsReadable` and `FlushedOpens` have `StoredInv` on top of that: the blocks of all
  keys but the one being written hold their hashes (`KeysStored`), and what the header in
  the stream leads to could be opened (`FileGood`). A write disturbs no block away from it
  (`StoredAway`), and the records are apart by `LayoutInv`.
  `NothingAssumption` says that the contents of an index are not the value for no content.

Its second part proves all that the run `blockwritestream` checks of the stream below:

* `StreamTypes` (`StreamTypeOK`) and `StreamIsByteStream` (`IsByteStream`: BlockWriteStream
  implements ByteStream, also when it is closed and opened again), for words of any bytes. The
  hypothesis `WordsAssumption` says that sectors have three bytes at least and fill the
  blocks. Both say nothing after a file was left too short (`short`), which the
  statement of the first and `ByteStream` itself name.
* `NeverShort`: with `PaddedWords` as hypothesis no file is ever left too short. It is a
  hypothesis about what is written, and CacheFile does not guarantee it (section 2).
* Both come from `StreamSound`. `StreamInv`: what a block does not have to write is in the file
  as it is in the block (`AsInFile`), no block has to write behind the stream's end, and the
  file ends no later (`Sound`); the last byte of the stream is in the file, or the last one
  that a block has to write, or a zero (lemma `EndKept`), which is why a closed file is too
  short only if the stream ends in a zero; the file's position is behind its end only where
  the stream's is, so that no read or write happens there and `GetSize`, which grows with
  it, stays below the stream's size.
* The bytes of the stream are `ByteAt`: those of the block, or of the file. Writing a block,
  dropping it, reading one and moving it to the front keep every one of them (`DroppedIs`,
  `FoundStays`, `FrontIs`); `Block::save` sets those it is given and its range covers all that
  changed (`SaveIs`). An operation is a fold over pieces that lie in one block each (`Cuts`),
  and the lemmas of `ListFacts` carry these facts through it (`WriteIs`, `ReadIs`, `FlushedIs`).
  With a sector of three bytes at least, the last one is never the first that is modified;
  this is why a single appended byte, which `Block::save` may miss, does no harm.

`DataStorageProofs` (about 3270 obligations), all that the runs `datastorage` and
`datastorage_raw` check:

* `TypeCorrect`, and `NodesKept` (`NodesReadable`), both for node storages and for raw ones,
  for which no run repeats it. `IInv` says of every chunk that its
  buffer, if it has one, and its copy in the file, if it is marked saved, hold the true
  cells, except for chunks that grew while marked saved; that a chunk is out of memory only
  if it is saved (`DataOK`); and that a clean file has, for the chunks of the saved index,
  the cells and lengths of the last save (`SavedOK`), which is what `Reload` needs. The
  lemmas about `Save`, `SwapOut`, `Compact` and `Touch` state what each keeps, whatever set
  of chunks `compact()` chooses, and the actions cite them.
* `RecentStays` (`RecentChunkStays`), an action property, from the same invariant: what each
  action does to the most recent chunk (`StaysStep`).
* `MemoryStaysBounded` (`MemoryBounded`) has `MemInv`, in three parts. The links of the list
  are those of a sequence without repetition in which every chunk in memory occurs
  (`Orders`, `Visits`): `ToFront` cuts a chunk out and puts it in front (`CutOut`,
  `PutInFront`), and following the links gives that sequence back (`OrderIs`). A buffer is
  as long as it says and no longer than the largest chunk, also after it was read back
  (`SizesFit`). And `compact()` adds up what it keeps, chunk by chunk along the list: that
  sum is at most the limit and the chunks it must keep (`KeptBounded`), and it is the sum over
  all chunks afterwards, in the order in which they were made (`KeptTotal`). The run checks the bound for
  raw chunks, the theorem also for nodes. Part of `DataStorageAssumption` is that one
  size of a node is the largest; the code keeps it in 16 bits.

`DocumentProofs` (about 8570 obligations) first proves of `SaveChanges`:

* `TypeCorrect`, with whatever timers; it is the invariant the others start from.
* `UnlimitedFileIsSnapshot` and `UnlimitedNotStaleIsSaved` assume `Unlimited`: every call
  has an infinite timer, as cr3gui's call does when a document was formatted. Without it
  TLC refutes both (see 5). `IInv` adds that the document in memory is one of those there
  were; then a save that ends has written every part from the first step on
  (`WrittenWhole`), a save that fails leaves a dirty file and a stale document
  (`SaveErrorOK`), and every change marks the document stale.
* `ResumedIsComplete` (`ResumedSaveIsComplete`) has no such hypothesis: limited and
  unlimited calls, timeouts and failures may follow each other in any order. The invariant
  `OneInv` says that while there is only one document, the parts of the steps before
  `_mapSavingStage` are in the file as they are in memory, and that the stage is past the
  first step only if a cache file exists and no node is mutable (`Good`, `OneOK`).
  `WrittenGood` carries this over any range of steps, and `PutGood` over a part that the
  timer or `compact()` leaves incomplete, which is never one of a step before the stage. A
  change makes a second document (`ChangeMakesTwo`), after which nothing is left to show;
  so it says nothing of a document that is rendered again.

Its second part proves what the run `document` checks of NodeTable, `NodesWellFormed` (`NodesTypeOK`),
`NodesKeepReferences` (`ReferencesHeld`), `NodesFontsFollow` (`FontsFollowStyles`),
`NodesHashCurrent` (`HashCurrent`) and `NodesLoadedAsSaved` (`LoadedAsSaved`), of documents
with any number of nodes, styles and fonts and parts of any size:

* While the boxes of a rendering are built there is no hash, so a changed parent (`MoveItem`,
  lemma `MovedElementIs`) leaves it right; `UpdateRenderContext` keeps every part (`ContextIs`).
* The hypothesis is `~ AtBoundary`, that no walk over all elements starts when the number of
  slots is a multiple of the part length. It is what the run has, and without it TLC refutes
  two of the properties (section 5). With parts of length 1 no walk starts at all; in the code
  they have 4096 slots (lvtinydom.h:412).
* No property is inductive by itself. What removes an element has to leave the references of
  others alone, so the entries must have as many references as elements name them, also
  elements that no property speaks of; what gives a style another index has to know that
  `_fontMap` at an index that is used again was written for the style before (the exception
  `outdated`). `NodesInv` says this (`DocOK`): types with the caches (`GoodCache`: what is
  free is a list that is linked through all gaps and does not come back, a value has one
  entry) and the tree (`Tree`); free slots have neither style nor font (`Bare`); a style is
  there for each element that names one (`StylesHeld`); the hash is right (`HashRight`); and
  while `_fontMap` is right, fonts have a reference for each element that has them
  (`FontsBacked`) and follow the styles (`Follows`). The references of styles are counted
  except after loading (`StylesBacked`), and each phase of the program says which elements
  have styles (`Phased`). The image is that of a document that was sound when it was saved
  (`Saved`, `FromSaved`).
* The cache operations are proved about once, on the record of `RefCache`: what `cache`,
  `addIndexRef`, `release`, `setIndex` and the replacing `cache` do to the entry they name and
  that they leave every other value at its index (`CacheIs`, `AddIndexRefIs`, `ReleaseIs`,
  `CacheForIs`, `SetIndexIs`). `Backed` counts the elements that name an index, and
  `BackedMoves` is what one element's change of index does to all counts: one reference more
  for the new, one less at most for the old.
* The operations on one element (`setNodeStyleIndex`, `initNodeFont`, `initNodeStyle`,
  `updateLoadedStyles` of one) are compositions of these, and dropStyles, calcStyleHash,
  initNodeStyleRecursive, destroy and updateLoadedStyles are folds of them over the elements,
  carried by `FoldKeeps`. `updateLoadedStyles` takes a table of counts that are all one to
  counts that cover every element (`LoadedTo`): after k elements those up to k are counted.
* `destroy` recycles what hangs below an element, the texts and then the elements; no node
  in use has a parent that is gone because the set it removes is closed downwards
  (`Closed`), and `Chain` of the free list leads through recycled slots only (`FreeListIs`).

`DocCacheProofs` (about 1525 obligations), all that the run `doccache` checks:

* `TypeCorrect`; `IndexLength` (`IndexIsAsLong`); `NothingUnlisted` (`NoOrphans`);
  `RoomMade` (`RoomIsMade`) and `StartKeeps` (`StartKeepsFiles`), which are action properties.
* The invariant `Remembered` adds what `writeIndex` relies on when it writes nothing: that
  the length it remembers is that of the index on disk, which can be read, as long as
  nothing failed.
* `reserve()` is a fold over the list. What its rounds leave is shown round by
  round (`FoldKeeps` in `ListFacts`): which files are still listed and where, that a file which left the
  list is out of the directory or could not be deleted, and that what a round keeps
  fits with what was kept before it. The sum of the sizes is compared between the list and what
  the rounds counted, which gives `RoomIsMade`.

`ReadingProofs` (about 2470 obligations), all invariants of the run `reading`:

* `TypeCorrect`; `CopiedIsThere` (`NeverMissing`); `ReturnsFile` (`ReadsFile`);
  `LoadsWhatIsMissing` (`LoadsOnlyMissing`), for every size of stream, blocks and cache.
* A fragment has at most as many blocks as the cache. Both loops of `fillFragment` put its
  blocks in front one after the other, so at block j those before it that the loop has
  seen are in front of the list; by counting, the tail that is evicted for j is not one of
  them. That gives `NeverMissing`. For `LoadsOnlyMissing` one fragment covers all
  that a read needs which fits into the cache (`OneFragment`), so the blocks that were there
  are in front before the first eviction. `ReadsFile` rests on what has been copied
  at each point of the second loop (`GotOK`).
* `GetBlobReadsBook` (`BlobsReadable`) and `CleanFileHasBook` (`CleanHasBlobs`), for every
  book, range of indexes, and order of sessions, failed openings, interrupted saves and
  failing writes. `BlobIInv` says where a blob is: in memory, or in the block of its place
  (`Held`), and which part of the book the list has before, while and after it is parsed to
  a list that was loaded (`Phases`). A name is looked up by its first place in the list,
  which is its first place in the book, also when the book is in the list twice; that needs
  the smallest element of a set of numbers (`SmallestIn` in `ListFacts`).

`CoverPagesProofs` (about 2580 obligations):

* `TypeCorrect`; `FontIsFresh` (`NoStaleFont`); `CoversArrive` (`EveryCoverArrives`).
* `EveryCoverArrives` speaks of states in which nothing is left to do. Its invariant says
  of every view that shows a title, or an old font, where its request is (`Pending`): in a
  queue whose task is posted, with the database, in a download, in a task, in the entry that
  waits to be drawn or is drawn, in the ready queue while a notification is posted, or lost.
  Each action moves a request from one of these places to the next. `EntryOK`, that an entry
  which is scheduled has its task and a held one is being drawn, is what an eviction and a
  font change disturb; a held one whose bitmap was set has a bitmap. `NoStaleFont` needs that what is being drawn with an old font is held
  by no entry.

`TaskThreadsProofs` (about 3650 obligations):

* `RunsInOrder` (`ServiceInOrder`), `NotifiedStopIsComplete` (`StopLosesNothing`).
* The invariant says where a task is. Before the looper runs all tasks are in `mQueue`, in
  their order (`Stages`); afterwards each is in one of three places, it ran, is queued or
  delayed (`Sound`), and none is missing unless `stop` quit the looper (`NoneLost`). Of two
  tasks of `post` the first has run or stands before the second. As long as `stop` waits,
  all that was posted without a delay has run or stands before its own task (`Awaited`).
  What a post, a step of the loop and the handing over of `mQueue` do to the lists are
  lemmas about lists, without the program's state.
* `RestartKeepsEngine` (`CleanStart`). The invariant `Clean`: `instance` is the newest thread
  or none, and all others have ended (`OneThread`); a thread to which the task of
  `stopServices` was never posted has no such task in its list, its queue or in a call that
  is under way, and so does not quit (`AllGood`, `Calling`); services that had a clean start
  have such a thread (`Started`). Without the exception TLC refutes the property (section 5).
* `TasksRunInOrder` (`InOrder`). Two tasks of one thread for one `BackgroundThread` may be on
  their way through its list, the copy of the list in the looper's queue, the queue itself
  and the call of the second. `Posting` says for every thread that what is in its lists was
  posted to it (`HomeLists`), that nothing runs before the list is copied (`NotYet`), that a
  task that is out of its call is in the list, in the queue or has run (`Placed`), and that in
  each of these the first of two tasks is in front of the second or has left it already
  (`Orders`), also when the second is in a call that saw no handler yet. The exceptions are
  used in exactly the steps they name: `late` when a list is appended to that was copied,
  `early` when the looper gets a task between `Prepare` and `Copy`.

`ListFacts` has what several of these share: what is in a list and where, after one element
is appended, taken off or removed; the smallest element of a set of numbers; induction over
0 .. n for a set instead of an operator (`SetInduction`), and what follows from it, that
a fold over 1 .. n has a value for every part of it and that what every step keeps holds at the end
(`FoldExists`, `FoldKeeps`), and sums. With these a fold is proved about as a loop is.

Only model-checked: liveness (`SavingEnds`), which needs ENABLED, and so does
`EveryTaskRuns`, whose `Busy` is the enabledness of steps.

## 5 What the models found

Two statements are refuted by runs of their own; the findings in `PROJECT.json` quote what the
repository says.

* `savechanges_stale`: `NotStaleIsSaved` with limited timers. A limited save that reaches the
  end leaves its stage there, and the save of the next rendering does nothing and reports
  success.
* `doccache_index`: `IndexIsList`, that `writeIndex` skips only what is in the file already, as
  its comment at lvtinydom.cpp:16480 has it. It compares lengths (section 2). Two files are
  listed; a third one, whose name is as long as that of the file it displaces, is created, and
  the index is not written. At the next start `removeExtraFiles` deletes the cache file of the
  new book, which the index does not list. Nor does an opened file move to the top of the index.

The next five are definitions in the modules that TLC refutes when they are checked instead
of a run's properties, in the instances named:

1. `HeaderDuplicatesIndexRecord` (CacheFile; unpacked blocks, 7 sectors, no failing write):
   `writeIndex` copies the records before `write()` moves the index block. The saved index
   calls its own new place free, and the next session may put data there. The file cannot be
   mistaken for a good one (`AcceptedFileIsLive`), but it may not open after a later,
   completed flush. This is one of the two cases of `aliased`.
2. `SavedFileComplete` (DataStorage; as `datastorage`): a node appended to a chunk that was
   saved before does not make it unsaved; the next complete save leaves it out.
3. `FileIsSnapshot` with limited timers (SaveChanges; versions up to 3): a save that resumes
   after a new rendering leaves a clean file with parts of two renderings.
4. `ReadsInFull` (BlockWriteStream; as `blockwritestream`): a zero at the end of a block is
   not written, so the file may be shorter than the stream says; a `SetPos` behind its end
   makes the file's size look sufficient, and a read across the zero ends in front of it.
5. `IsByteStream` without what `ByteStream` allows a closed stream that ends in a zero
   (BlockWriteStream; as `blockwritestream`, also with 9 bytes, `Words` all sectors of zeros and
   ones, `Positions` 0, 3 and 6), as `LVCompareTestStream` (crtest.cpp) writes and reads any. A zero
   at the end is not written, and the file is one byte shorter. After reopening, a sector is
   written there of which only the last byte is new: it is the first that `Block::save` finds
   modified, so `block_end` stays in front of it, and `writeToCache`, which writes a block that
   makes the file longer up to `block_end`, does not write it. A read then ends in front of a
   byte that is no zero. It was met when the invariant of section 4 turned out not to be
   inductive; padding avoids it where CacheFile pads.

`savechanges_stale` and 3 concern the front ends that use limited timers (Android); with
unlimited ones both properties hold (run `document`, and proved).

What the exceptions of the other properties stand for; each is a thing the code does, and
the property without its exception is refuted. So these are hazards of the list in `PROJECT.json`
that no property of a run catches, each property being about what else could go wrong there:
the index that lists its own block as free (lvtinydom.cpp:931), nodes appended to a saved chunk
(3725), a stream that ends in a zero (lvblockwritestream.cpp:65), walks that start at the
boundary of a part (16162), the font of a stale `_fontMap` (18567), a failed `addBlob` (1942), a
task behind the copied list or in front of it (BackgroundThread.java:166, :108), a restart before the
old thread has quit (Services.java:92) and a stop that was not notified (ServiceThread.java:87).

* Blocks, the other case of `aliased`: a write fails because the disk is full and leaves the
  file shorter than its last block; the block's key then moves into a free block, so that
  the short block becomes free and is never written. The flush succeeds, the header's
  size is accepted (`readIndex` tolerates 4095 bytes, lvtinydom.cpp:842, and `validate`
  looks at the data of a block, of which a free one has none, 474), and `open()` takes the length of the
  stream for `_size` (1305): the next block appended overlaps the free one, which may be
  given out later. It takes three keys and twenty sectors, more than `cachefile` has; there
  `BlocksDisjoint` holds without this exception.
* Nodes: with `AtBoundary = TRUE`, `LoadedAsSaved` and `ReferencesHeld` are refuted: the
  last element is left out of the style hash, of dropStyles and of updateLoadedStyles when
  the number of elements is a multiple of the part size. After
  an importer dropped all styles because of embedded fonts, `_fontMap` keeps their fonts
  (epubfmt.cpp:1574, then lvtinydom.cpp:8304): `initNodeFont` does not look at the result of
  `addIndexRef`, and an element gets a font index that the cache does not have, or that of
  another font (`outdated`). `getNodeStyle` adds a reference per call that nobody releases.
  The heads of the free lists are not saved, so a session that loads a document does not
  use the free slots again. A document without texts is saved but cannot be loaded.
* Blobs: `addBlob` ignores a failed write and drops the data (lvtinydom.cpp:1942); the book
  is saved all the same, and every session reads what is in the block. With more blobs than
  indexes, two share a block. `BlobsReadable` and `CleanHasBlobs` except both.
* Background tasks: `postBackground` tests the handler outside the lock
  (BackgroundThread.java:166), so a task may be added to a list that was copied already
  (`late`), or be taken by a looper before the list is (`early`); a restart of the services before the old
  thread has quit loses the engine or the handler (Services.java:92-102,
  BackgroundThread.java:123-124; `clean`, `dropped`); `setGUIHandler` does not empty the list it posts
  (:87-90), so a second one runs its tasks again (`GUITwice`). `instance()` (:24-35) may return
  null while a thread ends.
* Services: `waitForCompletion` returns true after a timeout or a spurious wakeup, and
  `stop()` then quits with tasks queued (ServiceThread.java:87-99); a stop before the looper
  is there ends in a NullPointerException. Tasks posted with a delay before the looper
  exists run without one.
* Cover pages: a request is lost when its entry is evicted before it is drawn, when the
  bitmap is recycled while the view is painted (the view stays blank), when the font is set
  to the same value, when the file has no format, and when drawing fails: the entry then stays in the state "drawing" for
  ever. `canUnqueue` is never true, as only one of the states it tests is ever set.

A block of the write cache that cannot be written when it is evicted and is dropped is
outside of what `BlockWriteStream` models (section 2).

## 6 What is not covered

* Layout, formatting, style sheets, parsers and importers: sequential code whose
  correctness is in its data; documents test it better than small instances do.
* Drivers of the outside (files, archives, fonts, images, JNI) except for what the modelled
  parts rely on, and user interfaces.
* `CacheFile::validateContents` reads every block; the model evaluates its outcome.
  `invalidateCacheFile` has no caller.
* `LVRefCache`, which keeps reference-counted values without an index; node contents and
  the switch of nodes between mutable and packed, except for what SaveChanges needs.
* Concurrency inside the engine: its callers hold one lock or use one thread, and the
  models' actions are whole calls for that reason.
* Of the Android threads: that `mHandler` is reset without a lock when `run` of a service
  ends; a task of `callGUI` that throws and so never completes its `Sync`; the branch of `quit`
  with `Looper.quit` (BackgroundThread.java:377), for Android below 18, while the app is built
  for 19 and later (android/app/build.gradle:41-77).
* Vendored and generated code, tools. They are most of the repository's lines.

## 7 Plan

Done: `CacheFile`, `DataStorage`, `SaveChanges` composing their promises, `BlockWriteStream`
implementing `ByteStream`, `DocCache`, `NodeTable` with `RefCache`, `ReadCache`, `BlobCache`,
the task threads, `CoverPages`, and the proofs of section 4. Left, most important first:

1. The storages that `openFromCache` (15604) leaves loaded when it fails; BlobCache has the
   list of blobs of such a session, the other four are to follow.
2. `NavigationHistory` (lvtinydom.h 2308-2361) under goBack, goForward and goLink:
   `forward()` gives nothing at the last entry while `forwardCount()` counts the current one.
3. The glyph caches' LRU lists; the window stack and event queue of `crgui`.
4. The page splitter against a reference definition.

Proofs: every invariant that a run checks is proved except `EveryTaskRuns`; next would be the
invariants of the modules above.

The number of runs is kept at about a dozen, so that all of them can be repeated in half an hour.

## 8 How to run

    tlc -workers 2 -config MCCacheFile.cfg MCCacheFile      # and so on, see the table
    tlapm CacheFileProofs.tla
    tlapm DataStorageProofs.tla
    tlapm DocumentProofs.tla
    tlapm DocCacheProofs.tla
    tlapm ReadingProofs.tla
    tlapm CoverPagesProofs.tla
    tlapm TaskThreadsProofs.tla
    tlapm ListFacts.tla

Each run takes less than five minutes with two workers, each proof a few minutes,
`CacheFileProofs` and `DocumentProofs` about ten.
