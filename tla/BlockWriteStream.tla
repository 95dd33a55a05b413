-------------------------- MODULE BlockWriteStream --------------------------
(***************************************************************************)
(* LVBlockWriteStream, the write-back cache between a CacheFile and its    *)
(* file (crengine's lvstream/lvblockwritestream.cpp): a few blocks of the  *)
(* file, most recently written first, each with the range that is to be    *)
(* written.  Under it is an LVFileStream, whose idea of the file's size    *)
(* grows when it is asked for the size at a position behind the end.       *)
(***************************************************************************)
EXTENDS ByteArrays, Sequences, SequencesExt

CONSTANTS Bytes,        \* the values of a byte
          Words, Positions, Counts,     \* see ByteStream
          BlockSize,    \* _blockSize
          BlockCount,   \* _blockCount
          SectorSize,   \* CacheFile writes at multiples of this, at the end of the file whole ones
          MaxSize       \* bound on the size of the file

ASSUME BlockWriteStreamAssumption ==
    /\ 0 \in Bytes /\ Bytes \subseteq Nat
    /\ BlockSize \in Nat \ {0} /\ BlockCount \in Nat \ {0, 1}
    /\ SectorSize \in Nat \ {0} /\ MaxSize \in Nat
    /\ Positions \subseteq Nat /\ Counts \subseteq Nat

VARIABLES
    cache,      \* the stream and the file under it (see NewStream)
    pos,        \* _pos
    got,        \* the bytes of the last Read
    short       \* history: a stream was closed and its file was shorter than the stream

streamVars == <<cache, pos, got, short>>

Unmodified == -1        \* (lvpos_t)-1

\* A stream that is opened on a file with these bytes.
NewStream(bytes) ==
    [data  |-> bytes,           \* the bytes of the file
     fsize |-> Length(bytes),   \* m_size of the LVFileStream
     fpos  |-> 0,               \* m_pos of the LVFileStream
     size  |-> Length(bytes),   \* _size
     blocks |-> <<>>,           \* from _firstBlock on
     count |-> 0]               \* _count

-----------------------------------------------------------------------------
(* The file. *)

\* LVFileStream::GetSize
Sized(c) == [c EXCEPT !.fsize = Max({@, c.fpos})]

\* LVFileStream::Read of what there is from p on, n bytes at the most.
FileRead(c, p, n) == [c EXCEPT !.fpos = p + Length(Slice(c.data, p, n))]

\* LVFileStream::Write
FileWrite(c, p, s) ==
    [c EXCEPT !.data = Put(@, p, s), !.fpos = p + Length(s),
              !.fsize = Max({@, p + Length(s)})]

-----------------------------------------------------------------------------
(* The blocks. *)

Covers(b, p) == p >= b.start /\ p < b.start + BlockSize

\* Mutant of SaveByte: the first modification is not told from the others.
SaveByteLater(b, p, v) ==
    LET o == p - b.start IN
    IF p <= b.end /\ b.buf[o] = v THEN b
    ELSE [b EXCEPT !.buf[o] = v, !.mstart = Min({@, p}), !.mend = Max({@, p + 1}),
                   !.end = Max({@, p + 1})]

\* Block::save of one byte.
SaveByte(b, p, v) ==
    LET o == p - b.start IN
    IF p <= b.end /\ b.buf[o] = v THEN b
    ELSE IF b.mstart = Unmodified
         THEN [b EXCEPT !.buf[o] = v, !.mstart = p, !.mend = p + 1]
         ELSE [b EXCEPT !.buf[o] = v, !.mstart = Min({@, p}), !.mend = Max({@, p + 1}),
                        !.end = Max({@, p + 1})]

\* Block::save
Save(b, p, s) ==
    FoldLeft(LAMBDA d, i : SaveByte(d, p + i - 1, s[i - 1]), b, [i \in 1 .. Length(s) |-> i])

\* writeBlock
WriteBlock(c, b) ==
    LET end == IF b.mend > c.size THEN b.end ELSE b.mend
        f == FileWrite(c, b.mstart, Slice(b.buf, b.mstart - b.start, end - b.mstart))
    IN IF b.mstart >= b.mend THEN c
       ELSE [f EXCEPT !.size = Max({@, end})]

\* newBlock and readBlock, at p for n bytes.
NewBlock(c, p, n) ==
    LET start == (p \div BlockSize) * BlockSize
        end == Min({start + BlockSize, c.fsize})
    IN [start |-> start, end |-> IF end > start THEN end ELSE p + n,
        mstart |-> Unmodified, mend |-> Unmodified,
        buf |-> [i \in 0 .. BlockSize - 1 |->
                    IF start + i \in DOMAIN c.data /\ start + i < end
                    THEN c.data[start + i] ELSE 0]]

\* The file after readBlock: it was read up to the end of the block.
BlockRead(c, p) ==
    LET start == (p \div BlockSize) * BlockSize
        end == Min({start + BlockSize, c.fsize})
    IN IF end > start THEN FileRead(c, start, end - start) ELSE c

\* Block k is written, if it has to be, and gone.
Dropped(c, k) ==
    [WriteBlock(c, c.blocks[k]) EXCEPT !.blocks = RemoveAt(c.blocks, k)]

\* Mutant of MakeRoom: the last block is dropped without being written.
MakeRoomUnwritten(c) ==
    IF c.count >= BlockCount - 1 /\ Len(c.blocks) >= 2
    THEN [c EXCEPT !.blocks = RemoveAt(@, Len(@)), !.count = @ - 1]
    ELSE c

\* The last block goes when there are too many, but never the only one.
MakeRoom(c) ==
    IF c.count >= BlockCount - 1 /\ Len(c.blocks) >= 2
    THEN [Dropped(c, Len(c.blocks)) EXCEPT !.count = @ - 1]
    ELSE c

Hits(c, p) == {k \in DOMAIN c.blocks : Covers(c.blocks[k], p)}

\* findBlock: the blocks of c, the one with p first.
Found(c, p) ==
    LET k == Min(Hits(c, p)) IN <<c.blocks[k]>> \o RemoveAt(c.blocks, k)

\* writeToCache of the bytes s, within a block, that the cache has.
WriteToFound(c, p, s) ==
    LET blocks == Found(c, p) IN
    [c EXCEPT !.blocks = [blocks EXCEPT ![1] = Save(blocks[1], p, s)],
              !.size = Max({@, p + Length(s)})]

\* writeToCache otherwise; a block that makes the file longer is written whole.
\* From _blockCount - 1 on _count never falls below that again: it is cut there.
WriteToNew(c, p, s) ==
    LET d == Sized(MakeRoom(c))
        b == Save(NewBlock(d, p, Length(s)), p, s)
        longer == p + Length(s) > d.size
    IN [BlockRead(d, p) EXCEPT
            !.blocks = <<IF longer THEN [b EXCEPT !.mstart = b.start, !.mend = b.end]
                         ELSE b>> \o d.blocks,
            !.count = Min({@ + 1, BlockCount}),
            !.size = Max({@, p + Length(s)})]

WriteToCache(c, p, s) == IF Hits(c, p) = {} THEN WriteToNew(c, p, s) ELSE WriteToFound(c, p, s)

-----------------------------------------------------------------------------
(* The operations. *)

\* n bytes at p, cut at the bounds of blocks: the places and lengths.
Pieces(p, n) ==
    LET first == p \div BlockSize
        last == (p + n - 1) \div BlockSize
        from(k) == Max({p, k * BlockSize})
        to(k) == Min({p + n, (k + 1) * BlockSize})
    IN [i \in 1 .. IF n = 0 THEN 0 ELSE last - first + 1 |->
            [at |-> from(first + i - 1), len |-> to(first + i - 1) - from(first + i - 1)]]

\* Write
Write(s) ==
    /\ pos % SectorSize = 0 /\ pos < cache.size + SectorSize /\ pos + Length(s) <= MaxSize
    /\ Length(s) % SectorSize = 0 \/ pos + Length(s) <= cache.size
    /\ cache' = FoldLeft(LAMBDA c, w : WriteToCache(c, w.at, Slice(s, w.at - pos, w.len)),
                         cache, Pieces(pos, Length(s)))
    /\ pos' = pos + Length(s)
    /\ got' = Zeros(0)
    /\ UNCHANGED short

\* Flush of the first n blocks, _count stays.
Flushed(c, n) ==
    FoldLeft(LAMBDA d, i : IF d.blocks = <<>> THEN d ELSE Dropped(d, 1), c, [i \in 1 .. n |-> i])

\* Flush(sync), or Flush(false) until its timer expires after some blocks.
Flush(n) ==
    /\ n \in Min({1, Len(cache.blocks)}) .. Len(cache.blocks)
    /\ cache' = Flushed(cache, n)
    /\ UNCHANGED <<pos, got, short>>

\* The file is too short for a read of n bytes, but the stream is longer.
Inconsistent(c, p, n) == p + n > c.fsize /\ c.fsize < c.size

\* One piece of a Read, as long as the pieces before it were read in full.
ReadPiece(r, w) ==
    IF ~ r.ok THEN r
    ELSE IF Hits(r.cache, w.at) # {}
         THEN LET blocks == Found(r.cache, w.at) IN
              [r EXCEPT !.cache.blocks = blocks,
                        !.bytes = Put(@, Length(@), Slice(blocks[1].buf, w.at - blocks[1].start, w.len))]
         ELSE LET c == Sized(r.cache)
                  d == IF Inconsistent(c, w.at, w.len) THEN Flushed(c, Len(c.blocks)) ELSE c
                  s == Slice(d.data, w.at, w.len)
              IN [cache |-> FileRead(d, w.at, w.len), bytes |-> Put(r.bytes, Length(r.bytes), s),
                  ok |-> Length(s) = w.len]

\* Read
Read(n) ==
    LET count == Max({0, Min({n, cache.size - pos})})
        r == FoldLeft(ReadPiece, [cache |-> cache, bytes |-> Zeros(0), ok |-> TRUE],
                      Pieces(pos, count))
    IN /\ cache' = r.cache
       /\ got' = r.bytes
       /\ pos' = pos + Length(r.bytes)
       /\ UNCHANGED short

\* SetPos
Seek(p) ==
    /\ cache' = [cache EXCEPT !.fpos = p]
    /\ pos' = p
    /\ got' = Zeros(0)
    /\ UNCHANGED short

\* ~LVBlockWriteStream, and another stream on the same file.
Reopen ==
    LET file == Flushed(cache, Len(cache.blocks)).data IN
    /\ cache' = NewStream(file)
    /\ short' = (short \/ Length(file) # cache.size)
    /\ pos' = 0
    /\ got' = Zeros(0)

StreamInit ==
    /\ cache = NewStream(Zeros(0))
    /\ pos = 0
    /\ got = Zeros(0)
    /\ short = FALSE

StreamNext ==
    \/ \E p \in Positions : Seek(p)
    \/ \E s \in Words : Write(s)
    \/ \E n \in Counts : Read(n)
    \/ \E n \in 0 .. BlockCount : Flush(n)
    \/ Reopen

StreamSpec == StreamInit /\ [][StreamNext]_streamVars

-----------------------------------------------------------------------------
(* Properties. *)

\* What CacheFile writes: sectors of some size, blocks of whole sectors, and any bytes.
WordsAssumption ==
    /\ SectorSize >= 3 /\ BlockSize % SectorSize = 0
    /\ \A s \in Words : Length(s) \in Nat \ {0} /\ s \in [0 .. Length(s) - 1 -> Bytes]

\* What it writes of data that end within a sector, filled up with 0xFF
\* (CACHE_FILE_WRITE_BLOCK_PADDING).  The blank header of create() is not like this,
\* nor are data that fill their sectors and end in a zero.
PaddedWords ==
    /\ WordsAssumption
    /\ \A s \in Words : Length(s) % SectorSize = 0 => s[Length(s) - 1] # 0

\* What the file would be if everything were written.
Content ==
    [i \in 0 .. cache.size - 1 |->
        IF Hits(cache, i) # {} THEN LET b == cache.blocks[Min(Hits(cache, i))] IN b.buf[i - b.start]
        ELSE IF i \in DOMAIN cache.data THEN cache.data[i] ELSE 0]

Abstract == INSTANCE ByteStream WITH content <- Content

\* Whatever is written, evicted, flushed and read in which order, what is read is what
\* was written last, and a stream on the same file goes on with it: the blocks
\* and the file make a ByteStream.  What a closed stream leaves in its file is
\* whole, the size included, unless it ends in a zero (Block::save).
IsByteStream == Abstract!Spec

\* No two blocks have the same bytes, and there are no more of them than asked for.
BlocksApart ==
    /\ \A j, k \in DOMAIN cache.blocks : j # k => cache.blocks[j].start # cache.blocks[k].start
    /\ Len(cache.blocks) <= Max({2, BlockCount - 1})
    /\ cache.count >= Len(cache.blocks)

\* The variables have their types, the blocks are apart, and what a block has to write is in it.
StreamTypeOK ==
    /\ cache.data \in [0 .. Length(cache.data) - 1 -> Bytes]
    /\ cache.fsize \in 0 .. MaxSize /\ cache.size \in 0 .. MaxSize
    /\ BlocksApart
    /\ \A k \in DOMAIN cache.blocks :
          LET b == cache.blocks[k] IN
             /\ b.start % BlockSize = 0 /\ b.buf \in [0 .. BlockSize - 1 -> Bytes]
             /\ b.end \in b.start .. b.start + BlockSize
             /\ \/ b.mstart = Unmodified /\ b.mend = Unmodified
                \/ b.start <= b.mstart /\ b.mstart < b.mend /\ b.mend <= b.start + BlockSize

\* What the stream has can be read: a read is never short before its end.
ReadsInFull ==
    [][\A n \in Counts : Read(n) => Length(got') = Max({0, Min({n, cache.size - pos})})]_streamVars
=============================================================================
