------------------------------ MODULE ReadCache ------------------------------
(***************************************************************************)
(* LVCachedStream, the read cache in front of a slow stream (crengine's    *)
(* lvstream/lvcachedstream.cpp): the blocks of the stream that were read   *)
(* last, in the order of their use.  Read first copies the blocks that are *)
(* there, then goes through the others and loads them by fragments, which  *)
(* evicts blocks; the first fragment begins in front of the missing block. *)
(*                                                                         *)
(* A byte of the stream is named by its position.  One step is one         *)
(* iteration of a loop of Read or fillFragment.                            *)
(***************************************************************************)
EXTENDS Integers, Sequences

CONSTANTS Size,         \* m_size
          BlockSize,    \* CACHE_BUF_BLOCK_SIZE
          BufSize,      \* m_bufSize
          Positions,    \* where the stream is positioned
          Counts        \* and how many bytes are read

ASSUME ReadCacheAssumption ==
    /\ Size \in Nat /\ BlockSize \in Nat \ {0}
    /\ BufSize \in Nat /\ BufSize >= 3
    /\ Positions \subseteq Nat /\ Counts \subseteq Nat

VARIABLES
    recent,     \* the blocks from m_head to m_tail; their indexes are those of m_buf
    pos,        \* m_pos
    rd,         \* the Read under way, or the last one
    got,        \* the bytes that it copied, by their place in the buffer
    loads       \* history: the blocks that it loaded

vars == <<recent, pos, rd, got, loads>>

\* The local variables of Read: op is where it is, from and size what it reads, i the
\* block it is at, and flags the blocks that it copied at first; of fillFragment: the
\* fragment lo .. hi, the block j it is at, and firstne, lastne. had is history: the
\* blocks that were there when Read began.
NoRead == [op |-> "idle", from |-> 0, size |-> 0, i |-> 0, firstNE |-> TRUE, flags |-> {},
           lo |-> 0, hi |-> 0, j |-> 0, firstne |-> -1, lastne |-> -1, had |-> {}]

-----------------------------------------------------------------------------
(* The blocks. *)

Smaller(a, b) == IF a < b THEN a ELSE b
Larger(a, b) == IF a > b THEN a ELSE b

\* m_bufItems
BufItems == Larger(1, (Size + BlockSize - 1) \div BlockSize)

\* The blocks that m_buf has.
Cached == {recent[k] : k \in 1 .. Len(recent)}

\* addNewItem
AddNewItem(s, b) == [k \in 1 .. Len(s) + 1 |-> IF k = 1 THEN b ELSE s[k - 1]]

\* reuseItem: the block at m_tail goes.
ReuseItem(s, b) == [k \in 1 .. Len(s) |-> IF k = 1 THEN b ELSE s[k - 1]]

\* addOrReuseItem
AddOrReuseItem(s, b) == IF Len(s) < BufSize THEN AddNewItem(s, b) ELSE ReuseItem(s, b)

\* Mutant of MoveToTop: blocks stay in the order in which they were loaded.
MoveToTopNot(s, b) == s

\* moveToTop of a block that is there
MoveToTop(s, b) ==
    LET at == CHOOSE k \in 1 .. Len(s) : s[k] = b
    IN [k \in 1 .. Len(s) |-> IF k = 1 THEN b ELSE IF k <= at THEN s[k - 1] ELSE s[k]]

-----------------------------------------------------------------------------
(* What is copied. *)

First(r) == r.from \div BlockSize
Last(r) == (r.from + r.size - 1) \div BlockSize
Needed(r) == First(r) .. Last(r)

\* The bytes that a block has.
ItemSize(b) == Smaller(BlockSize, Size - b * BlockSize)

\* istart and dst - buf when Read is at block b.
InBlock(r, b) == IF b = First(r) THEN r.from % BlockSize ELSE 0
InBuffer(r, b) == IF b = First(r) THEN 0 ELSE (b - First(r)) * BlockSize - (r.from % BlockSize)

\* Mutant of Taken: the whole block is taken.
TakenAll(r, b) == ItemSize(b) - InBlock(r, b)

\* isz, how many bytes of block b are copied.
Taken(r, b) == Smaller(ItemSize(b) - InBlock(r, b), r.size - InBuffer(r, b))

\* The buffer g with what block b has for it.
Copied(r, g, b) ==
    LET from == InBuffer(r, b)
        to == from + Taken(r, b) - 1
    IN [k \in DOMAIN g \cup (from .. to) |->
            IF k \in from .. to THEN b * BlockSize + InBlock(r, b) + k - from ELSE g[k]]

\* What the first loop copies.
CopiedCached(r, blocks) ==
    LET here(b) == InBuffer(r, b) .. InBuffer(r, b) + Taken(r, b) - 1
    IN [k \in UNION {here(b) : b \in blocks} |->
            LET b == CHOOSE x \in blocks : k \in here(x)
            IN b * BlockSize + InBlock(r, b) + k - InBuffer(r, b)]

-----------------------------------------------------------------------------
Init ==
    /\ recent = <<>> /\ pos = 0
    /\ rd = NoRead /\ got = <<>> /\ loads = {}

\* Seek, which fails behind the end.
Seek(p) ==
    /\ rd.op = "idle"
    /\ pos' = IF p <= Size THEN p ELSE pos
    /\ rd' = NoRead /\ got' = <<>> /\ loads' = {}
    /\ UNCHANGED recent

\* Read at the end of the stream fails. Otherwise it copies the blocks that are there.
Read(n) ==
    /\ rd.op = "idle"
    /\ LET size == Smaller(n, Size - pos)
           r == [NoRead EXCEPT !.op = "scan", !.from = pos, !.size = size,
                               !.i = pos \div BlockSize, !.had = Cached]
           flags == Needed(r) \cap Cached
       IN IF size <= 0
          THEN rd' = NoRead /\ got' = <<>>
          ELSE rd' = [r EXCEPT !.flags = flags] /\ got' = CopiedCached(r, flags)
    /\ loads' = {}
    /\ UNCHANGED <<recent, pos>>

\* Mutant of ExtraItems: it may be negative.
ExtraItemsAny(r) == BufSize - (Last(r) - First(r) + 1)

\* extraItems
ExtraItems(r) == Larger(0, BufSize - (Last(r) - First(r) + 1))

\* fillStart and fillEnd
FillStart(r) == Larger(0, IF r.firstNE THEN r.i - ExtraItems(r) ELSE r.i)
FillEnd(r) == Smaller(FillStart(r) + BufSize - 1, Last(r))

\* The second loop is at a block that was copied.
Skip ==
    /\ rd.op = "scan" /\ rd.i <= Last(rd)
    /\ rd.i \in rd.flags
    /\ rd' = [rd EXCEPT !.i = @ + 1]
    /\ UNCHANGED <<recent, pos, got, loads>>

\* At one that is there now.
Present ==
    /\ rd.op = "scan" /\ rd.i <= Last(rd)
    /\ rd.i \notin rd.flags /\ rd.i \in Cached
    /\ rd' = [rd EXCEPT !.op = "copy"]
    /\ UNCHANGED <<recent, pos, got, loads>>

\* At one that is not: fillFragment, which returns false when it is called for blocks
\* that the stream does not have; the program exits then.
Missing ==
    /\ rd.op = "scan" /\ rd.i <= Last(rd)
    /\ rd.i \notin rd.flags /\ rd.i \notin Cached
    /\ LET lo == FillStart(rd)
           hi == FillEnd(rd)
       IN rd' = [rd EXCEPT !.op = IF lo <= hi /\ hi < BufItems THEN "touch" ELSE "refused",
                           !.lo = lo, !.hi = hi, !.j = lo, !.firstne = -1, !.lastne = -1]
    /\ UNCHANGED <<recent, pos, got, loads>>

\* The first loop of fillFragment.
Touch ==
    /\ rd.op = "touch" /\ rd.j <= rd.hi
    /\ IF rd.j \in Cached
       THEN /\ recent' = MoveToTop(recent, rd.j)
            /\ rd' = [rd EXCEPT !.j = @ + 1]
       ELSE /\ rd' = [rd EXCEPT !.j = @ + 1, !.lastne = rd.j,
                                !.firstne = IF @ = -1 THEN rd.j ELSE @]
            /\ UNCHANGED recent
    /\ UNCHANGED <<pos, got, loads>>

\* Its end: there may be nothing to load.
Touched ==
    /\ rd.op = "touch" /\ rd.j > rd.hi
    /\ rd' = IF rd.firstne < 0 THEN [rd EXCEPT !.op = "copy", !.firstNE = FALSE]
             ELSE [rd EXCEPT !.op = "fill", !.j = rd.firstne]
    /\ UNCHANGED <<recent, pos, got, loads>>

\* The second loop: a block is loaded, or put first once more.
Fill ==
    /\ rd.op = "fill" /\ rd.j <= rd.lastne
    /\ IF rd.j \in Cached
       THEN recent' = MoveToTop(recent, rd.j) /\ UNCHANGED loads
       ELSE recent' = AddOrReuseItem(recent, rd.j) /\ loads' = loads \cup {rd.j}
    /\ rd' = [rd EXCEPT !.j = @ + 1]
    /\ UNCHANGED <<pos, got>>

\* fillItem fails: the stream cannot be read any more, and the program exits.
FillFails ==
    /\ rd.op = "fill" /\ rd.j <= rd.lastne
    /\ rd.j \notin Cached
    /\ rd' = [rd EXCEPT !.op = "exited"]
    /\ UNCHANGED <<recent, pos, got, loads>>

Filled ==
    /\ rd.op = "fill" /\ rd.j > rd.lastne
    /\ rd' = [rd EXCEPT !.op = "copy", !.firstNE = FALSE]
    /\ UNCHANGED <<recent, pos, got, loads>>

\* The block is copied, without a look whether it is there.
Copy ==
    /\ rd.op = "copy"
    /\ got' = Copied(rd, got, rd.i)
    /\ rd' = [rd EXCEPT !.op = "scan", !.i = @ + 1]
    /\ UNCHANGED <<recent, pos, loads>>

Return ==
    /\ rd.op = "scan" /\ rd.i > Last(rd)
    /\ pos' = pos + rd.size
    /\ rd' = [rd EXCEPT !.op = "idle"]
    /\ UNCHANGED <<recent, got, loads>>

Next ==
    \/ \E p \in Positions : Seek(p)
    \/ \E n \in Counts : Read(n)
    \/ Skip \/ Present \/ Missing \/ Touch \/ Touched \/ Fill \/ FillFails \/ Filled
    \/ Copy \/ Return

Spec == Init /\ [][Next]_vars

-----------------------------------------------------------------------------
(* Properties. *)

Blocks == 0 .. BufItems - 1

\* The variables have their types: no block is twice in the list, and there are no more
\* of them than asked for.
TypeOK ==
    /\ recent \in Seq(Blocks) /\ Len(recent) <= BufSize
    /\ \A k, m \in 1 .. Len(recent) : recent[k] = recent[m] => k = m
    /\ pos \in 0 .. Size
    /\ rd \in [op : {"idle", "scan", "touch", "fill", "copy", "refused", "exited"},
               from : 0 .. Size, size : 0 .. Size, i : Nat, firstNE : BOOLEAN,
               flags : SUBSET Blocks, lo : Nat, hi : Int, j : Nat,
               firstne : Blocks \cup {-1}, lastne : Blocks \cup {-1}, had : SUBSET Blocks]
    /\ loads \in SUBSET Blocks

\* Read finds every block that it copies in the second loop, although loading a fragment
\* evicts blocks, and asks only for fragments that there are.
NeverMissing ==
    /\ rd.op = "copy" => rd.i \in Cached
    /\ rd.op # "refused"

\* What Read returns are the bytes from where it started, all of them, whichever were
\* copied before others were loaded.
ReadsFile == rd.op = "idle" => got = [k \in 0 .. rd.size - 1 |-> rd.from + k]

\* A read that fits into the cache loads no block that was there when it began: those in
\* the way of a fragment are put first before any is evicted.
LoadsOnlyMissing ==
    rd.size > 0 /\ Last(rd) - First(rd) < BufSize => loads \cap rd.had = {}
=============================================================================
