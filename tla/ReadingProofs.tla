---------------------------- MODULE ReadingProofs ----------------------------
(***************************************************************************)
(* The caches that a document reads its data through.                      *)
(*                                                                         *)
(* ReadCache: what Read copies is there and is what the stream has, for    *)
(* every size of the stream, of a block and of the cache, and for every    *)
(* sequence of reads; and a read that fits into the cache loads nothing    *)
(* twice.  The argument: fillFragment first puts the blocks of its         *)
(* fragment that are there in front of all others, where they stay while   *)
(* the missing ones are loaded.  A fragment has no more blocks than the    *)
(* cache; as long as one of them is missing, the cache, when it is full,   *)
(* has a block that is not of the fragment, and the last one in the list   *)
(* is such a block.                                                        *)
(*                                                                         *)
(* BlobCache, at the end: getBlob returns the blobs of the book, for every *)
(* book and every range of indexes, over all sessions.  The argument: a    *)
(* blob that is not in memory is in its block, a file that is clean has    *)
(* all of them, and a list that is not marked as changed is in the file.   *)
(***************************************************************************)
EXTENDS ReadCache, BlobCache, TLAPS, FiniteSetTheorems

Facts == INSTANCE ListFacts

(* Division. *)

LEMMA DivBounds ==
    ASSUME NEW a \in Nat, NEW k \in Nat \ {0}
    PROVE  /\ a \div k \in Nat
           /\ k * (a \div k) <= a
           /\ a < k * (a \div k) + k
  OBVIOUS

LEMMA DivMono ==
    ASSUME NEW a \in Nat, NEW b \in Nat, NEW k \in Nat \ {0}, a <= b
    PROVE  a \div k <= b \div k
  BY DivBounds

LEMMA DivNext ==
    ASSUME NEW a \in Nat, NEW k \in Nat \ {0}
    PROVE  (a + k) \div k = a \div k + 1
  BY DivBounds

LEMMA DivIs ==
    ASSUME NEW a \in Nat, NEW k \in Nat \ {0}, NEW b \in Nat
    PROVE  a \div k = b <=> b * k <= a /\ a < b * k + k
  OBVIOUS

LEMMA ModIs ==
    ASSUME NEW a \in Nat, NEW k \in Nat \ {0}
    PROVE  a = (a \div k) * k + (a % k) /\ a % k \in 0 .. k - 1
  OBVIOUS

LEMMA ProductMono ==
    ASSUME NEW a \in Nat, NEW b \in Nat, NEW k \in Nat, a < b
    PROVE  a * k + k <= b * k
  OBVIOUS

LEMMA ProductMinus ==
    ASSUME NEW a \in Nat, NEW b \in Nat, NEW k \in Nat
    PROVE  (b - a) * k = b * k - a * k
  OBVIOUS

\* The last block of a read is one of the stream, and not before the first.
LEMMA LastInStream ==
    ASSUME NEW from \in Nat, NEW size \in Nat \ {0}, from + size <= Size
    PROVE  /\ (from + size - 1) \div BlockSize < BufItems
           /\ from \div BlockSize <= (from + size - 1) \div BlockSize
           /\ from \div BlockSize \in Nat
           /\ (from + size - 1) \div BlockSize \in Nat
  <1>0. /\ from + size - 1 \in Nat /\ Size - 1 \in Nat /\ BlockSize \in Nat \ {0}
        /\ from <= from + size - 1 /\ from + size - 1 <= Size - 1
    BY ReadCacheAssumption
  <1>1. /\ (from + size - 1) \div BlockSize <= (Size - 1) \div BlockSize
        /\ from \div BlockSize <= (from + size - 1) \div BlockSize
    <2> DEFINE e == from + size - 1
               z == Size - 1
    <2>1. e \in Nat /\ z \in Nat /\ from <= e /\ e <= z
      BY <1>0
    <2> HIDE DEF e, z
    <2>2. e \div BlockSize <= z \div BlockSize /\ from \div BlockSize <= e \div BlockSize
      BY <2>1, <1>0, DivMono
    <2> QED  BY <2>2 DEF e, z
  <1>2. (Size - 1 + BlockSize) \div BlockSize = (Size - 1) \div BlockSize + 1
    <2> DEFINE z == Size - 1
    <2> HIDE DEF z
    <2>1. z \in Nat
      BY <1>0 DEF z
    <2>2. (z + BlockSize) \div BlockSize = z \div BlockSize + 1
      BY <2>1, <1>0, DivNext
    <2> QED  BY <2>2 DEF z
  <1>3. Size - 1 + BlockSize = Size + BlockSize - 1
    BY ReadCacheAssumption
  <1>4. /\ from \div BlockSize \in Nat /\ (from + size - 1) \div BlockSize \in Nat
        /\ (Size - 1) \div BlockSize \in Nat
    BY DivBounds, ReadCacheAssumption
  <1> QED  BY <1>1, <1>2, <1>3, <1>4 DEF BufItems, Larger

LEMMA BufItemsType == BufItems \in Nat /\ BufItems >= 1
  <1>1. (Size + BlockSize - 1) \div BlockSize \in Nat
    BY DivBounds, ReadCacheAssumption
  <1> QED  BY <1>1 DEF BufItems, Larger

-----------------------------------------------------------------------------
(* Lists of blocks. *)

Distinct(s) == \A k, m \in 1 .. Len(s) : s[k] = s[m] => k = m
Elems(s) == {s[k] : k \in 1 .. Len(s)}

\* The elements of S that the list has come before all others.
InFront(s, S) == \A k, l \in 1 .. Len(s) : k < l /\ s[l] \in S => s[k] \in S

LEMMA MoveToTopKeeps ==
    ASSUME NEW B, NEW s \in Seq(B), Distinct(s), NEW b \in Elems(s)
    PROVE  /\ MoveToTop(s, b) \in Seq(B) /\ Len(MoveToTop(s, b)) = Len(s)
           /\ Distinct(MoveToTop(s, b))
           /\ Elems(MoveToTop(s, b)) = Elems(s)
           /\ \A S : b \in S /\ (InFront(s, S) \/ InFront(s, S \ {b}))
                        => InFront(MoveToTop(s, b), S)
  <1> DEFINE at == CHOOSE k \in 1 .. Len(s) : s[k] = b
             t == MoveToTop(s, b)
  <1>1. at \in 1 .. Len(s) /\ s[at] = b
    BY DEF Elems
  <1>2. t = [k \in 1 .. Len(s) |-> IF k = 1 THEN b ELSE IF k <= at THEN s[k - 1] ELSE s[k]]
    BY DEF MoveToTop
  <1> HIDE DEF at, t
  <1>3. Len(s) \in Nat /\ s \in [1 .. Len(s) -> B] /\ b \in B
    BY DEF Elems
  <1>4. t \in [1 .. Len(s) -> B]
    BY <1>1, <1>2, <1>3
  <1>5. t \in Seq(B) /\ Len(t) = Len(s)
    BY <1>3, <1>4
  <1>6. Distinct(t)
    BY <1>1, <1>2, <1>3, <1>5 DEF Distinct
  <1>7. ASSUME NEW k \in 1 .. Len(s)
        PROVE  \E m \in 1 .. Len(s) : t[m] = s[k]
    <2>1. CASE k = at
      <3>1. 1 \in 1 .. Len(s) /\ t[1] = s[k]
        BY <1>1, <1>2, <1>3, <2>1
      <3> QED  BY <3>1
    <2>2. CASE k < at
      <3>1. k + 1 \in 1 .. Len(s) /\ t[k + 1] = s[k]
        BY <1>1, <1>2, <1>3, <2>2
      <3> QED  BY <3>1
    <2>3. CASE k > at
      <3>1. t[k] = s[k]
        BY <1>1, <1>2, <1>3, <2>3
      <3> QED  BY <3>1
    <2> QED  BY <1>1, <1>3, <2>1, <2>2, <2>3
  <1>8. ASSUME NEW k \in 1 .. Len(s)
        PROVE  \E m \in 1 .. Len(s) : s[m] = t[k]
    BY <1>1, <1>2, <1>3
  <1>9. Elems(t) = Elems(s)
    <2>1. ASSUME NEW x \in Elems(s)  PROVE x \in Elems(t)
      BY <2>1, <1>5, <1>7 DEF Elems
    <2>2. ASSUME NEW x \in Elems(t)  PROVE x \in Elems(s)
      BY <2>2, <1>5, <1>8 DEF Elems
    <2> QED  BY <2>1, <2>2
  <1>10. ASSUME NEW S, b \in S, InFront(s, S) \/ InFront(s, S \ {b}),
                NEW k \in 1 .. Len(t), NEW l \in 1 .. Len(t), k < l, t[l] \in S
         PROVE  t[k] \in S
    <2>1. CASE k = 1
      BY <1>2, <1>3, <1>5, <1>10, <2>1
    <2>2. CASE k > 1 /\ l <= at
      <3>1. /\ t[k] = s[k - 1] /\ t[l] = s[l - 1]
            /\ k - 1 \in 1 .. Len(s) /\ l - 1 \in 1 .. Len(s) /\ k - 1 < l - 1
            /\ l - 1 # at
        BY <1>1, <1>2, <1>3, <1>5, <1>10, <2>2
      <3>2. s[l - 1] # b
        BY <1>1, <3>1 DEF Distinct
      <3> QED  BY <3>1, <3>2, <1>10 DEF InFront
    <2>3. CASE k > 1 /\ k <= at /\ l > at
      <3>1. /\ t[k] = s[k - 1] /\ t[l] = s[l]
            /\ k - 1 \in 1 .. Len(s) /\ l \in 1 .. Len(s) /\ k - 1 < l /\ l # at
        BY <1>1, <1>2, <1>3, <1>5, <1>10, <2>3
      <3>2. s[l] # b
        BY <1>1, <3>1 DEF Distinct
      <3> QED  BY <3>1, <3>2, <1>10 DEF InFront
    <2>4. CASE k > at
      <3>1. /\ t[k] = s[k] /\ t[l] = s[l]
            /\ k \in 1 .. Len(s) /\ l \in 1 .. Len(s) /\ k < l /\ l # at
        BY <1>1, <1>2, <1>3, <1>5, <1>10, <2>4
      <3>2. s[l] # b
        BY <1>1, <3>1 DEF Distinct
      <3> QED  BY <3>1, <3>2, <1>10 DEF InFront
    <2> QED  BY <1>1, <1>3, <1>5, <2>1, <2>2, <2>3, <2>4
  <1> QED  BY <1>5, <1>6, <1>9, <1>10 DEF InFront, t

LEMMA AddOrReuseItemKeeps ==
    ASSUME NEW B, NEW s \in Seq(B), Distinct(s), Len(s) <= BufSize,
           NEW b \in B, b \notin Elems(s)
    PROVE  /\ AddOrReuseItem(s, b) \in Seq(B) /\ Len(AddOrReuseItem(s, b)) <= BufSize
           /\ Distinct(AddOrReuseItem(s, b))
           /\ b \in Elems(AddOrReuseItem(s, b))
           /\ \A S : b \in S /\ InFront(s, S) => InFront(AddOrReuseItem(s, b), S)
           /\ \A x \in Elems(s) :
                 Len(s) < BufSize \/ x # s[Len(s)] => x \in Elems(AddOrReuseItem(s, b))
  <1> DEFINE n == IF Len(s) < BufSize THEN Len(s) + 1 ELSE Len(s)
             t == AddOrReuseItem(s, b)
  <1>1. Len(s) \in Nat /\ s \in [1 .. Len(s) -> B] /\ BufSize \in Nat /\ BufSize >= 3
    BY ReadCacheAssumption
  <1>2. t = [k \in 1 .. n |-> IF k = 1 THEN b ELSE s[k - 1]]
    BY DEF AddOrReuseItem, AddNewItem, ReuseItem
  <1>3. n \in Nat /\ n >= 1 /\ n <= BufSize /\ n <= Len(s) + 1
    BY <1>1
  <1>4. n = Len(s) + 1 \/ (n = Len(s) /\ Len(s) = BufSize)
    <2>1. CASE Len(s) < BufSize
      BY <2>1
    <2>2. CASE ~(Len(s) < BufSize)
      <3> DEFINE l == Len(s)
      <3>0. l \in Nat /\ BufSize \in Nat /\ l <= BufSize /\ ~(l < BufSize)
        BY <1>1, <2>2
      <3> HIDE DEF l
      <3>1. l = BufSize
        BY <3>0
      <3> USE DEF l
      <3> QED  BY <3>1, <2>2
    <2> QED  BY <2>1, <2>2
  <1> HIDE DEF n, t
  <1>5. t \in Seq(B) /\ Len(t) = n
    <2>1. t \in [1 .. n -> B]
      BY <1>1, <1>2, <1>3
    <2> QED  BY <1>3, <2>1
  <1>6. Distinct(t)
    BY <1>1, <1>2, <1>3, <1>5 DEF Distinct, Elems
  <1>7. b \in Elems(t)
    <2>1. 1 \in 1 .. Len(t) /\ t[1] = b
      BY <1>2, <1>3, <1>5
    <2> QED  BY <2>1 DEF Elems
  <1>8. ASSUME NEW S, b \in S, InFront(s, S)
        PROVE  InFront(t, S)
    <2>1. SUFFICES ASSUME NEW k \in 1 .. Len(t), NEW l \in 1 .. Len(t), k < l, t[l] \in S
                   PROVE  t[k] \in S
      BY DEF InFront
    <2>2. CASE k = 1
      BY <1>2, <1>3, <1>5, <1>8, <2>2
    <2>3. CASE k > 1
      <3>1. /\ t[k] = s[k - 1] /\ t[l] = s[l - 1]
            /\ k - 1 \in 1 .. Len(s) /\ l - 1 \in 1 .. Len(s) /\ k - 1 < l - 1
        BY <1>1, <1>2, <1>3, <1>5, <2>1, <2>3
      <3> QED  BY <3>1, <2>1, <1>8 DEF InFront
    <2> QED  BY <1>3, <1>5, <2>2, <2>3
  <1>9. ASSUME NEW x \in Elems(s), Len(s) < BufSize \/ x # s[Len(s)]
        PROVE  x \in Elems(t)
    <2>1. PICK k \in 1 .. Len(s) : s[k] = x
      BY DEF Elems
    <2>2. k + 1 \in 1 .. n
      BY <1>1, <1>3, <1>4, <1>9, <2>1
    <2>3. t[k + 1] = x
      BY <1>1, <1>2, <2>1, <2>2
    <2> QED  BY <1>5, <2>2, <2>3 DEF Elems
  <1> QED  BY <1>3, <1>5, <1>6, <1>7, <1>8, <1>9 DEF t

\* When the cache is full and a block of a fragment is missing, the last block of the list
\* is not of the fragment.
LEMMA TailIsOther ==
    ASSUME NEW B, NEW s \in Seq(B), Distinct(s), Len(s) >= BufSize,
           NEW lo \in Nat, NEW hi \in Nat, lo <= hi, hi - lo < BufSize,
           NEW b \in lo .. hi, b \notin Elems(s), InFront(s, lo .. hi)
    PROVE  s[Len(s)] \notin lo .. hi
  <1> DEFINE n == Len(s)
  <1>1. /\ n \in Nat /\ s \in [1 .. n -> B] /\ BufSize \in Nat /\ BufSize >= 3
        /\ n >= BufSize
    BY ReadCacheAssumption
  <1> HIDE DEF n
  <1>2. SUFFICES ASSUME s[n] \in lo .. hi  PROVE FALSE
    BY DEF n
  <1>3. \A k \in 1 .. n : s[k] \in (lo .. hi) \ {b}
    <2>1. SUFFICES ASSUME NEW k \in 1 .. n  PROVE s[k] \in (lo .. hi) \ {b}
      OBVIOUS
    <2>2. s[k] # b
      BY DEF Elems, n
    <2>3. s[k] \in lo .. hi
      <3>1. CASE k = n
        BY <3>1, <1>2
      <3>2. CASE k < n
        BY <3>2, <1>1, <1>2 DEF InFront, n
      <3> QED  BY <3>1, <3>2, <1>1
    <2> QED  BY <2>2, <2>3
  <1> DEFINE T == (lo .. hi) \ {b}
             f == [k \in 1 .. n |-> s[k]]
  <1>4. IsFiniteSet(1 .. n) /\ Cardinality(1 .. n) = n
    BY <1>1, FS_Interval
  <1>5. IsFiniteSet(lo .. hi) /\ Cardinality(lo .. hi) = hi - lo + 1
    BY FS_Interval
  <1>6. IsFiniteSet(T) /\ Cardinality(T) = hi - lo
    <2>1. IsFiniteSet(T) /\ Cardinality(T) = Cardinality(lo .. hi) - 1
      BY <1>5, FS_RemoveElement, Zenon
    <2>2. Cardinality(T) = hi - lo
      <3> HIDE DEF T
      <3> QED  BY <2>1, <1>5
    <2> QED  BY <2>1, <2>2
  <1>7. f \in [1 .. n -> T]
    BY <1>3
  <1>8. Cardinality(T) < Cardinality(1 .. n)
    BY <1>1, <1>4, <1>6
  <1>9. \E k, l \in 1 .. n : k # l /\ f[k] = f[l]
    <2> HIDE DEF T, f
    <2> QED  BY <1>4, <1>6, <1>7, <1>8, FS_PigeonHole
  <1> QED  BY <1>9 DEF Distinct, n

-----------------------------------------------------------------------------
(* The invariant. *)

Fragment == rd.lo .. rd.hi

\* A read is within the stream and at one of its blocks.
ReadOK ==
    rd.op \in {"scan", "touch", "fill", "copy"} =>
        /\ rd.size > 0 /\ rd.from = pos /\ pos + rd.size <= Size
        /\ First(rd) <= rd.i /\ (rd.op # "scan" => rd.i <= Last(rd))

\* A fragment has the block that is missing, and no more blocks than the cache.
FragmentOK ==
    rd.op \in {"touch", "fill"} =>
        /\ rd.i \in Fragment /\ rd.hi < BufItems /\ rd.hi - rd.lo < BufSize

\* What the first loop of fillFragment has seen is in front, or from firstne to lastne.
TouchOK ==
    rd.op = "touch" =>
        /\ rd.lo <= rd.j /\ rd.j <= rd.hi + 1
        /\ InFront(recent, rd.lo .. rd.j - 1)
        /\ IF rd.firstne = -1 THEN rd.lo .. rd.j - 1 \subseteq Elems(recent)
           ELSE /\ rd.lo <= rd.firstne /\ rd.firstne <= rd.lastne /\ rd.lastne < rd.j
                /\ \A b \in rd.lo .. rd.j - 1 :
                       b \in Elems(recent) \/ b \in rd.firstne .. rd.lastne

\* Those of the fragment that are not yet loaded are from j to lastne.
FillOK ==
    rd.op = "fill" =>
        /\ rd.lo <= rd.j /\ rd.j <= rd.lastne + 1 /\ rd.lastne <= rd.hi
        /\ InFront(recent, Fragment)
        /\ \A b \in Fragment : b \in Elems(recent) \/ b \in rd.j .. rd.lastne

\* The block that is copied next is there.
CopyOK == rd.op = "copy" => rd.i \in Elems(recent)

Types ==
    /\ recent \in Seq(Blocks) /\ Len(recent) <= BufSize /\ Distinct(recent)
    /\ pos \in 0 .. Size
    /\ rd \in [op : {"idle", "scan", "touch", "fill", "copy", "exited"},
               from : 0 .. Size, size : 0 .. Size, i : Nat, firstNE : BOOLEAN,
               flags : SUBSET Blocks, lo : Nat, hi : Int, j : Nat,
               firstne : Blocks \cup {-1}, lastne : Blocks \cup {-1}, had : SUBSET Blocks]
    /\ loads \in SUBSET Blocks

IInv == Types /\ ReadOK /\ FragmentOK /\ TouchOK /\ FillOK /\ CopyOK

LEMMA CachedIsElems == Cached = Elems(recent)
  BY DEF Cached, Elems

LEMMA CachedAreBlocks == Types => Elems(recent) \subseteq Blocks
  BY DEF Types, Elems

LEMMA InitOK == Init => IInv
  <1> SUFFICES ASSUME Init  PROVE IInv
    OBVIOUS
  <1>1. -1 \in Blocks \cup {-1} /\ 0 \in 0 .. Size /\ 0 \in Nat /\ Len(<<>>) = 0
        /\ <<>> \in Seq(Blocks) /\ BufSize >= 0
    BY ReadCacheAssumption
  <1>2. Types
    BY <1>1 DEF Init, Types, NoRead, Distinct
  <1> QED  BY <1>2 DEF Init, IInv, NoRead, ReadOK, FragmentOK, TouchOK, FillOK, CopyOK

\* The first and the last block of a read are blocks of the stream.
LEMMA NeededAreBlocks ==
    ASSUME IInv, rd.op \in {"scan", "touch", "fill", "copy"}
    PROVE  First(rd) \in Nat /\ Last(rd) \in Nat /\ First(rd) <= Last(rd) /\ Last(rd) < BufItems
  <1>1. rd.from \in Nat /\ rd.size \in Nat \ {0} /\ rd.from + rd.size <= Size
    BY DEF IInv, Types, ReadOK
  <1> QED  BY <1>1, LastInStream DEF First, Last

LEMMA SeekOK == ASSUME IInv, NEW p \in Positions, Seek(p)  PROVE IInv'
  <1>1. NoRead.op = "idle"
    BY DEF NoRead
  <1>2. pos' \in 0 .. Size
    BY ReadCacheAssumption DEF Seek, IInv, Types
  <1>3. Types'
    BY <1>2, ReadCacheAssumption DEF Seek, IInv, Types, NoRead
  <1> QED  BY <1>1, <1>3 DEF Seek, IInv, ReadOK, FragmentOK, TouchOK, FillOK, CopyOK

LEMMA ReadStepOK == ASSUME IInv, NEW n \in Counts, Read(n)  PROVE IInv'
  <1> DEFINE size == Smaller(n, Size - pos)
             r == [NoRead EXCEPT !.op = "scan", !.from = pos, !.size = size,
                                 !.i = pos \div BlockSize, !.had = Cached]
             flags == Needed(r) \cap Cached
  <1>1. n \in Nat /\ Size \in Nat /\ pos \in Nat /\ pos <= Size /\ size \in Int /\ size <= Size - pos
        /\ pos \div BlockSize \in Nat
    BY DivBounds, ReadCacheAssumption DEF IInv, Types, Smaller
  <1>2. CASE size <= 0
    <2>1. rd' = NoRead /\ UNCHANGED <<recent, pos>> /\ loads' = {}
      BY <1>2 DEF Read
    <2>2. Types'
      BY <2>1, <1>1, ReadCacheAssumption DEF IInv, Types, NoRead
    <2> QED  BY <2>1, <2>2 DEF NoRead, IInv, ReadOK, FragmentOK, TouchOK, FillOK, CopyOK
  <1>3. CASE size > 0
    <2>1. rd' = [r EXCEPT !.flags = flags] /\ UNCHANGED <<recent, pos>> /\ loads' = {}
      BY <1>1, <1>3 DEF Read
    <2>2. Cached \subseteq Blocks
      BY CachedIsElems, CachedAreBlocks DEF IInv
    <2>0. flags \in SUBSET Blocks
      BY <2>2
    <2> HIDE DEF size, flags
    <2>a. rd' = [op |-> "scan", from |-> pos, size |-> size, i |-> pos \div BlockSize,
                 firstNE |-> TRUE, flags |-> flags, lo |-> 0, hi |-> 0, j |-> 0,
                 firstne |-> -1, lastne |-> -1, had |-> Cached]
      BY <2>1 DEF NoRead
    <2>3. /\ rd' \in [op : {"scan"}, from : 0 .. Size, size : 0 .. Size, i : Nat,
                      firstNE : BOOLEAN, flags : SUBSET Blocks, lo : Nat, hi : Int, j : Nat,
                      firstne : Blocks \cup {-1}, lastne : Blocks \cup {-1},
                      had : SUBSET Blocks]
          /\ rd'.size = size /\ rd'.from = pos /\ rd'.i = pos \div BlockSize
      BY <2>a, <2>0, <2>2, <1>1, <1>3
    <2>4. Types'
      BY <2>1, <2>3 DEF IInv, Types
    <2>5. ReadOK'
      BY <2>1, <2>3, <1>1, <1>3 DEF ReadOK, First
    <2> QED  BY <2>3, <2>4, <2>5 DEF IInv, FragmentOK, TouchOK, FillOK, CopyOK
  <1> QED  BY <1>1, <1>2, <1>3

LEMMA SkipOK == ASSUME IInv, Skip  PROVE IInv'
  <1>1. rd' = [rd EXCEPT !.i = rd.i + 1] /\ UNCHANGED <<recent, pos, loads>>
    BY DEF Skip
  <1>2. Types'
    BY <1>1 DEF IInv, Types
  <1>a. rd'.op = "scan" /\ rd'.from = rd.from /\ rd'.size = rd.size /\ rd'.i = rd.i + 1
    BY <1>1 DEF Skip, IInv, Types
  <1>b. First(rd) \in Nat /\ rd.i \in Nat
    BY NeededAreBlocks DEF Skip, IInv, Types
  <1>3. ReadOK'
    BY <1>1, <1>a, <1>b DEF Skip, IInv, ReadOK, First
  <1> QED  BY <1>1, <1>2, <1>3 DEF Skip, IInv, Types, FragmentOK, TouchOK, FillOK, CopyOK

LEMMA PresentOK == ASSUME IInv, Present  PROVE IInv'
  <1>1. rd' = [rd EXCEPT !.op = "copy"] /\ UNCHANGED <<recent, pos, loads>>
    BY DEF Present
  <1>2. Types'
    BY <1>1 DEF IInv, Types
  <1>3. ReadOK'
    BY <1>1 DEF Present, IInv, Types, ReadOK, First, Last
  <1> QED  BY <1>1, <1>2, <1>3, CachedIsElems
           DEF Present, IInv, Types, FragmentOK, TouchOK, FillOK, CopyOK

\* The fragment begins at most ExtraItems before the missing block, and so reaches it.
LEMMA MissingOK == ASSUME IInv, Missing  PROVE IInv'
  <1> DEFINE lo == FillStart(rd)
             hi == FillEnd(rd)
  <1>1. First(rd) \in Nat /\ Last(rd) \in Nat /\ First(rd) <= Last(rd) /\ Last(rd) < BufItems
    BY NeededAreBlocks DEF Missing
  <1>2. rd.i \in Nat /\ First(rd) <= rd.i /\ rd.i <= Last(rd) /\ BufSize \in Nat /\ BufSize >= 3
    BY ReadCacheAssumption DEF Missing, IInv, Types, ReadOK
  <1>3. ExtraItems(rd) \in Nat /\ ExtraItems(rd) < BufSize
    BY <1>1, <1>2 DEF ExtraItems, Larger
  <1>4. lo \in Nat /\ lo <= rd.i /\ rd.i - lo < BufSize
    BY <1>2, <1>3 DEF FillStart, Larger
  <1>5. hi \in Int /\ hi <= Last(rd) /\ hi - lo < BufSize /\ rd.i <= hi
    BY <1>1, <1>2, <1>4 DEF FillEnd, Smaller
  <1> HIDE DEF lo, hi
  <1>6. BufItems \in Nat /\ lo <= hi /\ hi < BufItems
    BY <1>1, <1>2, <1>4, <1>5, BufItemsType
  <1>7. /\ rd' = [rd EXCEPT !.op = "touch", !.lo = lo, !.hi = hi, !.j = lo,
                            !.firstne = -1, !.lastne = -1]
        /\ UNCHANGED <<recent, pos, loads>>
    BY <1>6 DEF Missing, lo, hi
  <1>8. /\ rd' \in [op : {"touch"}, from : 0 .. Size, size : 0 .. Size, i : Nat,
                    firstNE : BOOLEAN, flags : SUBSET Blocks, lo : Nat, hi : Int, j : Nat,
                    firstne : Blocks \cup {-1}, lastne : Blocks \cup {-1},
                    had : SUBSET Blocks]
        /\ rd'.from = rd.from /\ rd'.size = rd.size /\ rd'.i = rd.i
        /\ rd'.lo = lo /\ rd'.hi = hi /\ rd'.j = lo /\ rd'.firstne = -1
    BY <1>4, <1>5, <1>7 DEF IInv, Types
  <1>9. Types'
    BY <1>7, <1>8 DEF IInv, Types
  <1>10. ReadOK'
    BY <1>2, <1>7, <1>8 DEF Missing, IInv, ReadOK, First, Last
  <1>11. FragmentOK'
    BY <1>2, <1>4, <1>5, <1>6, <1>8 DEF FragmentOK, Fragment, BufItems
  <1>12. TouchOK'
    <2>1. lo .. lo - 1 = {}
      BY <1>4
    <2> QED  BY <2>1, <1>4, <1>6, <1>8, <1>5 DEF TouchOK, InFront
  <1> QED  BY <1>8, <1>9, <1>10, <1>11, <1>12 DEF IInv, FillOK, CopyOK

\* The block is there and is put first.
LEMMA TouchCachedOK == ASSUME IInv, Touch, rd.j \in Cached  PROVE IInv'
  <1>1. /\ rd' = [rd EXCEPT !.j = rd.j + 1] /\ recent' = MoveToTop(recent, rd.j)
        /\ UNCHANGED <<pos, loads>> /\ rd.op = "touch" /\ rd.j <= rd.hi
    BY DEF Touch
  <1>2. /\ recent' \in Seq(Blocks) /\ Len(recent') = Len(recent) /\ Distinct(recent')
        /\ Elems(recent') = Elems(recent)
        /\ \A S : rd.j \in S /\ (InFront(recent, S) \/ InFront(recent, S \ {rd.j}))
                     => InFront(recent', S)
    BY <1>1, CachedIsElems, MoveToTopKeeps DEF IInv, Types
  <1>3. /\ rd' \in [op : {"touch"}, from : 0 .. Size, size : 0 .. Size, i : Nat,
                    firstNE : BOOLEAN, flags : SUBSET Blocks, lo : Nat, hi : Int, j : Nat,
                    firstne : Blocks \cup {-1}, lastne : Blocks \cup {-1},
                    had : SUBSET Blocks]
        /\ rd'.from = rd.from /\ rd'.size = rd.size /\ rd'.i = rd.i
        /\ rd'.lo = rd.lo /\ rd'.hi = rd.hi /\ rd'.j = rd.j + 1
        /\ rd'.firstne = rd.firstne /\ rd'.lastne = rd.lastne
    BY <1>1 DEF IInv, Types
  <1>4. Types'
    BY <1>1, <1>2, <1>3 DEF IInv, Types
  <1>5. ReadOK'
    BY <1>1, <1>3 DEF IInv, ReadOK, First, Last
  <1>6. FragmentOK'
    BY <1>1, <1>3 DEF IInv, FragmentOK, Fragment
  <1>7. TouchOK'
    <2>1. rd.lo \in Nat /\ rd.j \in Nat /\ rd.hi \in Int /\ rd.lo <= rd.j
      BY <1>1 DEF IInv, Types, TouchOK
    <2>2. rd.j \in rd.lo .. rd.j /\ (rd.lo .. rd.j) \ {rd.j} = rd.lo .. rd.j - 1
      BY <2>1
    <2>3. InFront(recent', rd.lo .. rd.j)
      BY <2>2, <1>1, <1>2 DEF IInv, TouchOK
    <2>4. rd.j \in Elems(recent')
      BY <1>2, CachedIsElems
    <2>5. rd'.lo .. rd'.j - 1 = rd.lo .. rd.j
      BY <1>3, <2>1
    <2>6. rd'.lo <= rd'.j /\ rd'.j <= rd'.hi + 1
      BY <1>1, <1>3, <2>1
    <2>7. CASE rd.firstne = -1
      <3>1. rd.lo .. rd.j - 1 \subseteq Elems(recent)
        BY <2>7, <1>1 DEF IInv, TouchOK
      <3>2. rd.lo .. rd.j \subseteq Elems(recent')
        BY <3>1, <2>2, <2>4, <1>2
      <3> QED  BY <3>2, <2>3, <2>5, <2>6, <2>7, <1>3 DEF TouchOK
    <2>8. CASE rd.firstne # -1
      <3>1. /\ rd.lo <= rd.firstne /\ rd.firstne <= rd.lastne /\ rd.lastne < rd.j
            /\ \A b \in rd.lo .. rd.j - 1 :
                   b \in Elems(recent) \/ b \in rd.firstne .. rd.lastne
        BY <2>8, <1>1 DEF IInv, TouchOK
      <3>2. \A b \in rd.lo .. rd.j : b \in Elems(recent') \/ b \in rd.firstne .. rd.lastne
        BY <3>1, <2>2, <2>4, <1>2
      <3>3. rd'.lastne < rd'.j
        BY <3>1, <1>3, <2>1, <2>8, BufItemsType DEF IInv, Types, Blocks
      <3> QED  BY <3>1, <3>2, <3>3, <2>3, <2>5, <2>6, <2>8, <1>3 DEF TouchOK
    <2> QED  BY <2>7, <2>8
  <1> QED  BY <1>3, <1>4, <1>5, <1>6, <1>7 DEF IInv, FillOK, CopyOK

\* The block is not there: it is the last that misses, and maybe the first.
LEMMA TouchMissingOK == ASSUME IInv, Touch, rd.j \notin Cached  PROVE IInv'
  <1> DEFINE f == IF rd.firstne = -1 THEN rd.j ELSE rd.firstne
  <1>1. /\ rd' = [rd EXCEPT !.j = rd.j + 1, !.lastne = rd.j, !.firstne = f]
        /\ UNCHANGED <<recent, pos, loads>> /\ rd.op = "touch" /\ rd.j <= rd.hi
    BY DEF Touch
  <1>2. rd.lo \in Nat /\ rd.j \in Nat /\ rd.hi \in Int /\ rd.lo <= rd.j /\ rd.hi < BufItems
    BY <1>1 DEF IInv, Types, TouchOK, FragmentOK
  <1>3. rd.j \in Blocks /\ f \in Blocks
    BY <1>1, <1>2, BufItemsType DEF IInv, Types, Blocks
  <1> HIDE DEF f
  <1>4. /\ rd' \in [op : {"touch"}, from : 0 .. Size, size : 0 .. Size, i : Nat,
                    firstNE : BOOLEAN, flags : SUBSET Blocks, lo : Nat, hi : Int, j : Nat,
                    firstne : Blocks \cup {-1}, lastne : Blocks \cup {-1},
                    had : SUBSET Blocks]
        /\ rd'.from = rd.from /\ rd'.size = rd.size /\ rd'.i = rd.i
        /\ rd'.lo = rd.lo /\ rd'.hi = rd.hi /\ rd'.j = rd.j + 1
        /\ rd'.firstne = f /\ rd'.lastne = rd.j
    <2>1. /\ rd'.from = rd.from /\ rd'.size = rd.size /\ rd'.i = rd.i
          /\ rd'.lo = rd.lo /\ rd'.hi = rd.hi /\ rd'.j = rd.j + 1
          /\ rd'.firstne = f /\ rd'.lastne = rd.j
      BY <1>1 DEF IInv, Types
    <2>2. rd.j + 1 \in Nat /\ rd.j \in Blocks \cup {-1} /\ f \in Blocks \cup {-1}
      BY <1>2, <1>3
    <2> DEFINE R == [op : {"touch"}, from : 0 .. Size, size : 0 .. Size, i : Nat,
                     firstNE : BOOLEAN, flags : SUBSET Blocks, lo : Nat, hi : Int, j : Nat,
                     firstne : Blocks \cup {-1}, lastne : Blocks \cup {-1},
                     had : SUBSET Blocks]
               r1 == [rd EXCEPT !.j = rd.j + 1]
               r2 == [r1 EXCEPT !.lastne = rd.j]
    <2>3. r1 \in R
      BY <1>1, <2>2 DEF IInv, Types
    <2>4. r2 \in R
      <3> HIDE DEF r1
      <3> QED  BY <2>2, <2>3
    <2>5. [r2 EXCEPT !.firstne = f] \in R
      <3> HIDE DEF r2
      <3> QED  BY <2>2, <2>4
    <2> QED  BY <2>1, <2>5, <1>1
  <1>5. Types'
    BY <1>1, <1>4 DEF IInv, Types
  <1>6. ReadOK'
    BY <1>1, <1>4 DEF IInv, ReadOK, First, Last
  <1>7. FragmentOK'
    BY <1>1, <1>4 DEF IInv, FragmentOK, Fragment
  <1>8. TouchOK'
    <2>1. rd'.lo .. rd'.j - 1 = rd.lo .. rd.j
      BY <1>2, <1>4
    <2>2. InFront(recent', rd.lo .. rd.j)
      <3>1. \A b \in Elems(recent) : b \in rd.lo .. rd.j => b \in rd.lo .. rd.j - 1
        BY <1>2, CachedIsElems
      <3>2. InFront(recent, rd.lo .. rd.j - 1)
        BY <1>1 DEF IInv, TouchOK
      <3>3. rd.lo .. rd.j - 1 \subseteq rd.lo .. rd.j
        BY <1>2
      <3> QED  BY <3>1, <3>2, <3>3, <1>1 DEF InFront, Elems
    <2>3. rd.lo <= f /\ f <= rd.j
      <3>1. CASE rd.firstne = -1
        BY <3>1, <1>2 DEF f
      <3>2. CASE rd.firstne # -1
        BY <3>2, <1>1, <1>2, BufItemsType DEF f, IInv, Types, TouchOK, Blocks
      <3> QED  BY <3>1, <3>2
    <2>4. ASSUME NEW b \in rd.lo .. rd.j  PROVE b \in Elems(recent) \/ b \in f .. rd.j
      <3>1. CASE b = rd.j
        BY <3>1, <2>3, <1>2, <1>3 DEF Blocks
      <3>2. CASE b # rd.j /\ rd.firstne = -1
        BY <3>2, <1>1, <1>2 DEF IInv, TouchOK
      <3>3. CASE b # rd.j /\ rd.firstne # -1
        <4>1. b \in rd.lo .. rd.j - 1
          BY <3>3, <1>2
        <4>2. b \in Elems(recent) \/ b \in rd.firstne .. rd.lastne
          BY <4>1, <3>3, <1>1 DEF IInv, TouchOK
        <4>3. rd.lastne < rd.j /\ f = rd.firstne
          BY <3>3, <1>1 DEF IInv, TouchOK, f
        <4> QED  BY <4>2, <4>3, <3>3, <1>2, BufItemsType DEF IInv, Types, Blocks
      <3> QED  BY <3>1, <3>2, <3>3
    <2>5. rd'.lo <= rd'.j /\ rd'.j <= rd'.hi + 1 /\ rd'.lastne < rd'.j /\ rd'.firstne # -1
      BY <1>1, <1>2, <1>3, <1>4, BufItemsType DEF Blocks
    <2> QED  BY <2>1, <2>2, <2>3, <2>4, <2>5, <1>1, <1>4 DEF TouchOK
  <1> QED  BY <1>4, <1>5, <1>6, <1>7, <1>8 DEF IInv, FillOK, CopyOK

LEMMA TouchStepOK == ASSUME IInv, Touch  PROVE IInv'
  BY TouchCachedOK, TouchMissingOK

\* All of the fragment was looked at: the missing block is there, or it is loaded.
LEMMA TouchedOK == ASSUME IInv, Touched  PROVE IInv'
  <1>1. /\ UNCHANGED <<recent, pos, loads>> /\ rd.op = "touch" /\ rd.j > rd.hi
        /\ rd.lo \in Nat /\ rd.j \in Nat /\ rd.hi \in Int /\ rd.j = rd.hi + 1 /\ rd.i \in Fragment
    BY DEF Touched, IInv, Types, TouchOK, FragmentOK
  <1>2. CASE rd.firstne < 0
    <2>1. rd' = [rd EXCEPT !.op = "copy", !.firstNE = FALSE]
      BY <1>2 DEF Touched
    <2>2. Types'
      BY <2>1, <1>1 DEF IInv, Types
    <2>3. ReadOK'
      <3>1. rd'.op = "copy" /\ rd'.from = rd.from /\ rd'.size = rd.size /\ rd'.i = rd.i
        BY <2>1 DEF IInv, Types
      <3> QED  BY <3>1, <1>1 DEF IInv, ReadOK, First, Last
    <2>4. rd.firstne = -1
      BY <1>2, BufItemsType DEF IInv, Types, Blocks
    <2>5. rd.lo .. rd.j - 1 \subseteq Elems(recent) /\ rd.lo .. rd.j - 1 = Fragment
      BY <2>4, <1>1 DEF IInv, TouchOK, Fragment
    <2>6. CopyOK'
      BY <2>1, <2>5, <1>1 DEF CopyOK, IInv, Types
    <2> QED  BY <2>1, <2>2, <2>3, <2>6, <1>1
             DEF IInv, Types, FragmentOK, TouchOK, FillOK
  <1>3. CASE ~(rd.firstne < 0)
    <2>1. rd' = [rd EXCEPT !.op = "fill", !.j = rd.firstne]
      BY <1>3 DEF Touched
    <2>2. rd.firstne \in Nat /\ rd.firstne # -1
      BY <1>3, BufItemsType DEF IInv, Types, Blocks
    <2>3. Types'
      BY <2>1, <2>2, <1>1 DEF IInv, Types
    <2>4. /\ rd'.op = "fill" /\ rd'.from = rd.from /\ rd'.size = rd.size /\ rd'.i = rd.i
          /\ rd'.lo = rd.lo /\ rd'.hi = rd.hi /\ rd'.j = rd.firstne /\ rd'.lastne = rd.lastne
      BY <2>1 DEF IInv, Types
    <2>5. ReadOK'
      BY <2>4, <1>1 DEF IInv, ReadOK, First, Last
    <2>6. FragmentOK'
      BY <2>4, <1>1 DEF IInv, FragmentOK, Fragment
    <2>7. rd.lo .. rd.j - 1 = Fragment /\ rd'.lo .. rd'.hi = Fragment
      BY <1>1, <2>4 DEF Fragment
    <2>8. /\ rd.lo <= rd.firstne /\ rd.firstne <= rd.lastne /\ rd.lastne < rd.j
          /\ InFront(recent, Fragment)
          /\ \A b \in Fragment : b \in Elems(recent) \/ b \in rd.firstne .. rd.lastne
      BY <2>2, <2>7, <1>1 DEF IInv, TouchOK
    <2>9. rd.lastne \in Int /\ rd.lastne + 1 >= rd.firstne /\ rd.lastne <= rd.hi
      BY <1>1, <2>2, <2>8, BufItemsType DEF IInv, Types, Blocks
    <2>10. FillOK'
      BY <2>4, <2>7, <2>8, <2>9, <1>1 DEF FillOK, Fragment
    <2> QED  BY <2>3, <2>4, <2>5, <2>6, <2>10 DEF IInv, TouchOK, CopyOK
  <1> QED  BY <1>2, <1>3

\* A block is put first or loaded. Neither takes one of the fragment away.
LEMMA FillKeeps ==
    ASSUME IInv, Fill
    PROVE  /\ rd.j \in Fragment
           /\ recent' \in Seq(Blocks) /\ Len(recent') <= BufSize /\ Distinct(recent')
           /\ InFront(recent', Fragment) /\ rd.j \in Elems(recent')
           /\ \A b \in Fragment : b \in Elems(recent) => b \in Elems(recent')
           /\ loads' \in SUBSET Blocks
  <1>1. /\ rd.op = "fill" /\ rd.j <= rd.lastne
    BY DEF Fill
  <1>2. /\ rd.lo \in Nat /\ rd.j \in Nat /\ rd.hi \in Int /\ rd.lastne \in Int
        /\ rd.lo <= rd.j /\ rd.lastne <= rd.hi /\ rd.hi < BufItems /\ rd.hi - rd.lo < BufSize
        /\ BufItems \in Nat /\ BufSize \in Nat
    BY <1>1, BufItemsType, ReadCacheAssumption
       DEF IInv, Types, FillOK, FragmentOK, Blocks
  <1>3. rd.j \in Blocks /\ rd.j \in Fragment /\ rd.hi \in Nat /\ rd.lo <= rd.hi
    BY <1>1, <1>2 DEF Blocks, Fragment
  <1>4. /\ InFront(recent, Fragment)
        /\ \A b \in Fragment : b \in Elems(recent) \/ b \in rd.j .. rd.lastne
        /\ recent \in Seq(Blocks) /\ Distinct(recent) /\ Len(recent) <= BufSize
    BY <1>1 DEF IInv, Types, FillOK
  <1>5. CASE rd.j \in Cached
    <2>1. recent' = MoveToTop(recent, rd.j) /\ loads' = loads
      BY <1>5 DEF Fill
    <2>2. /\ recent' \in Seq(Blocks) /\ Len(recent') = Len(recent) /\ Distinct(recent')
          /\ Elems(recent') = Elems(recent)
          /\ \A S : rd.j \in S /\ (InFront(recent, S) \/ InFront(recent, S \ {rd.j}))
                       => InFront(recent', S)
      BY <2>1, <1>5, <1>4, CachedIsElems, MoveToTopKeeps
    <2> QED  BY <2>1, <2>2, <1>5, <1>3, <1>4, CachedIsElems DEF IInv, Types
  <1>6. CASE rd.j \notin Cached
    <2>1. recent' = AddOrReuseItem(recent, rd.j) /\ loads' = loads \cup {rd.j}
      BY <1>6 DEF Fill
    <2>2. rd.j \notin Elems(recent)
      BY <1>6, CachedIsElems
    <2>3. /\ recent' \in Seq(Blocks) /\ Len(recent') <= BufSize /\ Distinct(recent')
          /\ rd.j \in Elems(recent')
          /\ \A S : rd.j \in S /\ InFront(recent, S) => InFront(recent', S)
          /\ \A x \in Elems(recent) :
                Len(recent) < BufSize \/ x # recent[Len(recent)] => x \in Elems(recent')
      BY <2>1, <2>2, <1>3, <1>4, AddOrReuseItemKeeps
    <2>4. Len(recent) < BufSize \/ recent[Len(recent)] \notin Fragment
      <3>1. Len(recent) < BufSize \/ Len(recent) >= BufSize
        BY <1>2, <1>4
      <3>2. ASSUME Len(recent) >= BufSize  PROVE recent[Len(recent)] \notin rd.lo .. rd.hi
        BY <3>2, <2>2, <1>2, <1>3, <1>4, TailIsOther DEF Fragment
      <3> QED  BY <3>1, <3>2 DEF Fragment
    <2> QED  BY <2>1, <2>3, <2>4, <1>3, <1>4 DEF IInv, Types
  <1> QED  BY <1>3, <1>5, <1>6

LEMMA FillStepOK == ASSUME IInv, Fill  PROVE IInv'
  <1>1. /\ rd' = [rd EXCEPT !.j = rd.j + 1] /\ UNCHANGED pos
        /\ rd.op = "fill" /\ rd.j <= rd.lastne
    BY DEF Fill
  <1>2. /\ rd.lo \in Nat /\ rd.j \in Nat /\ rd.hi \in Int /\ rd.lastne \in Int
        /\ rd.lo <= rd.j /\ rd.lastne <= rd.hi /\ rd.hi < BufItems /\ rd.hi - rd.lo < BufSize
        /\ BufItems \in Nat /\ BufSize \in Nat
    BY <1>1, BufItemsType, ReadCacheAssumption
       DEF IInv, Types, FillOK, FragmentOK, Blocks
  <1>3. rd.j \in Blocks /\ rd.j \in Fragment /\ rd.hi \in Nat /\ rd.lo <= rd.hi
    BY <1>1, <1>2 DEF Blocks, Fragment
  <1>4. /\ rd' \in [op : {"fill"}, from : 0 .. Size, size : 0 .. Size, i : Nat,
                    firstNE : BOOLEAN, flags : SUBSET Blocks, lo : Nat, hi : Int, j : Nat,
                    firstne : Blocks \cup {-1}, lastne : Blocks \cup {-1},
                    had : SUBSET Blocks]
        /\ rd'.from = rd.from /\ rd'.size = rd.size /\ rd'.i = rd.i
        /\ rd'.lo = rd.lo /\ rd'.hi = rd.hi /\ rd'.j = rd.j + 1 /\ rd'.lastne = rd.lastne
    <2>1. rd.j + 1 \in Nat
      BY <1>2
    <2>2. rd' \in [op : {"fill"}, from : 0 .. Size, size : 0 .. Size, i : Nat,
                   firstNE : BOOLEAN, flags : SUBSET Blocks, lo : Nat, hi : Int, j : Nat,
                   firstne : Blocks \cup {-1}, lastne : Blocks \cup {-1},
                   had : SUBSET Blocks]
      BY <2>1, <1>1 DEF IInv, Types
    <2>3. /\ rd'.from = rd.from /\ rd'.size = rd.size /\ rd'.i = rd.i
          /\ rd'.lo = rd.lo /\ rd'.hi = rd.hi /\ rd'.j = rd.j + 1 /\ rd'.lastne = rd.lastne
      BY <1>1 DEF IInv, Types
    <2> QED  BY <2>2, <2>3
  <1>5. /\ InFront(recent, Fragment)
        /\ \A b \in Fragment : b \in Elems(recent) \/ b \in rd.j .. rd.lastne
        /\ recent \in Seq(Blocks) /\ Distinct(recent) /\ Len(recent) <= BufSize
    BY <1>1 DEF IInv, Types, FillOK
  <1>6. /\ recent' \in Seq(Blocks) /\ Len(recent') <= BufSize /\ Distinct(recent')
        /\ InFront(recent', Fragment) /\ rd.j \in Elems(recent')
        /\ \A b \in Fragment : b \in Elems(recent) => b \in Elems(recent')
        /\ loads' \in SUBSET Blocks
    BY FillKeeps
  <1>7. Types'
    BY <1>1, <1>4, <1>6 DEF IInv, Types
  <1>8. ReadOK'
    BY <1>1, <1>4 DEF IInv, ReadOK, First, Last
  <1>9. FragmentOK'
    BY <1>1, <1>4 DEF IInv, FragmentOK, Fragment
  <1>10. FillOK'
    <2>1. rd'.lo .. rd'.hi = Fragment
      BY <1>4 DEF Fragment
    <2>2. ASSUME NEW b \in Fragment
          PROVE  b \in Elems(recent') \/ b \in rd.j + 1 .. rd.lastne
      <3>1. CASE b = rd.j
        BY <3>1, <1>6
      <3>2. CASE b # rd.j /\ b \in Elems(recent)
        BY <3>2, <1>6
      <3>3. CASE b # rd.j /\ b \in rd.j .. rd.lastne
        BY <3>3, <1>2
      <3> QED  BY <3>1, <3>2, <3>3, <1>5
    <2>3. rd.lo <= rd.j + 1 /\ rd.j + 1 <= rd.lastne + 1
      BY <1>1, <1>2
    <2> QED  BY <2>1, <2>2, <2>3, <1>2, <1>4, <1>6 DEF FillOK, Fragment
  <1> QED  BY <1>4, <1>7, <1>8, <1>9, <1>10 DEF IInv, TouchOK, CopyOK

LEMMA FillFailsOK == ASSUME IInv, FillFails  PROVE IInv'
  <1>1. rd' = [rd EXCEPT !.op = "exited"] /\ UNCHANGED <<recent, pos, loads>>
    BY DEF FillFails
  <1>2. Types' /\ rd'.op = "exited"
    BY <1>1 DEF IInv, Types
  <1> QED  BY <1>2 DEF IInv, ReadOK, FragmentOK, TouchOK, FillOK, CopyOK

\* Behind lastne nothing is missing any more.
LEMMA FilledOK == ASSUME IInv, Filled  PROVE IInv'
  <1>1. /\ rd' = [rd EXCEPT !.op = "copy", !.firstNE = FALSE]
        /\ UNCHANGED <<recent, pos, loads>> /\ rd.op = "fill" /\ rd.j > rd.lastne
    BY DEF Filled
  <1>2. Types'
    BY <1>1 DEF IInv, Types
  <1>3. rd'.op = "copy" /\ rd'.from = rd.from /\ rd'.size = rd.size /\ rd'.i = rd.i
    BY <1>1 DEF IInv, Types
  <1>4. ReadOK'
    BY <1>1, <1>3 DEF IInv, ReadOK, First, Last
  <1>5. rd.j \in Nat /\ rd.lastne \in Int /\ rd.j .. rd.lastne = {}
    BY <1>1, BufItemsType DEF IInv, Types, Blocks
  <1>6. rd.i \in Fragment /\ (rd.i \in Elems(recent) \/ rd.i \in rd.j .. rd.lastne)
    BY <1>1 DEF IInv, FragmentOK, FillOK
  <1>7. CopyOK'
    BY <1>1, <1>3, <1>5, <1>6 DEF CopyOK
  <1> QED  BY <1>2, <1>3, <1>4, <1>7 DEF IInv, FragmentOK, TouchOK, FillOK

LEMMA CopyStepOK == ASSUME IInv, Copy  PROVE IInv'
  <1>1. rd' = [rd EXCEPT !.op = "scan", !.i = rd.i + 1] /\ UNCHANGED <<recent, pos, loads>>
    BY DEF Copy
  <1>2. Types'
    <2> DEFINE r == [rd EXCEPT !.op = "scan"]
    <2>1. rd.i \in Nat /\ rd.i + 1 \in Nat
      BY DEF IInv, Types
    <2>2. r \in [op : {"scan"}, from : 0 .. Size, size : 0 .. Size, i : Nat,
                 firstNE : BOOLEAN, flags : SUBSET Blocks, lo : Nat, hi : Int, j : Nat,
                 firstne : Blocks \cup {-1}, lastne : Blocks \cup {-1},
                 had : SUBSET Blocks]
      BY DEF IInv, Types
    <2>3. rd' = [r EXCEPT !.i = rd.i + 1]
      BY <1>1
    <2> HIDE DEF r
    <2> QED  BY <1>1, <2>1, <2>2, <2>3 DEF IInv, Types
  <1>3. rd'.op = "scan" /\ rd'.from = rd.from /\ rd'.size = rd.size /\ rd'.i = rd.i + 1
    BY <1>1 DEF IInv, Types
  <1>4. First(rd) \in Nat /\ rd.i \in Nat
    BY NeededAreBlocks DEF Copy, IInv, Types
  <1>5. ReadOK'
    BY <1>1, <1>3, <1>4 DEF Copy, IInv, ReadOK, First
  <1> QED  BY <1>2, <1>3, <1>5 DEF IInv, FragmentOK, TouchOK, FillOK, CopyOK

LEMMA ReturnOK == ASSUME IInv, Return  PROVE IInv'
  <1>1. rd' = [rd EXCEPT !.op = "idle"] /\ pos' = pos + rd.size /\ UNCHANGED <<recent, loads>>
    BY DEF Return
  <1>2. pos' \in 0 .. Size
    BY <1>1, ReadCacheAssumption DEF Return, IInv, Types, ReadOK
  <1>3. Types' /\ rd'.op = "idle"
    BY <1>1, <1>2 DEF IInv, Types
  <1> QED  BY <1>3 DEF IInv, ReadOK, FragmentOK, TouchOK, FillOK, CopyOK

LEMMA NextOK == IInv /\ [Next]_vars => IInv'
  <1> SUFFICES ASSUME IInv, [Next]_vars  PROVE IInv'
    OBVIOUS
  <1>1. CASE UNCHANGED vars
    BY <1>1 DEF vars, IInv, Types, ReadOK, FragmentOK, Fragment, TouchOK, FillOK, CopyOK,
                First, Last
  <1>2. CASE Next
    BY <1>2, SeekOK, ReadStepOK, SkipOK, PresentOK, MissingOK, TouchStepOK, TouchedOK,
       FillStepOK, FillFailsOK, FilledOK, CopyStepOK, ReturnOK DEF Next
  <1> QED  BY <1>1, <1>2

\* LVCachedStream keeps the invariant, whatever is read and wherever it seeks.
THEOREM Invariant == Spec => []IInv
  BY InitOK, NextOK, PTL DEF Spec

\* The variables of LVCachedStream have their types: no block is twice in the list, and
\* there are never more of them than m_bufSize.
THEOREM TypeCorrect == Spec => []TypeOK
  <1>1. IInv => TypeOK
    <2> SUFFICES ASSUME IInv  PROVE TypeOK
      OBVIOUS
    <2>1. \A k, m \in 1 .. Len(recent) : recent[k] = recent[m] => k = m
      BY DEF IInv, Types, Distinct
    <2> QED  BY <2>1 DEF IInv, Types, TypeOK
  <1> QED  BY <1>1, Invariant, PTL

\* Whenever Read copies a block without a look whether it is there, it is; and
\* fillFragment is never called for blocks that the stream does not have.
THEOREM CopiedIsThere == Spec => []NeverMissing
  <1>1. IInv => NeverMissing
    BY CachedIsElems DEF IInv, Types, CopyOK, NeverMissing
  <1> QED  BY <1>1, Invariant, PTL

-----------------------------------------------------------------------------
(* The bytes that are copied. *)

\* The places in the buffer that block b has the bytes for.
Here(r, b) == InBuffer(r, b) .. InBuffer(r, b) + Taken(r, b) - 1

\* The buffer that has the right bytes in the places of the blocks bs.
GotOf(from, size, bs) ==
    [k \in {x \in 0 .. size - 1 : (from + x) \div BlockSize \in bs} |-> from + k]

\* Block b is copied to the places of its bytes, and its bytes are.
LEMMA HereIs ==
    ASSUME NEW r, r.from \in Nat, r.size \in Nat \ {0}, r.from + r.size <= Size,
           NEW b \in Needed(r)
    PROVE  /\ Here(r, b) = {k \in 0 .. r.size - 1 : (r.from + k) \div BlockSize = b}
           /\ \A k \in Here(r, b) : b * BlockSize + InBlock(r, b) + k - InBuffer(r, b) = r.from + k
  <1> DEFINE K == BlockSize
             f == First(r)
             m == r.from % K
             bK == b * K
             fK == f * K
             size == r.size
             from == r.from
  <1>1. /\ K \in Nat \ {0} /\ from \in Nat /\ size \in Nat \ {0} /\ from + size <= Size
        /\ Size \in Nat
    BY ReadCacheAssumption
  <1>2. f \in Nat /\ Last(r) \in Nat /\ b \in Nat /\ f <= b
    BY <1>1, LastInStream DEF First, Last, Needed
  <1>3. from = fK + m /\ m \in 0 .. K - 1
    BY <1>1, ModIs DEF First
  <1>4. bK \in Nat /\ fK \in Nat
    BY <1>1, <1>2
  <1>5. b # f => fK + K <= bK
    <2>1. b # f => f < b
      BY <1>2
    <2> QED  BY <2>1, <1>1, <1>2, ProductMono
  <1>6. (b - f) * K = bK - fK
    BY <1>1, <1>2, ProductMinus
  <1>7. InBlock(r, b) = IF b = f THEN m ELSE 0
    BY DEF InBlock
  <1>8. InBuffer(r, b) = IF b = f THEN 0 ELSE bK - fK - m
    BY <1>6 DEF InBuffer
  <1>9. ItemSize(b) = Smaller(K, Size - bK)
    BY DEF ItemSize
  <1>10. ASSUME NEW k \in 0 .. size - 1
         PROVE  (from + k) \div K = b <=> bK <= from + k /\ from + k < bK + K
    <2> DEFINE x == from + k
    <2>1. x \in Nat
      BY <1>1
    <2> HIDE DEF x
    <2>2. x \div K = b <=> bK <= x /\ x < bK + K
      BY <2>1, <1>1, <1>2, DivIs
    <2> QED  BY <2>2 DEF x
  <1>11. /\ \A k \in Int : k \in Here(r, b) <=>
                k \in 0 .. size - 1 /\ bK <= from + k /\ from + k < bK + K
         /\ InBuffer(r, b) \in Int /\ Taken(r, b) \in Int
         /\ \A k \in Int : bK + InBlock(r, b) + k - InBuffer(r, b) = from + k
    <2> HIDE DEF K, f, m, bK, fK, size, from
    <2>1. Taken(r, b) = Smaller(ItemSize(b) - InBlock(r, b), size - InBuffer(r, b))
      BY DEF Taken, size
    <2>2. CASE b = f
      <3>1. bK = fK
        BY <2>2 DEF bK, fK
      <3>2. InBlock(r, b) = m /\ InBuffer(r, b) = 0
        BY <2>2, <1>7, <1>8
      <3>3. Taken(r, b) = Smaller(Smaller(K, Size - bK) - m, size)
        BY <1>1, <2>1, <3>2, <1>9
      <3>4. Here(r, b) = 0 .. Smaller(Smaller(K, Size - bK) - m, size) - 1
        BY <3>2, <3>3, <1>1, <1>3, <1>4 DEF Here, Smaller
      <3> QED  BY <1>1, <1>3, <1>4, <3>1, <3>2, <3>3, <3>4 DEF Smaller
    <2>3. CASE b # f
      <3>1. InBlock(r, b) = 0 /\ InBuffer(r, b) = bK - from /\ bK > from
        BY <2>3, <1>1, <1>3, <1>4, <1>5, <1>7, <1>8
      <3>2. Taken(r, b) = Smaller(Smaller(K, Size - bK), size - (bK - from))
        BY <1>1, <1>4, <2>1, <3>1, <1>9 DEF Smaller
      <3>3. Here(r, b) = bK - from ..
                bK - from + Smaller(Smaller(K, Size - bK), size - (bK - from)) - 1
        BY <3>1, <3>2 DEF Here
      <3> QED  BY <1>1, <1>4, <3>1, <3>2, <3>3 DEF Smaller
    <2> QED  BY <2>2, <2>3
  <1>12. Here(r, b) \subseteq Int
    BY <1>11 DEF Here
  <1>13. Here(r, b) = {k \in 0 .. size - 1 : (from + k) \div K = b}
    <2> HIDE DEF K, bK, size, from
    <2>1. 0 .. size - 1 \subseteq Int
      BY <1>1
    <2> QED  BY <1>10, <1>11, <1>12, <2>1
  <1> QED  BY <1>11, <1>12, <1>13

LEMMA CopiedIs ==
    ASSUME NEW r, r.from \in Nat, r.size \in Nat \ {0}, r.from + r.size <= Size,
           NEW bs, NEW b \in Needed(r)
    PROVE  Copied(r, GotOf(r.from, r.size, bs), b) = GotOf(r.from, r.size, bs \cup {b})
  <1> DEFINE P(x) == (r.from + x) \div BlockSize
             N == 0 .. r.size - 1
             g == GotOf(r.from, r.size, bs)
  <1>1. g = [k \in {x \in N : P(x) \in bs} |-> r.from + k]
    BY DEF GotOf
  <1>2. GotOf(r.from, r.size, bs \cup {b}) =
            [k \in {x \in N : P(x) \in bs \cup {b}} |-> r.from + k]
    BY DEF GotOf
  <1>3. Copied(r, g, b) = [k \in DOMAIN g \cup Here(r, b) |->
            IF k \in Here(r, b) THEN b * BlockSize + InBlock(r, b) + k - InBuffer(r, b)
            ELSE g[k]]
    BY DEF Copied, Here
  <1>4. /\ Here(r, b) = {k \in N : P(k) = b}
        /\ \A k \in Here(r, b) : b * BlockSize + InBlock(r, b) + k - InBuffer(r, b) = r.from + k
    BY HereIs
  <1> HIDE DEF P, N, g
  <1>5. DOMAIN g \cup Here(r, b) = {x \in N : P(x) \in bs \cup {b}}
    BY <1>1, <1>4
  <1>6. \A k \in DOMAIN g \cup Here(r, b) :
            (IF k \in Here(r, b) THEN b * BlockSize + InBlock(r, b) + k - InBuffer(r, b)
             ELSE g[k]) = r.from + k
    BY <1>1, <1>4
  <1> QED  BY <1>2, <1>3, <1>5, <1>6 DEF g

LEMMA CopiedCachedIs ==
    ASSUME NEW r, r.from \in Nat, r.size \in Nat \ {0}, r.from + r.size <= Size,
           NEW bs \in SUBSET Needed(r)
    PROVE  CopiedCached(r, bs) = GotOf(r.from, r.size, bs)
  <1> DEFINE P(x) == (r.from + x) \div BlockSize
             N == 0 .. r.size - 1
             D == {x \in N : P(x) \in bs}
             v(k) == LET b == CHOOSE x \in bs : k \in Here(r, x)
                     IN b * BlockSize + InBlock(r, b) + k - InBuffer(r, b)
  <1>1. GotOf(r.from, r.size, bs) = [k \in D |-> r.from + k]
    BY DEF GotOf
  <1>2. CopiedCached(r, bs) = [k \in UNION {Here(r, b) : b \in bs} |-> v(k)]
    BY DEF CopiedCached, Here
  <1>3. \A b \in bs :
            /\ Here(r, b) = {k \in N : P(k) = b}
            /\ \A k \in Here(r, b) :
                   b * BlockSize + InBlock(r, b) + k - InBuffer(r, b) = r.from + k
    BY HereIs
  <1>4. UNION {Here(r, b) : b \in bs} = D
    <2> HIDE DEF P, N
    <2> QED  BY <1>3
  <1>5. ASSUME NEW k \in D  PROVE v(k) = r.from + k
    <2> HIDE DEF P, N
    <2>1. \E b \in bs : k \in Here(r, b)
      BY <1>3
    <2> DEFINE c == CHOOSE x \in bs : k \in Here(r, x)
    <2>2. c \in bs /\ k \in Here(r, c)
      BY <2>1
    <2>3. v(k) = c * BlockSize + InBlock(r, c) + k - InBuffer(r, c)
      OBVIOUS
    <2> HIDE DEF c, v
    <2> QED  BY <2>2, <2>3, <1>3
  <1> HIDE DEF D, v
  <1> QED  BY <1>1, <1>2, <1>4, <1>5

LEMMA GotAll ==
    ASSUME NEW r, r.from \in Nat, r.size \in Nat \ {0}, r.from + r.size <= Size,
           NEW bs, Needed(r) \subseteq bs
    PROVE  GotOf(r.from, r.size, bs) = [k \in 0 .. r.size - 1 |-> r.from + k]
  <1>1. ASSUME NEW k \in 0 .. r.size - 1  PROVE (r.from + k) \div BlockSize \in bs
    <2> DEFINE x == r.from + k
               e == r.from + r.size - 1
    <2>1. /\ x \in Nat /\ e \in Nat /\ r.from <= x /\ x <= e /\ BlockSize \in Nat \ {0}
      BY ReadCacheAssumption
    <2> HIDE DEF x, e
    <2>2. r.from \div BlockSize <= x \div BlockSize /\ x \div BlockSize <= e \div BlockSize
      BY <2>1, DivMono
    <2>3. /\ x \div BlockSize \in Nat /\ e \div BlockSize \in Nat
          /\ r.from \div BlockSize \in Nat
      BY <2>1, DivBounds
    <2>4. First(r) = r.from \div BlockSize /\ Last(r) = e \div BlockSize
      BY DEF First, Last, e
    <2>5. x \div BlockSize \in Needed(r)
      BY <2>2, <2>3, <2>4 DEF Needed
    <2> QED  BY <2>5 DEF x
  <1>2. {x \in 0 .. r.size - 1 : (r.from + x) \div BlockSize \in bs} = 0 .. r.size - 1
    BY <1>1
  <1> QED  BY <1>2 DEF GotOf

\* What was copied is what the blocks behind and the flagged ones have.
GotOK ==
    /\ rd.op \in {"scan", "touch", "fill", "copy"} =>
           /\ rd.flags \subseteq Needed(rd) /\ rd.i <= Last(rd) + 1
           /\ got = GotOf(rd.from, rd.size, rd.flags \cup (First(rd) .. rd.i - 1))
    /\ ReadsFile

\* A step that leaves what was copied, the read and its block.
LEMMA GotSame ==
    ASSUME IInv, GotOK, rd.op \in {"scan", "touch", "fill", "copy"},
           rd'.op \in {"scan", "touch", "fill", "copy"}, UNCHANGED got,
           rd'.from = rd.from, rd'.size = rd.size, rd'.i = rd.i, rd'.flags = rd.flags
    PROVE  GotOK'
  <1>1. Needed(rd)' = Needed(rd) /\ First(rd)' = First(rd) /\ Last(rd)' = Last(rd)
    BY DEF Needed, First, Last
  <1>2. rd'.op # "idle"
    OBVIOUS
  <1> QED  BY <1>1, <1>2 DEF GotOK, ReadsFile

\* A step to the next block, whose bytes are there.
LEMMA GotNext ==
    ASSUME IInv, GotOK, rd.op \in {"scan", "copy"}, rd.i <= Last(rd)
    PROVE  /\ rd'.op = "scan" /\ rd'.from = rd.from /\ rd'.size = rd.size
           /\ rd'.i = rd.i + 1 /\ rd'.flags = rd.flags
           /\ got' = GotOf(rd.from, rd.size,
                           (rd.flags \cup (First(rd) .. rd.i - 1)) \cup {rd.i})
           => GotOK'
  <1>1. SUFFICES ASSUME rd'.op = "scan", rd'.from = rd.from, rd'.size = rd.size,
                        rd'.i = rd.i + 1, rd'.flags = rd.flags,
                        got' = GotOf(rd.from, rd.size,
                                   (rd.flags \cup (First(rd) .. rd.i - 1)) \cup {rd.i})
                 PROVE  GotOK'
    OBVIOUS
  <1>2. Needed(rd)' = Needed(rd) /\ First(rd)' = First(rd) /\ Last(rd)' = Last(rd)
    BY <1>1 DEF Needed, First, Last
  <1>3. /\ First(rd) \in Nat /\ Last(rd) \in Nat /\ rd.i \in Nat /\ First(rd) <= rd.i
    BY NeededAreBlocks DEF IInv, Types, ReadOK
  <1>4. (rd.flags \cup (First(rd) .. rd.i - 1)) \cup {rd.i}
            = rd.flags \cup (First(rd) .. rd.i)
    BY <1>3
  <1>5. rd'.i - 1 = rd.i /\ rd'.i <= Last(rd) + 1
    BY <1>1, <1>3
  <1>6. got' = GotOf(rd'.from, rd'.size, rd'.flags \cup (First(rd)' .. rd'.i - 1))
    BY <1>1, <1>2, <1>4, <1>5, Zenon
  <1>7. rd'.flags \subseteq Needed(rd)' /\ rd'.i <= Last(rd)' + 1
    BY <1>1, <1>2, <1>5 DEF GotOK
  <1> QED  BY <1>1, <1>6, <1>7 DEF GotOK, ReadsFile

LEMMA NothingIsRead == <<>> = [k \in 0 .. NoRead.size - 1 |-> NoRead.from + k]
  BY DEF NoRead

LEMMA GotInit == Init => GotOK
  BY NothingIsRead DEF Init, GotOK, ReadsFile, NoRead

LEMMA GotRead == ASSUME IInv, NEW n \in Counts, Read(n)  PROVE GotOK'
  <1> DEFINE size == Smaller(n, Size - pos)
             r == [NoRead EXCEPT !.op = "scan", !.from = pos, !.size = size,
                                 !.i = pos \div BlockSize, !.had = Cached]
             flags == Needed(r) \cap Cached
  <1>1. n \in Nat /\ Size \in Nat /\ pos \in Nat /\ pos <= Size /\ size \in Int /\ size <= Size - pos
    BY ReadCacheAssumption DEF IInv, Types, Smaller
  <1>2. CASE size <= 0
    <2>1. rd' = NoRead /\ got' = <<>>
      BY <1>2 DEF Read
    <2>2. NoRead.op = "idle"
      BY DEF NoRead
    <2> QED  BY <2>1, <2>2, NothingIsRead DEF GotOK, ReadsFile
  <1>3. CASE size > 0
    <2>1. rd' = [r EXCEPT !.flags = flags] /\ got' = CopiedCached(r, flags)
      BY <1>1, <1>3 DEF Read
    <2>2. r.from = pos /\ r.size = size /\ r.i = pos \div BlockSize
      BY DEF NoRead
    <2>3. rd'.from = pos /\ rd'.size = size /\ rd'.i = pos \div BlockSize /\ rd'.op = "scan"
          /\ rd'.flags = flags
      BY <2>1 DEF NoRead
    <2>4. flags \in SUBSET Needed(r)
      OBVIOUS
    <2> HIDE DEF r, flags, size
    <2>5. got' = GotOf(pos, size, flags)
      BY <1>1, <1>3, <2>1, <2>2, <2>4, CopiedCachedIs
    <2>6. Needed(rd)' = Needed(r) /\ First(rd)' = First(r) /\ Last(rd)' = Last(r)
      BY <2>2, <2>3 DEF Needed, First, Last
    <2>7. First(r) \in Nat /\ Last(r) \in Nat /\ First(r) <= Last(r) /\ rd'.i = First(r)
      <3>1. size \in Nat \ {0} /\ pos + size <= Size
        BY <1>1, <1>3
      <3>2. /\ pos \div BlockSize <= (pos + size - 1) \div BlockSize
            /\ pos \div BlockSize \in Nat /\ (pos + size - 1) \div BlockSize \in Nat
        BY <3>1, <1>1, LastInStream
      <3>3. First(r) = pos \div BlockSize /\ Last(r) = (pos + size - 1) \div BlockSize
        BY <2>2 DEF First, Last
      <3> QED  BY <3>2, <3>3, <2>3
    <2>8. flags \cup (First(r) .. First(r) - 1) = flags
      BY <2>7
    <2>9. rd'.i <= Last(r) + 1
      BY <2>7
    <2> QED  BY <2>3, <2>4, <2>5, <2>6, <2>7, <2>8, <2>9 DEF GotOK, ReadsFile
  <1> QED  BY <1>1, <1>2, <1>3

LEMMA GotSkip == ASSUME IInv, GotOK, Skip  PROVE GotOK'
  <1>1. /\ rd.op = "scan" /\ rd.i <= Last(rd) /\ rd.i \in rd.flags /\ UNCHANGED got
        /\ rd'.op = "scan" /\ rd'.from = rd.from /\ rd'.size = rd.size
        /\ rd'.i = rd.i + 1 /\ rd'.flags = rd.flags
    BY DEF Skip, IInv, Types
  <1>2. (rd.flags \cup (First(rd) .. rd.i - 1)) \cup {rd.i}
            = rd.flags \cup (First(rd) .. rd.i - 1)
    BY <1>1
  <1> QED  BY <1>1, <1>2, GotNext DEF GotOK

LEMMA GotCopy == ASSUME IInv, GotOK, Copy  PROVE GotOK'
  <1>1. /\ rd.op = "copy" /\ got' = Copied(rd, got, rd.i)
        /\ rd'.op = "scan" /\ rd'.from = rd.from /\ rd'.size = rd.size
        /\ rd'.i = rd.i + 1 /\ rd'.flags = rd.flags
    BY DEF Copy, IInv, Types
  <1>2. /\ rd.from \in Nat /\ rd.size \in Nat \ {0} /\ rd.from + rd.size <= Size
        /\ First(rd) <= rd.i /\ rd.i <= Last(rd) /\ rd.i \in Nat
    BY <1>1 DEF IInv, Types, ReadOK
  <1>3. rd.i \in Needed(rd)
    BY <1>2, <1>1, NeededAreBlocks DEF Needed
  <1> DEFINE bs == rd.flags \cup (First(rd) .. rd.i - 1)
  <1>4. got = GotOf(rd.from, rd.size, bs)
    BY <1>1 DEF GotOK
  <1> HIDE DEF bs
  <1>5. got' = GotOf(rd.from, rd.size, bs \cup {rd.i})
    <2>1. Copied(rd, GotOf(rd.from, rd.size, bs), rd.i)
              = GotOf(rd.from, rd.size, bs \cup {rd.i})
      BY <1>2, <1>3, CopiedIs, Zenon
    <2> QED  BY <2>1, <1>1, <1>4
  <1> QED  BY <1>1, <1>2, <1>5, GotNext DEF bs

LEMMA GotReturn == ASSUME IInv, GotOK, Return  PROVE GotOK'
  <1>1. /\ rd.op = "scan" /\ rd.i > Last(rd) /\ UNCHANGED got
        /\ rd'.op = "idle" /\ rd'.from = rd.from /\ rd'.size = rd.size
    BY DEF Return, IInv, Types
  <1>2. /\ rd.from \in Nat /\ rd.size \in Nat \ {0} /\ rd.from + rd.size <= Size
        /\ rd.i \in Nat /\ First(rd) \in Nat /\ Last(rd) \in Nat
    BY <1>1, NeededAreBlocks DEF IInv, Types, ReadOK
  <1>3. Needed(rd) \subseteq rd.flags \cup (First(rd) .. rd.i - 1)
    BY <1>1, <1>2 DEF Needed
  <1>4. got = [k \in 0 .. rd.size - 1 |-> rd.from + k]
    BY <1>1, <1>2, <1>3, GotAll DEF GotOK
  <1> QED  BY <1>1, <1>4 DEF GotOK, ReadsFile

LEMMA GotStep == IInv /\ GotOK /\ [Next]_vars => GotOK'
  <1> SUFFICES ASSUME IInv, GotOK, [Next]_vars  PROVE GotOK'
    OBVIOUS
  <1>1. CASE UNCHANGED vars
    BY <1>1 DEF vars, GotOK, ReadsFile, Needed, First, Last
  <1>2. ASSUME NEW p \in Positions, Seek(p)  PROVE GotOK'
    <2>1. rd' = NoRead /\ got' = <<>> /\ NoRead.op = "idle"
      BY <1>2 DEF Seek, NoRead
    <2> QED  BY <2>1, NothingIsRead DEF GotOK, ReadsFile
  <1>3. ASSUME Present \/ Missing \/ Touch \/ Touched \/ Fill \/ Filled  PROVE GotOK'
    <2>1. CASE rd'.op = "refused"
      BY <2>1, <1>3, PresentOK, MissingOK, TouchStepOK, TouchedOK, FillStepOK, FilledOK
         DEF IInv, Types
    <2>2. CASE rd'.op # "refused"
      <3>1. /\ rd.op \in {"scan", "touch", "fill", "copy"} /\ UNCHANGED got
            /\ rd'.from = rd.from /\ rd'.size = rd.size /\ rd'.i = rd.i
            /\ rd'.flags = rd.flags
        <4> DEFINE Same == /\ rd.op \in {"scan", "touch", "fill", "copy"} /\ UNCHANGED got
                           /\ rd'.from = rd.from /\ rd'.size = rd.size /\ rd'.i = rd.i
                           /\ rd'.flags = rd.flags
        <4>1. Types
          BY DEF IInv
        <4>2. CASE Present
          BY <4>1, <4>2 DEF Types, Present
        <4>3. CASE Missing
          BY <4>1, <4>3 DEF Types, Missing
        <4>4. CASE Touch
          BY <4>1, <4>4 DEF Types, Touch
        <4>5. CASE Touched
          BY <4>1, <4>5 DEF Types, Touched
        <4>6. CASE Fill
          BY <4>1, <4>6 DEF Types, Fill
        <4>7. CASE Filled
          BY <4>1, <4>7 DEF Types, Filled
        <4> QED  BY <1>3, <4>2, <4>3, <4>4, <4>5, <4>6, <4>7
      <3>2. rd'.op \in {"scan", "touch", "fill", "copy"}
        BY <1>3, <2>2 DEF IInv, Types, Present, Missing, Touch, Touched, Fill, Filled
      <3> QED  BY <3>1, <3>2, GotSame
    <2> QED  BY <2>1, <2>2
  <1>4. ASSUME FillFails  PROVE GotOK'
    <2>1. rd'.op = "exited"
      BY <1>4 DEF FillFails, IInv, Types
    <2> QED  BY <2>1 DEF GotOK, ReadsFile
  <1> QED  BY <1>1, <1>2, <1>3, <1>4, GotRead, GotSkip, GotCopy, GotReturn DEF Next

\* When Read returns, the buffer has the bytes of the stream from where it was positioned,
\* all that were asked for up to the end of the stream, whichever blocks were in the cache
\* and whichever it loaded and evicted.
THEOREM ReturnsFile == Spec => []ReadsFile
  <1>1. Init => IInv /\ GotOK
    BY InitOK, GotInit
  <1>2. IInv /\ GotOK /\ [Next]_vars => (IInv /\ GotOK)'
    BY NextOK, GotStep
  <1>3. GotOK => ReadsFile
    BY DEF GotOK
  <1> QED  BY <1>1, <1>2, <1>3, PTL DEF Spec

-----------------------------------------------------------------------------
(* The blocks that are loaded. *)

Fits == rd.size > 0 /\ Last(rd) - First(rd) < BufSize

\* The first fragment of a read that fits into the cache goes up to its end, so there is no
\* second one. Until it is filled, nothing that was there has gone; while it is filled,
\* nothing of the fragment has; and then all blocks that are still to be copied are there.
OneFragment ==
    Fits /\ rd.op \in {"scan", "touch", "fill", "copy"} =>
        /\ rd.op \in {"touch", "fill"} => rd.firstNE /\ rd.hi = Last(rd)
        /\ rd.firstNE /\ rd.op # "fill" => rd.had \subseteq Elems(recent)
        /\ rd.op = "fill" => rd.had \cap Fragment \subseteq Elems(recent)
        /\ ~rd.firstNE => rd.i .. Last(rd) \subseteq Elems(recent)

LInv == OneFragment /\ LoadsOnlyMissing

LEMMA LoadsInit == Init => LInv
  <1>1. NoRead.op = "idle"
    BY DEF NoRead
  <1> QED  BY <1>1 DEF Init, LInv, OneFragment, LoadsOnlyMissing

LEMMA LoadsRead == ASSUME IInv, NEW n \in Counts, Read(n)  PROVE LInv'
  <1>1. loads' = {} /\ UNCHANGED recent
    BY DEF Read
  <1>2. rd' = NoRead \/ (rd'.op = "scan" /\ rd'.firstNE = TRUE /\ rd'.had = Cached)
    BY DEF Read, NoRead
  <1>3. NoRead.op = "idle"
    BY DEF NoRead
  <1> QED  BY <1>1, <1>2, <1>3, CachedIsElems DEF LInv, OneFragment, LoadsOnlyMissing

\* A step from a block to the next one, or to its copy.
LEMMA LoadsScan == ASSUME IInv, LInv, Skip \/ Present \/ Copy  PROVE LInv'
  <1>1. /\ UNCHANGED <<recent, loads>> /\ rd.op \in {"scan", "copy"} /\ rd'.op \in {"scan", "copy"}
        /\ rd'.from = rd.from /\ rd'.size = rd.size /\ rd'.had = rd.had
        /\ rd'.firstNE = rd.firstNE /\ rd.i \in Nat /\ rd'.i \in {rd.i, rd.i + 1}
    BY DEF Skip, Present, Copy, IInv, Types
  <1>2. First(rd)' = First(rd) /\ Last(rd)' = Last(rd) /\ Fits' = Fits
    BY <1>1 DEF First, Last, Fits
  <1>3. Last(rd) \in Nat
    BY <1>1, NeededAreBlocks
  <1>4. rd'.i .. Last(rd) \subseteq rd.i .. Last(rd)
    BY <1>1, <1>3
  <1>5. OneFragment'
    BY <1>1, <1>2, <1>4 DEF LInv, OneFragment
  <1>6. LoadsOnlyMissing'
    BY <1>1, <1>2 DEF LInv, LoadsOnlyMissing
  <1> QED  BY <1>5, <1>6 DEF LInv

LEMMA LoadsMissing == ASSUME IInv, LInv, Missing  PROVE LInv'
  <1>1. /\ UNCHANGED <<recent, loads>> /\ rd.op = "scan" /\ rd'.op \in {"touch", "refused"}
        /\ rd'.from = rd.from /\ rd'.size = rd.size /\ rd'.had = rd.had
        /\ rd'.firstNE = rd.firstNE /\ rd'.hi = FillEnd(rd)
    BY DEF Missing, IInv, Types
  <1>2. First(rd)' = First(rd) /\ Last(rd)' = Last(rd) /\ Fits' = Fits
    BY <1>1 DEF First, Last, Fits
  <1>3. /\ First(rd) \in Nat /\ Last(rd) \in Nat /\ rd.i \in Nat /\ rd.firstNE \in BOOLEAN
        /\ First(rd) <= rd.i /\ rd.i <= Last(rd) /\ BufSize \in Nat
    BY <1>1, NeededAreBlocks, ReadCacheAssumption DEF Missing, IInv, Types, ReadOK
  <1>4. ASSUME Fits  PROVE rd.firstNE /\ FillEnd(rd) = Last(rd)
    <2>1. rd.i \in rd.i .. Last(rd) /\ rd.i \notin Elems(recent)
      BY <1>3, CachedIsElems DEF Missing
    <2>2. rd.firstNE
      BY <2>1, <1>1, <1>3, <1>4 DEF LInv, OneFragment
    <2>3. ExtraItems(rd) = BufSize - (Last(rd) - First(rd) + 1)
      BY <1>3, <1>4 DEF Fits, ExtraItems, Larger
    <2>4. FillStart(rd) \in Nat /\ FillStart(rd) >= rd.i - (BufSize - (Last(rd) - First(rd) + 1))
      BY <2>2, <2>3, <1>3 DEF FillStart, Larger
    <2>5. FillStart(rd) + BufSize - 1 >= Last(rd)
      BY <2>4, <1>3
    <2> QED  BY <2>2, <2>4, <2>5, <1>3 DEF FillEnd, Smaller
  <1>5. OneFragment'
    BY <1>1, <1>2, <1>4 DEF LInv, OneFragment
  <1>6. LoadsOnlyMissing'
    BY <1>1, <1>2 DEF LInv, LoadsOnlyMissing
  <1> QED  BY <1>5, <1>6 DEF LInv

LEMMA LoadsTouch == ASSUME IInv, LInv, Touch  PROVE LInv'
  <1>1. /\ UNCHANGED loads /\ rd.op = "touch" /\ rd'.op = "touch"
        /\ rd'.from = rd.from /\ rd'.size = rd.size /\ rd'.had = rd.had
        /\ rd'.firstNE = rd.firstNE /\ rd'.hi = rd.hi
    BY DEF Touch, IInv, Types
  <1>2. First(rd)' = First(rd) /\ Last(rd)' = Last(rd) /\ Fits' = Fits
    BY <1>1 DEF First, Last, Fits
  <1>3. Elems(recent') = Elems(recent)
    <2>1. CASE rd.j \in Cached
      BY <2>1, CachedIsElems, MoveToTopKeeps DEF Touch, IInv, Types
    <2>2. CASE rd.j \notin Cached
      BY <2>2 DEF Touch
    <2> QED  BY <2>1, <2>2
  <1>4. OneFragment'
    BY <1>1, <1>2, <1>3 DEF LInv, OneFragment
  <1>5. LoadsOnlyMissing'
    BY <1>1, <1>2 DEF LInv, LoadsOnlyMissing
  <1> QED  BY <1>4, <1>5 DEF LInv

\* All of the fragment was looked at, or all of it is loaded.
LEMMA LoadsEnd == ASSUME IInv, LInv, Touched \/ Filled  PROVE LInv'
  <1>1. /\ UNCHANGED <<recent, loads>> /\ rd.op \in {"touch", "fill"}
        /\ rd'.op \in {"fill", "copy"}
        /\ rd'.from = rd.from /\ rd'.size = rd.size /\ rd'.had = rd.had /\ rd'.i = rd.i
        /\ rd'.lo = rd.lo /\ rd'.hi = rd.hi
        /\ rd'.op = "fill" => rd.op = "touch" /\ rd'.firstNE = rd.firstNE
        /\ rd'.op = "copy" => ~rd'.firstNE
    BY DEF Touched, Filled, IInv, Types
  <1>2. /\ First(rd)' = First(rd) /\ Last(rd)' = Last(rd) /\ Fits' = Fits
        /\ Fragment' = Fragment
    BY <1>1 DEF First, Last, Fits, Fragment
  <1>3. ASSUME rd'.op = "copy", Fits  PROVE rd.i .. Last(rd) \subseteq Elems(recent)
    <2>1. rd.hi = Last(rd) /\ rd.i \in Fragment
      BY <1>1, <1>3 DEF LInv, OneFragment, IInv, FragmentOK
    <2>2. rd.lo \in Nat /\ rd.i \in Nat /\ rd.hi \in Int /\ rd.lo <= rd.i /\ rd.j \in Nat
      BY <2>1 DEF Fragment, IInv, Types
    <2>3. rd.i .. Last(rd) \subseteq Fragment
      BY <2>1, <2>2 DEF Fragment
    <2>4. CASE rd.op = "touch"
      <3>1. rd.firstne < 0 /\ rd.j > rd.hi
        BY <2>4, <1>3 DEF Touched, Filled, IInv, Types
      <3>2. rd.firstne = -1
        BY <3>1, BufItemsType DEF IInv, Types, Blocks
      <3>3. rd.lo .. rd.j - 1 \subseteq Elems(recent) /\ rd.j <= rd.hi + 1
        BY <3>2, <2>4 DEF IInv, TouchOK
      <3>4. Fragment \subseteq rd.lo .. rd.j - 1
        BY <3>1, <3>3, <2>2 DEF Fragment
      <3> QED  BY <2>3, <3>3, <3>4
    <2>5. CASE rd.op = "fill"
      <3>1. rd.j > rd.lastne
        BY <2>5 DEF Touched, Filled
      <3>2. rd.j .. rd.lastne = {}
        BY <3>1, <2>2, BufItemsType DEF IInv, Types, Blocks
      <3> QED  BY <2>3, <2>5, <3>2 DEF IInv, FillOK
    <2> QED  BY <1>1, <2>4, <2>5
  <1>4. OneFragment'
    BY <1>1, <1>2, <1>3 DEF LInv, OneFragment
  <1>5. LoadsOnlyMissing'
    BY <1>1, <1>2 DEF LInv, LoadsOnlyMissing
  <1> QED  BY <1>4, <1>5 DEF LInv

LEMMA LoadsFill == ASSUME IInv, LInv, Fill  PROVE LInv'
  <1>1. /\ rd.op = "fill" /\ rd'.op = "fill"
        /\ rd'.from = rd.from /\ rd'.size = rd.size /\ rd'.had = rd.had /\ rd'.lo = rd.lo
        /\ rd'.firstNE = rd.firstNE /\ rd'.hi = rd.hi /\ rd.firstNE \in BOOLEAN
    BY DEF Fill, IInv, Types
  <1>2. /\ First(rd)' = First(rd) /\ Last(rd)' = Last(rd) /\ Fits' = Fits
        /\ Fragment' = Fragment
    BY <1>1 DEF First, Last, Fits, Fragment
  <1>3. rd.j \in Fragment /\ \A b \in Fragment : b \in Elems(recent) => b \in Elems(recent')
    BY FillKeeps
  <1>4. OneFragment'
    BY <1>1, <1>2, <1>3 DEF LInv, OneFragment
  <1>5. LoadsOnlyMissing'
    <2>1. CASE rd.j \in Cached
      <3>1. UNCHANGED loads
        BY <2>1 DEF Fill
      <3> QED  BY <3>1, <1>1, <1>2 DEF LInv, LoadsOnlyMissing
    <2>2. CASE rd.j \notin Cached
      <3>1. loads' = loads \cup {rd.j}
        BY <2>2 DEF Fill
      <3>2. Fits => rd.j \notin rd.had
        BY <2>2, <1>1, <1>3, CachedIsElems DEF LInv, OneFragment
      <3> QED  BY <3>1, <3>2, <1>1, <1>2 DEF LInv, LoadsOnlyMissing, Fits
    <2> QED  BY <2>1, <2>2
  <1> QED  BY <1>4, <1>5 DEF LInv

\* A step to where no block is needed.
LEMMA LoadsLeave == ASSUME IInv, LInv, FillFails \/ Return  PROVE LInv'
  <1>1. /\ UNCHANGED loads /\ rd'.op \in {"exited", "idle"}
        /\ rd'.from = rd.from /\ rd'.size = rd.size /\ rd'.had = rd.had
    BY DEF FillFails, Return, IInv, Types
  <1>2. First(rd)' = First(rd) /\ Last(rd)' = Last(rd)
    BY <1>1 DEF First, Last
  <1> QED  BY <1>1, <1>2 DEF LInv, OneFragment, LoadsOnlyMissing

LEMMA LoadsStep == IInv /\ LInv /\ [Next]_vars => LInv'
  <1> SUFFICES ASSUME IInv, LInv, [Next]_vars  PROVE LInv'
    OBVIOUS
  <1>1. CASE UNCHANGED vars
    BY <1>1 DEF vars, LInv, OneFragment, LoadsOnlyMissing, Fits, Fragment, First, Last
  <1>2. ASSUME NEW p \in Positions, Seek(p)  PROVE LInv'
    <2>1. rd'.op = "idle" /\ loads' = {}
      BY <1>2 DEF Seek, NoRead
    <2> QED  BY <2>1 DEF LInv, OneFragment, LoadsOnlyMissing
  <1> QED  BY <1>1, <1>2, LoadsRead, LoadsScan, LoadsMissing, LoadsTouch, LoadsEnd,
             LoadsFill, LoadsLeave DEF Next

\* A read of no more blocks than the cache has room for loads none that was there when it
\* began: moveToTop keeps those of the fragment from being evicted.
THEOREM LoadsWhatIsMissing == Spec => []LoadsOnlyMissing
  <1>1. Init => IInv /\ LInv
    BY InitOK, LoadsInit
  <1>2. IInv /\ LInv /\ [Next]_vars => (IInv /\ LInv)'
    BY NextOK, LoadsStep
  <1>3. LInv => LoadsOnlyMissing
    BY DEF LInv
  <1> QED  BY <1>1, <1>2, <1>3, PTL DEF Spec

-----------------------------------------------------------------------------
(* BlobCache.  Where the blobs are. *)

\* A place of a list at which its name comes first.
FirstIn(s, i) == \A j \in 1 .. i - 1 : s[j] # s[i]

\* The list has the first m blobs of the book.
HasAll(s, m) == \A k \in 1 .. m : InSeq(s, Book[k])

\* The file f has the blobs at the places W of the list s that getBlob looks for.
InFile(s, f, W) ==
    Len(s) <= IndexRange =>
        \A i \in W : FirstIn(s, i) => i \in f.lost \/ f.blocks[Index(i)] = FirstPlace(Book, s[i])

Complete(f) == HasAll(f.index, Len(Book)) /\ InFile(f.index, f, DOMAIN f.index)

Items == [name : STRING, data : Int]
BlobBlocks == [0 .. IndexRange - 1 -> Int]
Files == [clean : BOOLEAN, blocks : BlobBlocks, index : Seq(STRING), lost : SUBSET Nat]

BlobTypes ==
    /\ list \in Seq(Items) /\ file \in Files
    /\ changed \in BOOLEAN /\ open \in BOOLEAN /\ saved \in BOOLEAN
    /\ phase \in {"start", "parsing", "loaded"}
    /\ parsed \in 0 .. Len(Book)

\* The places of the blobs that are in memory.
InMemory == {i \in DOMAIN list : list[i].data # Nothing}

MemoryHolds == \A i \in InMemory : FirstIn(Names, i) => list[i].data = FirstPlace(Book, Names[i])
FileHolds == InFile(Names, file, DOMAIN list \ InMemory)

Held ==
    /\ HasAll(Names, parsed)
    /\ MemoryHolds /\ FileHolds
    /\ file.clean => Complete(file)

Phases ==
    /\ phase = "start" => list = <<>> /\ ~ changed /\ ~ open /\ ~ saved /\ parsed = 0
    /\ phase = "loaded" => parsed = Len(Book)
    /\ changed => list # <<>>
    /\ ~ open => InMemory = DOMAIN list /\ (list # <<>> => changed)
    /\ open /\ ~ changed => file.index = Names /\ InMemory = {}
    /\ saved => open /\ ~ changed /\ phase = "loaded"

BlobIInv == BlobTypes /\ Held /\ Phases

-----------------------------------------------------------------------------
(* Places. *)

\* FirstPlace is the place at which the name comes first.
LEMMA FirstPlaceIs ==
    ASSUME NEW s \in Seq(STRING), NEW n, InSeq(s, n)
    PROVE  /\ FirstPlace(s, n) \in 1 .. Len(s) /\ s[FirstPlace(s, n)] = n
           /\ FirstIn(s, FirstPlace(s, n))
           /\ \A i \in 1 .. Len(s) : s[i] = n => FirstPlace(s, n) <= i
  <1> DEFINE T == {i \in DOMAIN s : s[i] = n}
  <1>1. DOMAIN s = 1 .. Len(s) /\ Len(s) \in Nat
    OBVIOUS
  <1>2. T \subseteq Nat /\ T # {}
    BY <1>1 DEF InSeq
  <1>3. PICK m \in T : \A k \in T : m <= k
    BY <1>2, Facts!SmallestIn
  <1>4. FirstPlace(s, n) \in T /\ \A k \in T : FirstPlace(s, n) <= k
    <2>1. \E x \in T : \A y \in T : x <= y
      BY <1>3
    <2> QED  BY <2>1 DEF FirstPlace, Min
  <1>5. FirstIn(s, FirstPlace(s, n))
    <2> SUFFICES ASSUME NEW j \in 1 .. FirstPlace(s, n) - 1, s[j] = n  PROVE FALSE
      BY <1>4 DEF FirstIn
    <2>1. j \in T
      BY <1>1, <1>4
    <2> QED  BY <1>1, <1>4, <2>1
  <1> QED  BY <1>1, <1>4, <1>5

LEMMA FirstPlaceUnique ==
    ASSUME NEW s \in Seq(STRING), NEW i \in 1 .. Len(s), FirstIn(s, i)
    PROVE  FirstPlace(s, s[i]) = i
  <1>1. InSeq(s, s[i])
    BY DEF InSeq
  <1> DEFINE p == FirstPlace(s, s[i])
  <1>2. p \in 1 .. Len(s) /\ s[p] = s[i] /\ p <= i
    BY <1>1, FirstPlaceIs
  <1> HIDE DEF p
  <1>3. ~(p \in 1 .. i - 1)
    BY <1>2 DEF FirstIn
  <1>4. p = i
    BY <1>2, <1>3
  <1> QED  BY <1>4 DEF p

LEMMA IndexIs ==
    ASSUME NEW i \in Nat, i >= 1
    PROVE  /\ Index(i) \in 0 .. IndexRange - 1
           /\ i <= IndexRange => Index(i) = i - 1
  BY BlobCacheAssumption DEF Index

LEMMA PlacesUpTo ==
    ASSUME NEW n \in Nat, NEW last \in 0 .. n
    PROVE  /\ \A i \in 1 .. last : i \in 1 .. n
           /\ \A i \in 1 .. n : i <= last => i \in 1 .. last
  OBVIOUS

LEMMA FunctionIsSeq ==
    ASSUME NEW S, NEW n \in Nat, NEW f \in [1 .. n -> S]
    PROVE  f \in Seq(S) /\ Len(f) = n /\ DOMAIN f = 1 .. n
  OBVIOUS

LEMMA NamesAre ==
    ASSUME NEW l \in Seq(Items)
    PROVE  /\ [i \in DOMAIN l |-> l[i].name] \in Seq(STRING)
           /\ Len([i \in DOMAIN l |-> l[i].name]) = Len(l)
           /\ \A i \in 1 .. Len(l) : [k \in DOMAIN l |-> l[k].name][i] = l[i].name
           /\ DOMAIN l = 1 .. Len(l) /\ Len(l) \in Nat
           /\ \A i \in 1 .. Len(l) : l[i] \in Items
  <1> DEFINE N == [i \in DOMAIN l |-> l[i].name]
             n == Len(l)
  <1>1. DOMAIN l = 1 .. n /\ n \in Nat /\ \A i \in 1 .. n : l[i] \in Items
    OBVIOUS
  <1>2. N \in [1 .. n -> STRING] /\ \A i \in 1 .. n : N[i] = l[i].name
    BY <1>1 DEF Items
  <1> HIDE DEF N, n
  <1>3. N \in Seq(STRING) /\ Len(N) = n
    BY <1>1, <1>2, FunctionIsSeq
  <1> QED  BY <1>1, <1>2, <1>3 DEF N, n

\* A bounded set of numbers has a largest one.
LEMMA LargestIn ==
    ASSUME NEW n \in Nat, NEW T, T \subseteq 1 .. n, T # {}
    PROVE  Max(T) \in T /\ \A k \in T : k <= Max(T)
  <1> DEFINE U == {n - k : k \in T}
  <1>1. U \subseteq Nat /\ U # {}
    <2>1. ASSUME NEW u \in U  PROVE u \in Nat
      <3>1. PICK k \in T : u = n - k
        OBVIOUS
      <3>2. k \in 1 .. n
        OBVIOUS
      <3> QED  BY <3>1, <3>2
    <2> QED  BY <2>1
  <1>2. PICK m \in U : \A k \in U : m <= k
    BY <1>1, Facts!SmallestIn
  <1>3. PICK x \in T : m = n - x
    BY <1>2
  <1>4. \A k \in T : k <= x
    <2> SUFFICES ASSUME NEW k \in T  PROVE k <= x
      OBVIOUS
    <2>1. n - k \in U
      OBVIOUS
    <2>2. n - x <= n - k
      BY <1>2, <1>3, <2>1
    <2> QED  BY <2>2
  <1>5. \E y \in T : \A k \in T : y >= k
    BY <1>4
  <1>6. Max(T) \in T /\ \A k \in T : Max(T) >= k
    BY <1>5 DEF Max
  <1>7. \A k \in T : k \in Int
    OBVIOUS
  <1> QED  BY <1>6, <1>7

-----------------------------------------------------------------------------
(* saveToCache. *)

LEMMA WriteKeeps ==
    ASSUME BlobTypes, NEW f \in Files, NEW W \in SUBSET InMemory, NEW bad
    PROVE  /\ Write(f, W, bad) \in Files
           /\ Write(f, W, bad).index = f.index /\ Write(f, W, bad).lost = f.lost
           /\ Write(f, W, bad).clean => f.clean /\ Write(f, W, bad).blocks = f.blocks
           /\ Len(list) <= IndexRange =>
                 \A i \in 1 .. Len(list) :
                    Write(f, W, bad).blocks[Index(i)] =
                        IF i \notin W THEN f.blocks[Index(i)]
                        ELSE IF i \in bad THEN Garbage ELSE list[i].data
  <1> DEFINE At(k) == {i \in W : Index(i) = k}
             B == [k \in DOMAIN f.blocks |->
                      IF At(k) = {} THEN f.blocks[k]
                      ELSE IF Max(At(k)) \in bad THEN Garbage ELSE list[Max(At(k))].data]
             g == Write(f, W, bad)
  <1>1. /\ list \in Seq(Items) /\ DOMAIN list = 1 .. Len(list) /\ Len(list) \in Nat
        /\ \A i \in 1 .. Len(list) : list[i].data \in Int
    BY NamesAre DEF BlobTypes, Items
  <1>2. W \subseteq 1 .. Len(list)
    BY <1>1 DEF InMemory
  <1>3. /\ f.clean \in BOOLEAN /\ f.blocks \in [0 .. IndexRange - 1 -> Int]
        /\ f.index \in Seq(STRING) /\ f.lost \in SUBSET Nat
    BY DEF Files, BlobBlocks
  <1>4. g = [f EXCEPT !.blocks = B, !.clean = @ /\ B = f.blocks]
    BY DEF Write
  <1>5. B \in [0 .. IndexRange - 1 -> Int]
    <2> SUFFICES ASSUME NEW k \in 0 .. IndexRange - 1
                 PROVE  (IF At(k) = {} THEN f.blocks[k]
                         ELSE IF Max(At(k)) \in bad THEN Garbage ELSE list[Max(At(k))].data) \in Int
      BY <1>3
    <2>1. CASE At(k) = {}
      BY <1>3, <2>1
    <2>2. CASE At(k) # {}
      <3>1. Max(At(k)) \in At(k)
        BY <1>1, <1>2, <2>2, LargestIn
      <3>2. Max(At(k)) \in 1 .. Len(list)
        BY <1>2, <3>1
      <3> QED  BY <1>1, <2>2, <3>2 DEF Garbage
    <2> QED  BY <2>1, <2>2
  <1>6. ASSUME Len(list) <= IndexRange, NEW i \in 1 .. Len(list)
        PROVE  B[Index(i)] = IF i \notin W THEN f.blocks[Index(i)]
                             ELSE IF i \in bad THEN Garbage ELSE list[i].data
    <2>1. Index(i) \in 0 .. IndexRange - 1
      BY IndexIs
    <2>2. \A j \in W : Index(j) = Index(i) => j = i
      <3> SUFFICES ASSUME NEW j \in 1 .. Len(list), Index(j) = Index(i)  PROVE j = i
        BY <1>2
      <3>1. i \in Nat /\ j \in Nat /\ i >= 1 /\ j >= 1 /\ i <= IndexRange /\ j <= IndexRange
        BY <1>1, <1>6, BlobCacheAssumption
      <3>2. j - 1 = i - 1
        BY <3>1, IndexIs
      <3> QED  BY <3>1, <3>2
    <2>3. CASE i \notin W
      <3>1. At(Index(i)) = {}
        BY <2>2, <2>3
      <3> QED  BY <1>3, <2>1, <2>3, <3>1
    <2>4. CASE i \in W
      <3>1. At(Index(i)) = {i}
        BY <2>2, <2>4
      <3>2. Max({i}) = i
        BY DEF Max
      <3>3. B[Index(i)] = IF Max(At(Index(i))) \in bad THEN Garbage ELSE list[Max(At(Index(i)))].data
        BY <1>3, <2>1, <3>1
      <3> QED  BY <2>4, <3>1, <3>2, <3>3
    <2> QED  BY <2>3, <2>4
  <1> HIDE DEF B, g
  <1>7. /\ g \in Files /\ g.index = f.index /\ g.lost = f.lost /\ g.blocks = B
        /\ g.clean => f.clean /\ g.blocks = f.blocks
    BY <1>3, <1>4, <1>5 DEF Files, BlobBlocks
  <1> QED  BY <1>6, <1>7 DEF g

LEMMA EmptiedKeeps ==
    ASSUME BlobTypes, NEW W, NEW bad
    PROVE  /\ Emptied(W, bad) \in Seq(Items) /\ Len(Emptied(W, bad)) = Len(list)
           /\ DOMAIN Emptied(W, bad) = DOMAIN list
           /\ \A i \in DOMAIN list :
                 /\ Emptied(W, bad)[i].name = list[i].name
                 /\ Emptied(W, bad)[i].data =
                       IF i \in W /\ \A j \in bad : j > i THEN Nothing ELSE list[i].data
  <1> DEFINE n == Len(list)
             E == Emptied(W, bad)
  <1>1. DOMAIN list = 1 .. n /\ n \in Nat /\ \A i \in 1 .. n : list[i] \in Items
    BY NamesAre DEF BlobTypes
  <1>2. \A i \in 1 .. n :
            E[i] = IF i \in W /\ \A j \in bad : j > i THEN Item(list[i].name, Nothing) ELSE list[i]
    BY <1>1 DEF Emptied
  <1>3. \A i \in 1 .. n : Item(list[i].name, Nothing) \in Items
    BY <1>1 DEF Item, Items, Nothing
  <1>4. E \in [1 .. n -> Items]
    <2>1. E = [i \in 1 .. n |-> IF i \in W /\ \A j \in bad : j > i
                                THEN Item(list[i].name, Nothing) ELSE list[i]]
      BY <1>1 DEF Emptied
    <2> HIDE DEF E
    <2> QED  BY <1>1, <1>3, <2>1
  <1> HIDE DEF E, n
  <1>5. E \in Seq(Items) /\ Len(E) = n /\ DOMAIN E = 1 .. n
    BY <1>1, <1>4, FunctionIsSeq
  <1>6. ASSUME NEW i \in 1 .. n
        PROVE  /\ E[i].name = list[i].name
               /\ E[i].data = IF i \in W /\ \A j \in bad : j > i THEN Nothing ELSE list[i].data
    <2>1. CASE i \in W /\ \A j \in bad : j > i
      <3>1. E[i] = Item(list[i].name, Nothing)
        BY <1>2, <2>1, Zenon
      <3> QED  BY <2>1, <3>1 DEF Item
    <2>2. CASE ~(i \in W /\ \A j \in bad : j > i)
      <3>1. E[i] = list[i]
        BY <1>2, <2>2, Zenon
      <3> QED  BY <2>2, <3>1
    <2> QED  BY <2>1, <2>2
  <1> QED  BY <1>1, <1>5, <1>6 DEF E, n

\* What saveToCache does when the file f holds the rest of the blobs.
LEMMA SaveToCacheKeeps ==
    ASSUME BlobTypes, MemoryHolds, NEW f \in Files, InFile(Names, f, DOMAIN list \ InMemory),
           f.clean => Complete(f),
           NEW last \in 0 .. Len(list), NEW expires \in BOOLEAN, NEW bad, NEW listed \in BOOLEAN,
           ~ expires => last = Len(list), SaveToCache(f, last, expires, bad, listed)
    PROVE  /\ list' \in Seq(Items) /\ file' \in Files /\ changed' \in BOOLEAN
           /\ Names' = Names /\ Len(list') = Len(list)
           /\ MemoryHolds' /\ FileHolds'
           /\ file'.clean => Complete(file')
           /\ ~ changed' => file'.index = Names' /\ InMemory' = {}
  <1> DEFINE W == {i \in 1 .. last : list[i].data # Nothing}
             g == Write(f, W, bad)
             n == Len(list)
  <1>1. /\ n \in Nat /\ DOMAIN list = 1 .. n /\ Names \in Seq(STRING) /\ Len(Names) = n
        /\ \A i \in 1 .. n : Names[i] = list[i].name
        /\ list \in Seq(Items)
    BY NamesAre DEF BlobTypes, Names
  <1>2. W \in SUBSET InMemory /\ \A i \in InMemory : i <= last => i \in W
    <2>1. \A i \in 1 .. last : i \in 1 .. Len(list)
      BY <1>1, PlacesUpTo, Zenon
    <2>2. \A i \in 1 .. Len(list) : i <= last => i \in 1 .. last
      BY <1>1, PlacesUpTo, Zenon
    <2> QED  BY <1>1, <2>1, <2>2 DEF InMemory
  <1>3. /\ list' = Emptied(W, bad)
        /\ file' = IF expires THEN g
                   ELSE [g EXCEPT !.index = IF listed THEN Names ELSE <<>>,
                                  !.clean = @ /\ listed /\ f.index = Names]
        /\ changed' = (expires \/ bad # {} \/ ~ listed)
        /\ bad \subseteq W
    BY DEF SaveToCache
  <1>4. /\ g \in Files /\ g.index = f.index /\ g.lost = f.lost
        /\ g.clean => f.clean /\ g.blocks = f.blocks
        /\ n <= IndexRange =>
              \A i \in 1 .. n : g.blocks[Index(i)] = IF i \notin W THEN f.blocks[Index(i)]
                                                     ELSE IF i \in bad THEN Garbage ELSE list[i].data
    BY <1>2, WriteKeeps
  <1>5. /\ list' \in Seq(Items) /\ Len(list') = n /\ DOMAIN list' = 1 .. n
        /\ \A i \in 1 .. n :
              /\ list'[i].name = list[i].name
              /\ list'[i].data = IF i \in W /\ \A j \in bad : j > i THEN Nothing ELSE list[i].data
    BY <1>1, <1>3, EmptiedKeeps
  <1> HIDE DEF W, g, n
  <1>6. Names' = Names
    BY <1>1, <1>5 DEF Names
  <1>7. /\ file' \in Files /\ file'.blocks = g.blocks /\ file'.lost = f.lost
        /\ file'.clean => g.clean /\ file'.index = f.index
        /\ ~ expires /\ listed => file'.index = Names
    <2>1. CASE expires
      BY <1>3, <1>4, <2>1
    <2>2. CASE ~ expires
      <3> DEFINE I == IF listed THEN Names ELSE <<>>
      <3>1. I \in Seq(STRING)
        <4>1. CASE listed
          BY <1>1, <4>1
        <4>2. CASE ~ listed
          BY <4>2
        <4> QED  BY <4>1, <4>2
      <3>2. file' = [g EXCEPT !.index = I, !.clean = @ /\ listed /\ f.index = Names]
        BY <1>3, <2>2
      <3>3. listed => I = Names
        OBVIOUS
      <3> HIDE DEF I
      <3>4. /\ file' \in Files /\ file'.blocks = g.blocks /\ file'.lost = g.lost
            /\ file'.index = I /\ file'.clean = (g.clean /\ listed /\ f.index = Names)
        BY <1>4, <3>1, <3>2 DEF Files
      <3> QED  BY <1>4, <2>2, <3>3, <3>4
    <2> QED  BY <2>1, <2>2
  <1>8. changed' \in BOOLEAN
    BY <1>3
  <1>9. InMemory' = {i \in InMemory : ~(i \in W /\ \A j \in bad : j > i)}
    BY <1>1, <1>5 DEF InMemory
  <1>10. MemoryHolds'
    <2> SUFFICES ASSUME NEW i \in InMemory', FirstIn(Names', i)
                 PROVE  list'[i].data = FirstPlace(Book, Names'[i])
      BY DEF MemoryHolds
    <2>1. i \in InMemory /\ i \in 1 .. n /\ ~(i \in W /\ \A j \in bad : j > i)
      BY <1>1, <1>9 DEF InMemory
    <2>2. list'[i].data = list[i].data
      BY <1>5, <2>1
    <2> QED  BY <1>6, <2>1, <2>2 DEF MemoryHolds
  <1>11. FileHolds'
    <2> SUFFICES ASSUME n <= IndexRange, NEW i \in (1 .. n) \ InMemory', FirstIn(Names, i)
                 PROVE  i \in file'.lost \/ file'.blocks[Index(i)] = FirstPlace(Book, Names[i])
      BY <1>1, <1>5, <1>6 DEF FileHolds, InFile
    <2>1. CASE i \in W
      <3>1. i \in InMemory /\ \A j \in bad : j > i
        BY <1>2, <1>9, <2>1
      <3>2. i \notin bad
        BY <3>1
      <3>3. g.blocks[Index(i)] = list[i].data
        BY <1>4, <2>1, <3>2
      <3>4. list[i].data = FirstPlace(Book, Names[i])
        BY <3>1 DEF MemoryHolds
      <3> QED  BY <1>7, <3>3, <3>4
    <2>2. CASE i \notin W
      <3>1. i \in DOMAIN list \ InMemory
        BY <1>1, <1>9, <2>2
      <3>2. i \in f.lost \/ f.blocks[Index(i)] = FirstPlace(Book, Names[i])
        BY <1>1, <3>1 DEF InFile
      <3>3. g.blocks[Index(i)] = f.blocks[Index(i)]
        BY <1>4, <2>2
      <3> QED  BY <1>7, <3>2, <3>3
    <2> QED  BY <2>1, <2>2
  <1>12. ASSUME file'.clean  PROVE Complete(file')
    <2>1. /\ f.clean /\ file'.index = f.index /\ file'.blocks = f.blocks /\ file'.lost = f.lost
      BY <1>4, <1>7, <1>12
    <2> QED  BY <2>1 DEF Complete, InFile
  <1>13. ASSUME ~ changed'  PROVE file'.index = Names' /\ InMemory' = {}
    <2>1. ~ expires /\ bad = {} /\ listed /\ last = n
      BY <1>3, <1>13 DEF n
    <2>2. \A i \in InMemory : i \in W
      BY <1>1, <1>2, <2>1 DEF InMemory
    <2> QED  BY <1>6, <1>7, <1>9, <2>1, <2>2
  <1> QED  BY <1>5, <1>6, <1>7, <1>8, <1>10, <1>11, <1>12, <1>13 DEF n

-----------------------------------------------------------------------------
(* The invariant. *)

LEMMA BookIs == Book \in Seq(STRING) /\ DOMAIN Book = 1 .. Len(Book) /\ Len(Book) \in Nat
  BY BlobCacheAssumption

LEMMA EmptyFileIs ==
    EmptyFile \in Files /\ ~ EmptyFile.clean /\ EmptyFile.index = <<>>
  <1>1. [k \in 0 .. IndexRange - 1 |-> Nothing] \in BlobBlocks
    BY DEF BlobBlocks, Nothing
  <1> DEFINE B == [k \in 0 .. IndexRange - 1 |-> Nothing]
  <1> HIDE DEF B
  <1>2. [clean |-> FALSE, blocks |-> B, index |-> <<>>, lost |-> {}] \in Files
    BY <1>1 DEF Files, B
  <1> QED  BY <1>2 DEF EmptyFile, B

LEMMA NamesOfList ==
    ASSUME BlobTypes
    PROVE  /\ Names \in Seq(STRING) /\ Len(Names) = Len(list) /\ Len(list) \in Nat
           /\ DOMAIN list = 1 .. Len(list) /\ DOMAIN Names = 1 .. Len(list)
           /\ \A i \in 1 .. Len(list) : Names[i] = list[i].name /\ list[i] \in Items
  BY NamesAre DEF BlobTypes, Names

LEMMA BlobInitOK == BlobInit => BlobIInv
  <1> SUFFICES ASSUME BlobInit  PROVE BlobIInv
    OBVIOUS
  <1>1. /\ list = <<>> /\ changed = FALSE /\ open = FALSE
        /\ phase = "start" /\ parsed = 0 /\ saved = FALSE /\ file = EmptyFile
    BY DEF BlobInit
  <1>2. BlobTypes
    <2>1. <<>> \in Seq(Items) /\ 0 \in 0 .. Len(Book)
      BY BookIs
    <2> QED  BY <1>1, <2>1, EmptyFileIs DEF BlobTypes
  <1>3. InMemory = {} /\ DOMAIN list = {}
    BY <1>1 DEF InMemory
  <1>4. Held
    BY <1>1, <1>3, EmptyFileIs DEF Held, HasAll, MemoryHolds, FileHolds, InFile
  <1> QED  BY <1>1, <1>2, <1>3, <1>4 DEF BlobIInv, Phases

\* The list that loadIndex makes of a file.
LEMMA Loaded ==
    ASSUME NEW f \in Files, list' = LoadIndex(f)
    PROVE  list' \in Seq(Items) /\ Names' = f.index /\ InMemory' = {} /\ DOMAIN list' = DOMAIN f.index
  <1> DEFINE n == Len(f.index)
  <1>1. f.index \in Seq(STRING) /\ DOMAIN f.index = 1 .. n /\ n \in Nat
        /\ \A i \in 1 .. n : f.index[i] \in STRING
    BY DEF Files
  <1>2. list' = [i \in 1 .. n |-> Item(f.index[i], Nothing)]
    BY <1>1 DEF LoadIndex
  <1>3. \A i \in 1 .. n : /\ Item(f.index[i], Nothing) \in Items
                          /\ Item(f.index[i], Nothing).name = f.index[i]
                          /\ Item(f.index[i], Nothing).data = Nothing
    BY <1>1 DEF Item, Items, Nothing
  <1> HIDE DEF n
  <1>4. list' \in [1 .. n -> Items] /\ \A i \in 1 .. n : list'[i] = Item(f.index[i], Nothing)
    BY <1>2, <1>3
  <1>5. list' \in Seq(Items) /\ DOMAIN list' = 1 .. n
    BY <1>1, <1>4, FunctionIsSeq
  <1>6. Names' = [i \in 1 .. n |-> f.index[i]]
    BY <1>3, <1>4, <1>5 DEF Names
  <1>7. Names' = f.index
    BY <1>1, <1>6
  <1>8. InMemory' = {}
    BY <1>3, <1>4, <1>5 DEF InMemory
  <1> QED  BY <1>1, <1>5, <1>7, <1>8

LEMMA OpenFromCacheOK ==
    ASSUME BlobIInv, NEW loaded \in BOOLEAN, OpenFromCache(loaded)
    PROVE  BlobIInv'
  <1>1. /\ phase = "start" /\ file.clean /\ open' = TRUE /\ list' = LoadIndex(file)
        /\ phase' = IF loaded THEN "loaded" ELSE "parsing"
        /\ parsed' = IF loaded THEN Len(Book) ELSE 0
        /\ UNCHANGED <<changed, saved, file>>
    BY DEF OpenFromCache
  <1>2. BlobTypes /\ Held /\ Phases /\ file \in Files /\ Complete(file)
    BY <1>1 DEF BlobIInv, Held, BlobTypes
  <1>3. list' \in Seq(Items) /\ Names' = file.index /\ InMemory' = {}
        /\ DOMAIN list' = DOMAIN file.index
    BY <1>1, <1>2, Loaded
  <1>4. ~ changed /\ ~ saved
    BY <1>1, <1>2 DEF Phases
  <1>5. BlobTypes'
    BY <1>1, <1>2, <1>3, BookIs DEF BlobTypes
  <1>6. Held'
    <2>1. HasAll(Names', parsed')
      BY <1>1, <1>2, <1>3 DEF Complete, HasAll
    <2>2. FileHolds'
      BY <1>1, <1>2, <1>3 DEF FileHolds, Complete, InFile
    <2> QED  BY <1>1, <1>2, <1>3, <2>1, <2>2 DEF Held, MemoryHolds, HasAll, Complete, InFile
  <1>7. Phases'
    BY <1>1, <1>3, <1>4 DEF Phases
  <1> QED  BY <1>5, <1>6, <1>7 DEF BlobIInv

LEMMA CreateCacheFileOK ==
    ASSUME BlobIInv, NEW bad, NEW listed \in BOOLEAN, CreateCacheFile(bad, listed)
    PROVE  BlobIInv'
  <1>1. /\ phase # "start" /\ ~ open /\ open' = TRUE /\ saved' = FALSE
        /\ UNCHANGED <<phase, parsed>>
    BY DEF CreateCacheFile
  <1>2. BlobTypes /\ Held /\ Phases /\ HasAll(Names, parsed)
    BY DEF BlobIInv, Held
  <1>3. InMemory = DOMAIN list /\ (list # <<>> => changed)
    BY <1>1, <1>2 DEF Phases
  <1>4. CASE list = <<>>
    <2>1. file' = EmptyFile /\ UNCHANGED <<list, changed>>
      BY <1>4 DEF CreateCacheFile
    <2>2. BlobTypes'
      BY <1>1, <1>2, <2>1, EmptyFileIs DEF BlobTypes
    <2>3. Names' = Names /\ InMemory' = InMemory /\ DOMAIN list = {} /\ Names = <<>>
      BY <1>4, <2>1 DEF Names, InMemory
    <2>4. Held'
      BY <1>1, <1>2, <1>3, <2>1, <2>3, EmptyFileIs DEF Held, HasAll, MemoryHolds, FileHolds, InFile
    <2>5. Phases'
      BY <1>1, <1>2, <1>3, <1>4, <2>1, <2>3, EmptyFileIs DEF Phases
    <2> QED  BY <2>2, <2>4, <2>5 DEF BlobIInv
  <1>5. CASE list # <<>>
    <2>1. SaveToCache(EmptyFile, Len(list), FALSE, bad, listed)
      BY <1>3, <1>5 DEF CreateCacheFile
    <2>2. Len(list) \in 0 .. Len(list) /\ Len(list) \in Nat
      BY <1>2, NamesOfList
    <2>3. InFile(Names, EmptyFile, DOMAIN list \ InMemory)
      BY <1>3 DEF InFile
    <2>4. /\ list' \in Seq(Items) /\ file' \in Files /\ changed' \in BOOLEAN
          /\ Names' = Names /\ Len(list') = Len(list)
          /\ MemoryHolds' /\ FileHolds'
          /\ file'.clean => Complete(file')
          /\ ~ changed' => file'.index = Names' /\ InMemory' = {}
      BY <1>2, <2>1, <2>2, <2>3, EmptyFileIs, SaveToCacheKeeps DEF Held
    <2>5. list' # <<>>
      BY <1>2, <1>5, <2>2, <2>4, NamesOfList DEF BlobTypes
    <2>6. BlobTypes'
      BY <1>1, <1>2, <2>4 DEF BlobTypes
    <2>7. Held'
      BY <1>1, <1>2, <2>4 DEF Held, HasAll, Complete, InFile
    <2>8. Phases'
      BY <1>1, <1>2, <2>4, <2>5 DEF Phases
    <2> QED  BY <2>6, <2>7, <2>8 DEF BlobIInv
  <1> QED  BY <1>4, <1>5

LEMMA SaveBlobsOK ==
    ASSUME BlobIInv, NEW last \in 0 .. Len(list), NEW expires \in BOOLEAN, NEW bad,
           NEW listed \in BOOLEAN, SaveBlobs(last, expires, bad, listed)
    PROVE  BlobIInv'
  <1>1. phase = "loaded" /\ open /\ UNCHANGED <<open, phase, parsed>>
    BY DEF SaveBlobs
  <1>2. BlobTypes /\ Held /\ Phases /\ HasAll(Names, parsed)
    BY DEF BlobIInv, Held
  <1>3. CASE list = <<>> \/ ~ changed
    <2>1. saved' = TRUE /\ UNCHANGED <<list, changed, file>>
      BY <1>3 DEF SaveBlobs
    <2>2. Names' = Names /\ InMemory' = InMemory
      BY <2>1 DEF Names, InMemory
    <2>3. ~ changed
      BY <1>2, <1>3 DEF Phases
    <2>4. BlobTypes'
      BY <1>1, <1>2, <2>1 DEF BlobTypes
    <2>5. Held'
      BY <1>1, <1>2, <2>1, <2>2 DEF Held, HasAll, MemoryHolds, FileHolds, InFile, Complete
    <2>6. Phases'
      BY <1>1, <1>2, <2>1, <2>2, <2>3 DEF Phases
    <2> QED  BY <2>4, <2>5, <2>6 DEF BlobIInv
  <1>4. CASE ~(list = <<>> \/ ~ changed)
    <2>1. /\ SaveToCache(file, last, expires, bad, listed) /\ saved' = ~ changed'
          /\ ~ expires => last = Len(list)
      BY <1>4 DEF SaveBlobs
    <2>2. /\ list' \in Seq(Items) /\ file' \in Files /\ changed' \in BOOLEAN
          /\ Names' = Names /\ Len(list') = Len(list)
          /\ MemoryHolds' /\ FileHolds'
          /\ file'.clean => Complete(file')
          /\ ~ changed' => file'.index = Names' /\ InMemory' = {}
      <3>1. InFile(Names, file, DOMAIN list \ InMemory) /\ MemoryHolds
            /\ (file.clean => Complete(file)) /\ file \in Files
        BY <1>2 DEF Held, FileHolds, BlobTypes
      <3> QED  BY <1>2, <2>1, <3>1, SaveToCacheKeeps
    <2>3. list' # <<>>
      BY <1>2, <1>4, <2>2, NamesOfList DEF BlobTypes
    <2>4. BlobTypes'
      BY <1>1, <1>2, <2>1, <2>2 DEF BlobTypes
    <2>5. Held'
      BY <1>1, <1>2, <2>2 DEF Held, HasAll, Complete, InFile
    <2>6. Phases'
      BY <1>1, <1>2, <2>1, <2>2, <2>3 DEF Phases
    <2> QED  BY <2>4, <2>5, <2>6 DEF BlobIInv
  <1> QED  BY <1>3, <1>4

\* The first m + 1 blobs of the book: the last one comes first, or its name is among the others.
LEMMA NextOfBook ==
    ASSUME NEW m \in Nat, m < Len(Book), \A k \in 1 .. m : Book[k] # Book[m + 1]
    PROVE  FirstPlace(Book, Book[m + 1]) = m + 1
  <1>1. m + 1 \in 1 .. Len(Book) /\ (m + 1) - 1 = m
    BY BookIs
  <1>2. FirstIn(Book, m + 1)
    BY <1>1 DEF FirstIn
  <1> QED  BY <1>1, <1>2, BookIs, FirstPlaceUnique

LEMMA AddBlobOK ==
    ASSUME BlobIInv, NEW fails \in BOOLEAN, AddBlob(fails)
    PROVE  BlobIInv'
  <1> DEFINE n == Len(list)
             b == parsed + 1
             block == IF fails THEN Garbage ELSE b
             it == Item(Book[b], IF open THEN Nothing ELSE b)
  <1>1. /\ phase = "parsing" /\ parsed < Len(Book) /\ (fails => open)
        /\ list' = Append(list, it)
        /\ file' = IF ~ open THEN file
                   ELSE [file EXCEPT !.blocks[Index(n + 1)] = block,
                                     !.clean = @ /\ file.blocks[Index(n + 1)] = block,
                                     !.lost = IF fails THEN @ \cup {n + 1} ELSE @]
        /\ parsed' = b /\ changed' = TRUE /\ saved' = FALSE /\ UNCHANGED <<open, phase>>
    BY DEF AddBlob, Marked
  <1>2. BlobTypes /\ Held /\ Phases
    BY DEF BlobIInv
  <1>3. /\ Names \in Seq(STRING) /\ Len(Names) = n /\ n \in Nat
        /\ DOMAIN list = 1 .. n /\ DOMAIN Names = 1 .. n
        /\ \A i \in 1 .. n : Names[i] = list[i].name /\ list[i] \in Items
        /\ list \in Seq(Items) /\ file \in Files /\ parsed \in 0 .. Len(Book)
    BY <1>2, NamesOfList DEF BlobTypes
  <1>4. /\ b \in 1 .. Len(Book) /\ b - 1 = parsed /\ b \in Int /\ block \in Int /\ parsed \in Nat
        /\ Book[b] \in STRING
    BY <1>1, <1>3, BookIs DEF Garbage
  <1>5. it \in Items /\ it.name = Book[b] /\ it.data = IF open THEN Nothing ELSE b
    BY <1>4 DEF Item, Items, Nothing
  <1>6. Index(n + 1) \in 0 .. IndexRange - 1
    BY <1>3, IndexIs
  <1> HIDE DEF n, b, block, it
  <1>7. /\ list' \in Seq(Items) /\ Len(list') = n + 1 /\ DOMAIN list' = 1 .. n + 1
        /\ list'[n + 1] = it /\ \A i \in 1 .. n : list'[i] = list[i]
    <2>1. Len(list) = n
      BY DEF n
    <2> QED  BY <1>1, <1>3, <1>5, <2>1
  <1>8. \A i \in 1 .. n + 1 : i = n + 1 \/ i \in 1 .. n
    BY <1>3
  <1>9. /\ Names' \in Seq(STRING) /\ Len(Names') = n + 1 /\ DOMAIN Names' = 1 .. n + 1
        /\ Names'[n + 1] = Book[b] /\ \A i \in 1 .. n : Names'[i] = Names[i]
    <2>1. Names' = [i \in 1 .. n + 1 |-> list'[i].name]
      BY <1>7 DEF Names
    <2>2. n + 1 \in 1 .. n + 1 /\ \A i \in 1 .. n : i \in 1 .. n + 1
      BY <1>3
    <2>3. Names'[n + 1] = Book[b] /\ \A i \in 1 .. n : Names'[i] = Names[i]
      BY <1>3, <1>5, <1>7, <2>1, <2>2
    <2>4. \A i \in 1 .. n : Names[i] \in STRING
      BY <1>3 DEF Items
    <2>5. Names' \in [1 .. n + 1 -> STRING]
      BY <1>4, <1>8, <2>1, <2>3, <2>4
    <2>6. n + 1 \in Nat
      BY <1>3
    <2> QED  BY <2>3, <2>5, <2>6, FunctionIsSeq
  <1>10. /\ file' \in Files /\ file'.index = file.index
         /\ \A k \in 0 .. IndexRange - 1 : k # Index(n + 1) => file'.blocks[k] = file.blocks[k]
         /\ file.lost \subseteq file'.lost
         /\ open => \/ n + 1 \in file'.lost
                    \/ file'.blocks[Index(n + 1)] = b
         /\ file'.clean => file.clean /\ file'.blocks = file.blocks
    <2>1. CASE ~ open
      BY <1>1, <1>3, <2>1
    <2>2. CASE open
      <3> DEFINE B == [file.blocks EXCEPT ![Index(n + 1)] = block]
                 L == IF fails THEN file.lost \cup {n + 1} ELSE file.lost
      <3>1. file.blocks \in [0 .. IndexRange - 1 -> Int]
        BY <1>3 DEF Files, BlobBlocks
      <3>2. /\ B \in [0 .. IndexRange - 1 -> Int] /\ B[Index(n + 1)] = block
            /\ \A k \in 0 .. IndexRange - 1 : k # Index(n + 1) => B[k] = file.blocks[k]
            /\ file.blocks[Index(n + 1)] = block => B = file.blocks
        BY <1>4, <1>6, <3>1
      <3>3. L \in SUBSET Nat /\ file.lost \subseteq L /\ (fails => n + 1 \in L)
        BY <1>3 DEF Files
      <3>4. file' = [file EXCEPT !.blocks = B,
                                 !.clean = @ /\ file.blocks[Index(n + 1)] = block, !.lost = L]
        <4>1. file' = [file EXCEPT !.blocks[Index(n + 1)] = block,
                                   !.clean = @ /\ file.blocks[Index(n + 1)] = block,
                                   !.lost = IF fails THEN @ \cup {n + 1} ELSE @]
          BY <1>1, <2>2
        <4> QED  BY <4>1, <1>3 DEF Files
      <3> HIDE DEF B, L
      <3>5. /\ file' \in Files /\ file'.index = file.index /\ file'.blocks = B /\ file'.lost = L
            /\ file'.clean = (file.clean /\ file.blocks[Index(n + 1)] = block)
        BY <1>3, <3>2, <3>3, <3>4 DEF Files, BlobBlocks
      <3>6. fails \/ block = b
        BY DEF block
      <3> QED  BY <2>2, <3>2, <3>3, <3>5, <3>6
    <2> QED  BY <2>1, <2>2
  <1>11. BlobTypes'
    <2>1. parsed' \in 0 .. Len(Book)
      BY <1>1, <1>4, BookIs
    <2>2. /\ changed' \in BOOLEAN /\ open' \in BOOLEAN /\ saved' \in BOOLEAN
          /\ phase' \in {"start", "parsing", "loaded"}
      BY <1>1, <1>2 DEF BlobTypes
    <2> QED  BY <1>7, <1>10, <2>1, <2>2 DEF BlobTypes
  <1>12. InMemory' = IF open THEN InMemory ELSE InMemory \cup {n + 1}
    <2>1. it.data # Nothing <=> ~ open
      BY <1>4, <1>5, BookIs DEF Nothing
    <2>2. InMemory' = {i \in 1 .. n + 1 : list'[i].data # Nothing}
      BY <1>7 DEF InMemory
    <2>3. InMemory = {i \in 1 .. n : list[i].data # Nothing}
      BY <1>3 DEF InMemory
    <2>4. 1 .. n + 1 = (1 .. n) \cup {n + 1} /\ n + 1 \notin 1 .. n
      BY <1>3
    <2> QED  BY <1>7, <2>1, <2>2, <2>3, <2>4
  <1>13. \A i \in 1 .. n : FirstIn(Names', i) => FirstIn(Names, i)
    <2> SUFFICES ASSUME NEW i \in 1 .. n, FirstIn(Names', i), NEW j \in 1 .. i - 1
                 PROVE  Names[j] # Names[i]
      BY DEF FirstIn
    <2>1. j \in 1 .. n
      BY <1>3
    <2>2. Names'[j] # Names'[i]
      BY DEF FirstIn
    <2> QED  BY <1>9, <2>1, <2>2
  <1>14. HasAll(Names, parsed)
    BY <1>2 DEF Held
  <1>15. FirstIn(Names', n + 1) => FirstPlace(Book, Book[b]) = b
    <2> SUFFICES ASSUME FirstIn(Names', n + 1)  PROVE FirstPlace(Book, Book[b]) = b
      OBVIOUS
    <2>1. (n + 1) - 1 = n
      BY <1>3
    <2>2. \A j \in 1 .. n : Names[j] # Book[b]
      BY <1>9, <2>1 DEF FirstIn
    <2>3. \A k \in 1 .. parsed : Book[k] # Book[b]
      BY <1>3, <1>14, <2>2 DEF HasAll, InSeq
    <2>4. b = parsed + 1
      BY DEF b
    <2> QED  BY <1>1, <1>4, <2>3, <2>4, NextOfBook
  <1>16. HasAll(Names', b)
    <2> SUFFICES ASSUME NEW k \in 1 .. b  PROVE InSeq(Names', Book[k])
      BY DEF HasAll
    <2>1. CASE k = b
      <3>1. n + 1 \in DOMAIN Names'
        BY <1>3, <1>9
      <3> QED  BY <1>9, <2>1, <3>1 DEF InSeq
    <2>2. CASE k # b
      <3>1. k \in 1 .. parsed
        BY <1>4, <2>2
      <3>2. PICK i \in 1 .. n : Names[i] = Book[k]
        BY <1>3, <1>14, <3>1 DEF HasAll, InSeq
      <3>3. i \in 1 .. n + 1
        BY <1>3
      <3> QED  BY <1>9, <3>2, <3>3 DEF InSeq
    <2> QED  BY <2>1, <2>2
  <1>17. MemoryHolds'
    <2> SUFFICES ASSUME NEW i \in InMemory', FirstIn(Names', i)
                 PROVE  list'[i].data = FirstPlace(Book, Names'[i])
      BY DEF MemoryHolds
    <2>1. CASE i \in InMemory
      <3>1. i \in 1 .. n
        BY <1>3, <2>1 DEF InMemory
      <3> QED  BY <1>2, <1>7, <1>9, <1>13, <2>1, <3>1 DEF Held, MemoryHolds
    <2>2. CASE i \notin InMemory
      <3>1. i = n + 1 /\ ~ open
        BY <1>12, <2>2
      <3> QED  BY <1>5, <1>7, <1>9, <1>15, <3>1
    <2> QED  BY <2>1, <2>2
  <1>18. FileHolds'
    <2> SUFFICES ASSUME n + 1 <= IndexRange, NEW i \in (1 .. n + 1) \ InMemory', FirstIn(Names', i)
                 PROVE  i \in file'.lost \/ file'.blocks[Index(i)] = FirstPlace(Book, Names'[i])
      BY <1>7, <1>9 DEF FileHolds, InFile
    <2>1. CASE i = n + 1
      <3>1. open
        BY <1>12, <2>1
      <3> QED  BY <1>9, <1>10, <1>15, <2>1, <3>1
    <2>2. CASE i \in 1 .. n
      <3>1. i \in DOMAIN list \ InMemory /\ FirstIn(Names, i) /\ n <= IndexRange
        BY <1>3, <1>12, <1>13, <2>2, BlobCacheAssumption
      <3>2. i \in file.lost \/ file.blocks[Index(i)] = FirstPlace(Book, Names[i])
        BY <1>2, <1>3, <3>1 DEF Held, FileHolds, InFile
      <3>3. Index(i) # Index(n + 1) /\ Index(i) \in 0 .. IndexRange - 1
        <4>1. i \in Nat /\ i >= 1 /\ i <= IndexRange /\ i - 1 # (n + 1) - 1 /\ n + 1 \in Nat /\ n + 1 >= 1
          BY <1>3, <2>2, BlobCacheAssumption
        <4> QED  BY <4>1, IndexIs
      <3> QED  BY <1>9, <1>10, <2>2, <3>2, <3>3
    <2> QED  BY <1>8, <2>1, <2>2
  <1>19. ASSUME file'.clean  PROVE Complete(file')
    <2>1. Complete(file)
      BY <1>2, <1>10, <1>19 DEF Held
    <2> QED  BY <1>10, <1>19, <2>1 DEF Complete, InFile
  <1>20. Held'
    BY <1>1, <1>16, <1>17, <1>18, <1>19 DEF Held, HasAll, Complete, InFile
  <1>21. Phases'
    <2>1. list' # <<>>
      BY <1>3, <1>7
    <2>2. ~ open => InMemory' = DOMAIN list'
      <3> SUFFICES ASSUME ~ open  PROVE InMemory' = DOMAIN list'
        OBVIOUS
      <3>1. InMemory = 1 .. n
        BY <1>2, <1>3 DEF Phases
      <3>2. 1 .. n + 1 = (1 .. n) \cup {n + 1}
        BY <1>3
      <3> QED  BY <1>7, <1>12, <3>1, <3>2
    <2> QED  BY <1>1, <2>1, <2>2 DEF Phases
  <1> QED  BY <1>11, <1>20, <1>21 DEF BlobIInv

LEMMA BlobNextOK == BlobIInv /\ [BlobNext]_blobVars => BlobIInv'
  <1> SUFFICES ASSUME BlobIInv, [BlobNext]_blobVars  PROVE BlobIInv'
    OBVIOUS
  <1>0. BlobTypes /\ Held /\ Phases
    BY DEF BlobIInv
  <1>1. CASE NotInCache
    <2>1. phase = "start" /\ phase' = "parsing" /\ UNCHANGED <<list, changed, open, parsed, saved, file>>
      BY <1>1 DEF NotInCache
    <2>2. Names' = Names /\ InMemory' = InMemory
      BY <2>1 DEF Names, InMemory
    <2>3. BlobTypes' /\ Held' /\ Phases'
      BY <1>0, <2>1, <2>2 DEF BlobTypes, Held, MemoryHolds, FileHolds, HasAll, InFile, Complete, Phases
    <2> QED  BY <2>3 DEF BlobIInv
  <1>2. CASE EndParsing
    <2>1. phase = "parsing" /\ parsed = Len(Book) /\ phase' = "loaded"
          /\ UNCHANGED <<list, changed, open, parsed, saved, file>>
      BY <1>2 DEF EndParsing
    <2>2. Names' = Names /\ InMemory' = InMemory
      BY <2>1 DEF Names, InMemory
    <2>3. BlobTypes' /\ Held' /\ Phases'
      BY <1>0, <2>1, <2>2 DEF BlobTypes, Held, MemoryHolds, FileHolds, HasAll, InFile, Complete, Phases
    <2> QED  BY <2>3 DEF BlobIInv
  <1>3. CASE Flush
    <2>1. saved /\ file' = [file EXCEPT !.clean = TRUE] /\ saved' = FALSE
          /\ UNCHANGED <<list, changed, open, phase, parsed>>
      BY <1>3 DEF Flush
    <2>2. Names' = Names /\ InMemory' = InMemory
      BY <2>1 DEF Names, InMemory
    <2>3. /\ file' \in Files /\ file'.index = file.index /\ file'.blocks = file.blocks
          /\ file'.lost = file.lost
      BY <1>0, <2>1 DEF BlobTypes, Files
    <2>4. file.index = Names /\ InMemory = {} /\ parsed = Len(Book)
      BY <1>0, <2>1 DEF Phases
    <2>5. BlobTypes'
      BY <1>0, <2>1, <2>3 DEF BlobTypes
    <2>6. FileHolds'
      BY <1>0, <2>1, <2>2, <2>3 DEF Held, FileHolds, InFile
    <2>7. Complete(file')
      <3>1. DOMAIN list = DOMAIN file.index
        BY <1>0, <2>4, NamesOfList
      <3>2. FileHolds /\ HasAll(Names, parsed)
        BY <1>0 DEF Held
      <3> QED  BY <2>3, <2>4, <3>1, <3>2 DEF Complete, FileHolds, InFile
    <2>8. MemoryHolds' /\ HasAll(Names', parsed')
      BY <1>0, <2>1, <2>2 DEF Held, MemoryHolds, HasAll
    <2>9. Held'
      BY <2>6, <2>7, <2>8 DEF Held, Complete, HasAll, InFile
    <2>10. Phases'
      BY <1>0, <2>1, <2>2, <2>3 DEF Phases
    <2> QED  BY <2>5, <2>9, <2>10 DEF BlobIInv
  <1>4. CASE Restart
    <2>1. /\ list' = <<>> /\ changed' = FALSE /\ open' = FALSE /\ phase' = "start" /\ parsed' = 0
          /\ saved' = FALSE /\ file' = file
      BY <1>4 DEF Restart
    <2>2. BlobTypes'
      <3>1. <<>> \in Seq(Items) /\ 0 \in 0 .. Len(Book)
        BY BookIs
      <3> QED  BY <1>0, <2>1, <3>1 DEF BlobTypes
    <2>3. InMemory' = {} /\ DOMAIN list' = {}
      BY <2>1 DEF InMemory
    <2>4. Held'
      BY <1>0, <2>1, <2>3 DEF Held, MemoryHolds, FileHolds, HasAll, InFile, Complete
    <2>5. Phases'
      BY <2>1, <2>3 DEF Phases
    <2> QED  BY <2>2, <2>4, <2>5 DEF BlobIInv
  <1>5. CASE \E b \in BOOLEAN : OpenFromCache(b) \/ AddBlob(b)
    BY <1>5, OpenFromCacheOK, AddBlobOK
  <1>6. CASE \E bad \in SUBSET {i \in DOMAIN list : list[i].data # Nothing}, listed \in BOOLEAN :
                \/ CreateCacheFile(bad, listed)
                \/ \E last \in 0 .. Len(list), expires \in BOOLEAN : SaveBlobs(last, expires, bad, listed)
    BY <1>6, CreateCacheFileOK, SaveBlobsOK
  <1>7. CASE UNCHANGED blobVars
    <2>1. UNCHANGED <<list, changed, open, phase, parsed, saved, file>>
      BY <1>7 DEF blobVars
    <2>2. Names' = Names /\ InMemory' = InMemory
      BY <2>1 DEF Names, InMemory
    <2>3. BlobTypes' /\ Held' /\ Phases'
      BY <1>0, <2>1, <2>2 DEF BlobTypes, Held, MemoryHolds, FileHolds, HasAll, InFile, Complete, Phases
    <2> QED  BY <2>3 DEF BlobIInv
  <1> QED  BY <1>1, <1>2, <1>3, <1>4, <1>5, <1>6, <1>7 DEF BlobNext

-----------------------------------------------------------------------------
(* The properties. *)

LEMMA BlobsReadableOK == BlobIInv => BlobsReadable
  <1> SUFFICES ASSUME BlobIInv, Len(list) <= IndexRange, NEW k \in 1 .. parsed
               PROVE  /\ InSeq(Names, Book[k])
                      /\ \/ open /\ FirstPlace(Names, Book[k]) \in file.lost
                         \/ GetBlob(Book[k]) = FirstPlace(Book, Book[k])
    BY DEF BlobsReadable
  <1> DEFINE p == FirstPlace(Names, Book[k])
  <1>1. BlobTypes /\ Held /\ Phases
    BY DEF BlobIInv
  <1>2. /\ Names \in Seq(STRING) /\ Len(Names) = Len(list) /\ DOMAIN list = 1 .. Len(list)
        /\ Len(list) \in Nat
    BY <1>1, NamesOfList
  <1>3. InSeq(Names, Book[k])
    BY <1>1 DEF Held, HasAll
  <1>4. p \in 1 .. Len(list) /\ Names[p] = Book[k] /\ FirstIn(Names, p)
    BY <1>2, <1>3, FirstPlaceIs
  <1>5. GetBlob(Book[k]) = IF list[p].data # Nothing THEN list[p].data ELSE file.blocks[Index(p)]
    BY DEF GetBlob
  <1> HIDE DEF p
  <1>6. CASE list[p].data # Nothing
    <2>1. p \in InMemory
      BY <1>2, <1>4, <1>6 DEF InMemory
    <2> QED  BY <1>1, <1>3, <1>4, <1>5, <1>6, <2>1 DEF Held, MemoryHolds
  <1>7. CASE list[p].data = Nothing
    <2>1. p \in DOMAIN list \ InMemory
      BY <1>2, <1>4, <1>7 DEF InMemory
    <2>2. p \in file.lost \/ file.blocks[Index(p)] = FirstPlace(Book, Book[k])
      BY <1>1, <1>2, <1>4, <2>1 DEF Held, FileHolds, InFile
    <2>3. open
      BY <1>1, <2>1 DEF Phases
    <2> QED  BY <1>3, <1>5, <1>7, <2>2, <2>3 DEF p
  <1> QED  BY <1>6, <1>7

LEMMA CleanHasBlobsOK == BlobIInv => CleanHasBlobs
  <1> SUFFICES ASSUME BlobIInv, file.clean, Len(file.index) <= IndexRange, NEW k \in DOMAIN Book
               PROVE  /\ InSeq(file.index, Book[k])
                      /\ \/ FirstPlace(file.index, Book[k]) \in file.lost
                         \/ file.blocks[Index(FirstPlace(file.index, Book[k]))] = FirstPlace(Book, Book[k])
    BY DEF CleanHasBlobs
  <1> DEFINE p == FirstPlace(file.index, Book[k])
  <1>1. Complete(file) /\ file.index \in Seq(STRING)
    BY DEF BlobIInv, Held, BlobTypes, Files
  <1>2. InSeq(file.index, Book[k])
    BY <1>1, BookIs DEF Complete, HasAll
  <1>3. p \in DOMAIN file.index /\ file.index[p] = Book[k] /\ FirstIn(file.index, p)
    BY <1>1, <1>2, FirstPlaceIs
  <1> HIDE DEF p
  <1>4. p \in file.lost \/ file.blocks[Index(p)] = FirstPlace(Book, Book[k])
    BY <1>1, <1>3 DEF Complete, InFile
  <1> QED  BY <1>2, <1>4 DEF p

\* A blob that the parser found is returned by its name, whichever saves were interrupted or
\* failed and in whichever session, for every book, every range of indexes and any number
\* of failing writes.
THEOREM GetBlobReadsBook == BlobSpec => []BlobsReadable
  BY BlobInitOK, BlobNextOK, BlobsReadableOK, PTL DEF BlobSpec

\* A cache file that ldomBlobCache left clean has the list and the blobs of the book.
THEOREM CleanFileHasBook == BlobSpec => []CleanHasBlobs
  BY BlobInitOK, BlobNextOK, CleanHasBlobsOK, PTL DEF BlobSpec
=============================================================================
