--------------------------- MODULE CacheFileProofs ---------------------------
(***************************************************************************)
(* Proofs about CacheFile: the types, the agreement of an accepted file    *)
(* with the running program, that CacheFile implements CacheStore, that    *)
(* its blocks lie apart, and that they and a flushed file can be read      *)
(* back.  And about the BlockWriteStream that CacheFile writes through:    *)
(* its types and that it implements ByteStream as long as no file was left *)
(* too short, which none is if the words written are padded.               *)
(***************************************************************************)
EXTENDS CacheFile, BlockWriteStream, ListFacts, FiniteSetTheorems, TLAPS

AllKeys == Keys \cup {Index}

\* The block table is consistent: _map, _freeIndex and the types of the records
\* in _index say the same.
TableOK(t) ==
    /\ t.free \subseteq DOMAIN t.index
    /\ \A k \in AllKeys : t.map[k] # 0 =>
          t.map[k] \in DOMAIN t.index /\ t.index[t.map[k]].key = k
    /\ \A i \in DOMAIN t.index :
          /\ t.index[i].pos # 0
          /\ t.index[i].key \in AllKeys => t.map[t.index[i].key] = i
          /\ i \in t.free => t.index[i].key = Free
          /\ t.index[i].key # Index => t.index[i].hash \in Data \cup {Nothing}

\* A saved index names every key at most once.
SnapshotOK(s) ==
    \A i, j \in DOMAIN s : s[i].key = s[j].key /\ s[i].key # Free => i = j

HeaderOK(h) ==
    h.idx.pos # 0 => /\ h.idx.key = Index
                     /\ h.idx.hash \in Snapshots
                     /\ SnapshotOK(h.idx.hash)

\* What a table and a saved index say the data blocks contain.
LiveIn(t) == [k \in Keys |-> IF t.map[k] = 0 THEN Nothing
                             ELSE t.index[t.map[k]].hash]
LiveSaved(s) == [k \in Keys |-> IF \E i \in DOMAIN s : s[i].key = k
                                THEN s[CHOOSE i \in DOMAIN s : s[i].key = k].hash
                                ELSE Nothing]
NoneLive == [k \in Keys |-> Nothing]
HeaderLive(h) == IF h.idx.pos = 0 THEN NoneLive ELSE LiveSaved(h.idx.hash)

\* The write in progress, and what it knows of the table.
TodoOK ==
    /\ pc = "place" /\ todo.key # Index => todo.key \in Keys /\ todo.data \in Data
    /\ pc = "place" /\ todo.key = Index => /\ todo.data = Snapshot(tab.index)
                                           /\ tab.map[Index] # 0
    /\ pc = "marking" /\ todo.key # Free => todo.key \in Keys /\ todo.data \in Data
    /\ pc = "header" => /\ tab.map[Index] # 0
                        /\ tab.index[tab.map[Index]].hash = todo.data
                        /\ todo.data \in Snapshots
                        /\ SnapshotOK(todo.data)
                        /\ LiveSaved(todo.data) = Live

\* The dirty flag, in memory, in the stream and on the disk.
FlagOK ==
    /\ pc # "none" => cached.hdr.dirty = dirty
    /\ pc \in {"marking", "place", "header", "clearing"} => dirty
    /\ pc = "cleared" => ~ dirty
    /\ indexChanged => dirty
    /\ pc \in {"clearing", "cleared"} => ~ indexChanged
    /\ pc # "none" /\ pc # "marking" /\ dirty => disk.hdr.dirty

\* The disk differs from the stream in the flag at most.
SameButFlag == /\ disk.sec = cached.sec
               /\ disk.len = cached.len
               /\ disk.hdr.idx = cached.hdr.idx
               /\ disk.hdr.fsize = cached.hdr.fsize

\* That is so while the file is clean, in memory or on the disk.
DiskOK ==
    /\ pc = "none" => cached = disk /\ tab = NoTable
    /\ pc # "none" /\ ~ dirty => SameButFlag
    /\ pc # "none" /\ ~ disk.hdr.dirty => SameButFlag /\ ~ indexChanged

IInv == /\ TypeOK
        /\ TableOK(tab)
        /\ HeaderOK(cached.hdr)
        /\ HeaderOK(disk.hdr)
        /\ TodoOK
        /\ FlagOK
        /\ DiskOK
        /\ pc # "none" /\ ~ indexChanged => HeaderLive(cached.hdr) = Live

-----------------------------------------------------------------------------
(* The operators on the block table. *)

LEMMA SectorsNat == ASSUME NEW n \in Nat PROVE Sectors(n) \in Nat
  BY CacheFileAssumption DEF Sectors

LEMMA SeqExcept ==
    ASSUME NEW S, NEW s \in Seq(S), NEW i \in DOMAIN s, NEW e \in S
    PROVE  LET r == [s EXCEPT ![i] = e]
           IN /\ r \in Seq(S) /\ DOMAIN r = DOMAIN s /\ r[i] = e
              /\ \A j \in DOMAIN s \ {i} : r[j] = s[j]
  OBVIOUS

LEMMA RecordType ==
    ASSUME NEW t \in Tables, NEW i \in DOMAIN t.index PROVE t.index[i] \in Items
  BY DEF Tables

LEMMA ItemType ==
    ASSUME NEW b \in Items, NEW k \in Keys \cup {Index, Free}, NEW n \in Nat,
           NEW h \in Hashes
    PROVE  /\ Item(k, b.pos, b.bsize, n, h) \in Items
           /\ Item(k, b.pos, b.bsize, n, h).key = k
           /\ Item(k, b.pos, b.bsize, n, h).pos = b.pos
           /\ Item(k, b.pos, b.bsize, n, h).hash = h
  BY DEF Items, Item

\* u has the same records as t for every key but k.
AgreeBut(t, u, k) ==
    \A j \in AllKeys \ {k} : /\ u.map[j] = t.map[j]
                             /\ t.map[j] # 0 => u.index[u.map[j]] = t.index[t.map[j]]

LEMMA FreeBlockOK ==
    ASSUME NEW t \in Tables, TableOK(t), NEW k \in AllKeys, t.map[k] # 0
    PROVE  LET u == FreeBlock(t, t.map[k]) IN
           /\ u \in Tables /\ TableOK(u) /\ u.map[k] = 0 /\ AgreeBut(t, u, k)
  <1> DEFINE i == t.map[k]
             u == FreeBlock(t, i)
  <1>1. i \in DOMAIN t.index /\ t.index[i].key = k /\ i \in Nat
    BY DEF TableOK, Tables, AllKeys
  <1>2. k # Free /\ Free \notin AllKeys /\ Free # Index
    BY CacheFileAssumption DEF AllKeys
  <1> DEFINE b == t.index[i]
             r == Item(Free, b.pos, b.bsize, 0,
                       IF b.key = Index THEN Nothing ELSE b.hash)
             ix == [t.index EXCEPT ![i] = r]
  <1>a. b \in Items
    BY <1>1 DEF Tables
  <1>b. /\ r \in Items /\ r.key = Free /\ r.pos = b.pos
        /\ r.hash = IF k = Index THEN Nothing ELSE b.hash
    BY <1>1, <1>2, <1>a DEF Item, Items, Hashes
  <1>c. /\ ix \in Seq(Items) /\ DOMAIN ix = DOMAIN t.index /\ ix[i] = r
        /\ \A j \in DOMAIN t.index \ {i} : ix[j] = t.index[j]
    <2>1. t.index \in Seq(Items)
      BY DEF Tables
    <2> HIDE DEF r, i
    <2> QED BY <2>1, <1>1, <1>b, SeqExcept
  <1>d. u = [index |-> ix, free |-> t.free \cup {i}, size |-> t.size,
             map |-> [t.map EXCEPT ![k] = 0]]
    BY <1>1 DEF FreeBlock
  <1>3. u \in Tables
    <2> HIDE DEF ix, i, u
    <2> QED BY <1>1, <1>c, <1>d DEF Tables, AllKeys
  <1>4. /\ DOMAIN u.index = DOMAIN t.index
        /\ \A j \in DOMAIN t.index \ {i} : u.index[j] = t.index[j]
        /\ u.index[i].key = Free /\ u.index[i].pos = t.index[i].pos
        /\ u.index[i].hash = IF k = Index THEN Nothing ELSE t.index[i].hash
        /\ u.free = t.free \cup {i}
    <2> HIDE DEF ix, u, r
    <2> QED BY <1>b, <1>c, <1>d
  <1>5. u.map[k] = 0 /\ \A j \in AllKeys \ {k} : u.map[j] = t.map[j]
    <2> HIDE DEF ix, u
    <2> QED BY <1>d DEF Tables, AllKeys
  <1>6. \A j \in AllKeys \ {k} : t.map[j] # 0 => t.map[j] # i
    BY <1>1 DEF TableOK
  <1>7. TableOK(u)
    <2> HIDE DEF u, i
    <2>1. i \notin t.free => i \in u.free
      BY <1>4
    <2>2. \A j \in AllKeys : u.map[j] # 0 =>
              u.map[j] \in DOMAIN u.index /\ u.index[u.map[j]].key = j
      BY <1>4, <1>5, <1>6 DEF TableOK
    <2>3. \A j \in DOMAIN u.index \ {i} :
              /\ u.index[j].pos # 0
              /\ u.index[j].key \in AllKeys => u.map[u.index[j].key] = j
              /\ j \in u.free => u.index[j].key = Free
              /\ u.index[j].key # Index => u.index[j].hash \in Data \cup {Nothing}
      BY <1>1, <1>4, <1>5 DEF TableOK, i
    <2>4. /\ u.index[i].pos # 0
          /\ u.index[i].key \notin AllKeys
          /\ u.index[i].hash \in Data \cup {Nothing}
      BY <1>1, <1>2, <1>4 DEF TableOK
    <2> QED BY <1>1, <1>2, <1>4, <2>2, <2>3, <2>4 DEF TableOK
  <1>8. AgreeBut(t, u, k)
    <2>1. \A j \in AllKeys \ {k} : t.map[j] # 0 => u.index[t.map[j]] = t.index[t.map[j]]
      BY <1>4, <1>6 DEF TableOK
    <2> HIDE DEF u
    <2> QED BY <1>5, <2>1 DEF AgreeBut
  <1> HIDE DEF u, i
  <1>9. u \in Tables /\ TableOK(u) /\ u.map[k] = 0 /\ AgreeBut(t, u, k)
    BY <1>3, <1>5, <1>7, <1>8
  <1> QED BY <1>9 DEF u, i

LEMMA AllocBlockOK ==
    ASSUME NEW t \in Tables, TableOK(t), NEW k \in AllKeys, t.map[k] = 0,
           NEW n \in Nat, NEW u \in AllocBlock(t, k, n)
    PROVE  /\ u \in Tables /\ TableOK(u) /\ u.map[k] # 0 /\ AgreeBut(t, u, k)
  <1>1. k # Free /\ Free \notin AllKeys
    BY CacheFileAssumption DEF AllKeys
  <1>2. CASE Fits(t, n) # {}
    <2> DEFINE r(i) == Renamed(t.index[i], k, n)
    <2>1. PICK i \in BestFits(t, n) :
            u = [index |-> [t.index EXCEPT ![i] = r(i)], free |-> t.free \ {i},
                 size |-> t.size, map |-> [t.map EXCEPT ![k] = i]]
      BY <1>2 DEF AllocBlock
    <2>2. i \in t.free /\ i \in DOMAIN t.index /\ i \in Nat /\ i # 0
      BY DEF BestFits, Fits, TableOK, Tables
    <2>3. t.index[i].key = Free /\ t.index[i].hash \in Data \cup {Nothing}
      BY <2>2, CacheFileAssumption DEF TableOK
    <2>a. /\ r(i) \in Items /\ r(i).key = k /\ r(i).pos = t.index[i].pos
          /\ r(i).hash = t.index[i].hash
      <3>1. t.index[i] \in Items /\ t.index[i].hash \in Hashes
        BY <2>2, <2>3, RecordType DEF Hashes
      <3>2. k \in Keys \cup {Index, Free}
        BY DEF AllKeys
      <3> QED BY <3>1, <3>2, ItemType DEF Renamed
    <2>b. LET ix == [t.index EXCEPT ![i] = r(i)]
          IN /\ ix \in Seq(Items) /\ DOMAIN ix = DOMAIN t.index /\ ix[i] = r(i)
             /\ \A j \in DOMAIN t.index \ {i} : ix[j] = t.index[j]
      <3>1. t.index \in Seq(Items)
        BY DEF Tables
      <3> HIDE DEF r
      <3> QED BY <3>1, <2>2, <2>a, SeqExcept
    <2> HIDE DEF r
    <2>4. u \in Tables
      <3>1. [t.map EXCEPT ![k] = i] \in [AllKeys -> Nat]
        BY <2>2 DEF Tables, AllKeys
      <3> QED BY <2>1, <2>b, <3>1 DEF Tables, AllKeys
    <2>5. /\ DOMAIN u.index = DOMAIN t.index
          /\ \A j \in DOMAIN t.index \ {i} : u.index[j] = t.index[j]
          /\ u.index[i].key = k /\ u.index[i].pos = t.index[i].pos
          /\ u.index[i].hash = t.index[i].hash
          /\ u.free = t.free \ {i}
      BY <2>1, <2>a, <2>b
    <2>6. u.map[k] = i /\ \A j \in AllKeys \ {k} : u.map[j] = t.map[j]
      BY <2>1 DEF Tables, AllKeys
    <2>7. \A j \in AllKeys \ {k} : t.map[j] # 0 => t.map[j] # i
      BY <1>1, <2>3 DEF TableOK
    <2>8. \A j \in DOMAIN t.index \ {i} : t.index[j].key # k
      BY <2>2 DEF TableOK, Tables
    <2>9. TableOK(u)
      BY <1>1, <2>2, <2>3, <2>5, <2>6, <2>7, <2>8 DEF TableOK
    <2> QED BY <2>2, <2>4, <2>5, <2>6, <2>7, <2>9 DEF AgreeBut, TableOK
  <1>3. CASE Fits(t, n) = {}
    <2> DEFINE i == Len(t.index) + 1
               it == Item(k, t.size, Sectors(n), n, Nothing)
    <2>1. u = [index |-> Append(t.index, it), free |-> t.free,
               size |-> t.size + Sectors(n), map |-> [t.map EXCEPT ![k] = i]]
      BY <1>3 DEF AllocBlock
    <2>2. it \in Items
      BY SectorsNat DEF Item, Items, Hashes, Tables, AllKeys
    <2>3. u \in Tables
      <3>1. [t.map EXCEPT ![k] = i] \in [AllKeys -> Nat]
        BY DEF Tables, AllKeys
      <3>2. Append(t.index, it) \in Seq(Items)
        BY <2>2 DEF Tables
      <3>3. t.size + Sectors(n) \in Nat \ {0}
        <4>1. t.size \in Nat \ {0}
          BY DEF Tables
        <4>2. Sectors(n) \in Nat
          BY SectorsNat
        <4> QED BY <4>1, <4>2
      <3>4. t.free \in SUBSET Nat
        BY DEF Tables
      <3> HIDE DEF i, it
      <3> QED BY <2>1, <3>1, <3>2, <3>3, <3>4 DEF Tables, AllKeys
    <2>4. /\ DOMAIN u.index = DOMAIN t.index \cup {i}
          /\ i \notin DOMAIN t.index /\ i # 0
          /\ \A j \in DOMAIN t.index : u.index[j] = t.index[j]
          /\ u.index[i] = it
          /\ u.free = t.free
      BY <2>1, <2>2 DEF Tables
    <2>5. u.map[k] = i /\ \A j \in AllKeys \ {k} : u.map[j] = t.map[j]
      BY <2>1 DEF Tables, AllKeys
    <2>6. it.key = k /\ it.pos # 0 /\ it.hash = Nothing
      BY DEF Item, Tables
    <2>7. \A j \in DOMAIN t.index : t.index[j].key # k
      BY DEF TableOK, Tables
    <2>8. TableOK(u)
      BY <1>1, <2>4, <2>5, <2>6, <2>7 DEF TableOK
    <2> QED BY <2>3, <2>4, <2>5, <2>8 DEF AgreeBut, TableOK
  <1> QED BY <1>2, <1>3

LEMMA RoomOK ==
    ASSUME NEW t \in Tables, TableOK(t), NEW k \in AllKeys, NEW n \in Nat,
           NEW u \in Room(t, k, n)
    PROVE  /\ u \in Tables /\ TableOK(u) /\ u.map[k] # 0 /\ AgreeBut(t, u, k)
  <1>1. CASE t.map[k] = 0
    BY <1>1, AllocBlockOK DEF Room
  <1>2. CASE t.map[k] # 0 /\ t.index[t.map[k]].dsize >= n
    BY <1>2 DEF Room, AgreeBut
  <1>3. CASE t.map[k] # 0 /\ ~ (t.index[t.map[k]].dsize >= n)
    <2> DEFINE f == FreeBlock(t, t.map[k])
    <2>1. f \in Tables /\ TableOK(f) /\ f.map[k] = 0 /\ AgreeBut(t, f, k)
      BY <1>3, FreeBlockOK
    <2>2. u \in AllocBlock(f, k, n)
      BY <1>3 DEF Room
    <2>3. u \in Tables /\ TableOK(u) /\ u.map[k] # 0 /\ AgreeBut(f, u, k)
      BY <2>1, <2>2, AllocBlockOK
    <2> QED BY <2>1, <2>3 DEF AgreeBut
  <1> QED BY <1>1, <1>2, <1>3

\* The record of key k gets a new size and hash.
LEMMA RecordOK ==
    ASSUME NEW t \in Tables, TableOK(t), NEW k \in AllKeys, t.map[k] # 0,
           NEW n \in Nat, NEW h \in Hashes, k # Index => h \in Data \cup {Nothing}
    PROVE  LET u == [t EXCEPT !.index[t.map[k]] = Rewritten(t.index[t.map[k]], n, h)]
           IN /\ u \in Tables /\ TableOK(u) /\ AgreeBut(t, u, k)
              /\ u.map[k] = t.map[k] /\ u.index[u.map[k]].hash = h
              /\ u.index[u.map[k]] \in Items
              /\ u.index[u.map[k]].pos = t.index[t.map[k]].pos
  <1> DEFINE i == t.map[k]
             u == [t EXCEPT !.index[i] = Rewritten(t.index[i], n, h)]
  <1>1. i \in DOMAIN t.index /\ t.index[i].key = k
    BY DEF TableOK
  <1> DEFINE r == Rewritten(t.index[i], n, h)
             ix == [t.index EXCEPT ![i] = r]
  <1>a. /\ r \in Items /\ r.key = k /\ r.pos = t.index[i].pos /\ r.hash = h
    <2>1. t.index[i] \in Items
      BY <1>1, RecordType
    <2>2. k \in Keys \cup {Index, Free}
      BY DEF AllKeys
    <2> DEFINE b == t.index[i]
    <2>3. r = Item(k, b.pos, b.bsize, n, h)
      BY <1>1 DEF Rewritten
    <2> HIDE DEF u, r, ix, b
    <2>4. b \in Items
      BY <2>1 DEF b
    <2>5. /\ Item(k, b.pos, b.bsize, n, h) \in Items
          /\ Item(k, b.pos, b.bsize, n, h).key = k
          /\ Item(k, b.pos, b.bsize, n, h).pos = b.pos
          /\ Item(k, b.pos, b.bsize, n, h).hash = h
      BY <2>2, <2>4 DEF Items, Item
    <2>6. /\ r \in Items /\ r.key = k /\ r.pos = b.pos /\ r.hash = h
      BY <2>3, <2>5
    <2> QED BY <2>6 DEF b
  <1>b. /\ ix \in Seq(Items) /\ DOMAIN ix = DOMAIN t.index /\ ix[i] = r
        /\ \A j \in DOMAIN t.index \ {i} : ix[j] = t.index[j]
    <2>1. t.index \in Seq(Items)
      BY DEF Tables
    <2> HIDE DEF r, i
    <2> QED BY <2>1, <1>1, <1>a, SeqExcept
  <1>c. u = [t EXCEPT !.index = ix]
    BY DEF Tables
  <1>2. u \in Tables
    <2> HIDE DEF ix, u
    <2> QED BY <1>b, <1>c DEF Tables
  <1>3. /\ DOMAIN u.index = DOMAIN t.index
        /\ \A j \in DOMAIN t.index \ {i} : u.index[j] = t.index[j]
        /\ u.index[i].key = k /\ u.index[i].pos = t.index[i].pos
        /\ u.index[i].hash = h /\ u.index[i] \in Items
        /\ u.free = t.free /\ u.map = t.map
    <2>1. u.index = ix /\ u.free = t.free /\ u.map = t.map
      BY <1>c DEF Tables
    <2>2. ix[i].key = k /\ ix[i].pos = t.index[i].pos /\ ix[i].hash = h /\ ix[i] \in Items
      BY <1>a, <1>b, Zenon
    <2> HIDE DEF ix, u, r, i
    <2>3. /\ DOMAIN u.index = DOMAIN t.index
          /\ \A j \in DOMAIN t.index \ {i} : u.index[j] = t.index[j]
      BY <1>b, <2>1
    <2>4. u.index[i] = ix[i]
      BY <2>1
    <2> QED BY <2>1, <2>2, <2>3, <2>4
  <1> HIDE DEF u, r, ix
  <1>4. TableOK(u)
    <2>1. ASSUME NEW j \in DOMAIN u.index
          PROVE  /\ u.index[j].pos # 0 /\ u.index[j].key = t.index[j].key
                 /\ u.index[j].key # Index => u.index[j].hash \in Data \cup {Nothing}
      <3>1. CASE j = i
        BY <1>1, <1>3, <3>1 DEF TableOK
      <3>2. CASE j # i
        BY <1>3, <3>2 DEF TableOK
      <3> QED BY <3>1, <3>2
    <2>2. \A j \in AllKeys : t.map[j] # 0 =>
              t.map[j] \in DOMAIN u.index /\ u.index[t.map[j]].key = j
      BY <1>3, <2>1 DEF TableOK
    <2>3. \A j \in DOMAIN u.index :
              /\ t.index[j].key \in AllKeys => t.map[t.index[j].key] = j
              /\ j \in t.free => t.index[j].key = Free
      BY <1>3 DEF TableOK
    <2>4. t.free \subseteq DOMAIN u.index
      BY <1>3 DEF TableOK
    <2>5. u.free = t.free /\ u.map = t.map
      BY <1>3
    <2> QED BY <2>1, <2>2, <2>3, <2>4, <2>5 DEF TableOK
  <1>5. AgreeBut(t, u, k)
    BY <1>1, <1>3 DEF AgreeBut, TableOK
  <1> QED BY <1>2, <1>3, <1>4, <1>5 DEF u

LEMMA SnapshotGood ==
    ASSUME NEW t \in Tables, TableOK(t)
    PROVE  /\ Snapshot(t.index) \in Snapshots
           /\ SnapshotOK(Snapshot(t.index))
           /\ LiveSaved(Snapshot(t.index)) = LiveIn(t)
  <1> DEFINE s == Snapshot(t.index)
  <1>1. /\ DOMAIN s = DOMAIN t.index
        /\ \A i \in DOMAIN s : s[i].key = t.index[i].key
        /\ \A i \in DOMAIN s : s[i].key # Index => s[i] = t.index[i]
    BY DEF Snapshot, Tables, Items, Item
  <1>2. s \in Snapshots
    <2> DEFINE R == [key : Keys \cup {Index, Free}, pos : Nat, bsize : Nat,
                     dsize : Nat, hash : Data \cup {Nothing}]
    <2>1. \A i \in DOMAIN s : s[i] \in R
      <3> SUFFICES ASSUME NEW i \in DOMAIN t.index
                   PROVE  s[i] \in R
        BY <1>1
      <3>1. t.index[i] \in Items
        BY DEF Tables
      <3>2. CASE t.index[i].key = Index
        BY <3>1, <3>2 DEF Snapshot, Items, Item
      <3>3. CASE t.index[i].key # Index
        BY <3>1, <3>3 DEF Snapshot, Items, TableOK
      <3> QED BY <3>2, <3>3
    <2>2. DOMAIN s = 1 .. Len(t.index) /\ Len(t.index) \in Nat
      BY <1>1 DEF Tables
    <2> HIDE DEF R
    <2>3. s \in Seq(R)
      <3>1. s = [i \in 1 .. Len(t.index) |-> s[i]]
        BY <2>2 DEF Snapshot
      <3> HIDE DEF s
      <3> DEFINE n == Len(t.index)
      <3>2. n \in Nat /\ s = [i \in 1 .. n |-> s[i]] /\ \A i \in 1 .. n : s[i] \in R
        BY <2>1, <2>2, <3>1
      <3> HIDE DEF n
      <3> QED BY <3>2
    <2> QED BY <2>3 DEF Snapshots, R
  <1>3. SnapshotOK(s)
    <2> SUFFICES ASSUME NEW i \in DOMAIN s, NEW j \in DOMAIN s,
                        s[i].key = s[j].key, s[i].key # Free
                 PROVE  i = j
      BY DEF SnapshotOK
    <2>1. t.index[i].key = t.index[j].key /\ t.index[i].key \in AllKeys
      <3>1. t.index[i] \in Items
        BY <1>1, RecordType
      <3> HIDE DEF s
      <3> QED BY <1>1, <3>1 DEF Items, AllKeys
    <2> QED BY <1>1, <2>1 DEF TableOK
  <1>4. ASSUME NEW k \in Keys
        PROVE  LiveSaved(s)[k] = LiveIn(t)[k]
    <2>1. k # Index /\ k \in AllKeys
      BY CacheFileAssumption DEF AllKeys
    <2>2. CASE t.map[k] = 0
      BY <1>1, <2>1, <2>2 DEF LiveSaved, LiveIn, TableOK, Tables
    <2>3. CASE t.map[k] # 0
      <3>1. t.map[k] \in DOMAIN s /\ s[t.map[k]].key = k
        BY <1>1, <2>1, <2>3 DEF TableOK
      <3>2. \A i \in DOMAIN s : s[i].key = k => i = t.map[k]
        BY <1>1, <2>1 DEF TableOK
      <3>3. (CHOOSE i \in DOMAIN s : s[i].key = k) = t.map[k]
        BY <3>1, <3>2
      <3> QED BY <1>1, <2>1, <2>3, <3>1, <3>3 DEF LiveSaved, LiveIn
    <2> QED BY <2>2, <2>3
  <1> QED BY <1>2, <1>3, <1>4 DEF LiveSaved, LiveIn

LEMMA TableOfGood ==
    ASSUME NEW f \in Files, HeaderOK(f.hdr), Accept(f)
    PROVE  /\ TableOf(f) \in Tables
           /\ TableOK(TableOf(f))
           /\ LiveIn(TableOf(f)) = HeaderLive(f.hdr)
  <1> DEFINE ix == Records(f)
             u == TableOf(f)
             s == f.hdr.idx.hash
  <1>0. /\ f.hdr.idx \in Items /\ f.len \in Nat /\ f.hdr.idx.pos \in Nat
        /\ Free \notin AllKeys /\ Index \notin Keys
    BY CacheFileAssumption DEF Files, AllKeys, Items
  <1>1. CASE f.hdr.idx.pos = 0
    <2>1. ix = << >>
      BY <1>1 DEF Records
    <2>2. u = [index |-> << >>, free |-> {}, size |-> f.len + 1,
               map |-> [k \in AllKeys |-> 0]]
      BY <2>1 DEF TableOf, MapOf, AllKeys
    <2>3. u \in Tables
      BY <1>0, <2>2 DEF Tables, AllKeys
    <2>4. TableOK(u)
      BY <2>2 DEF TableOK
    <2>5. LiveIn(u) = HeaderLive(f.hdr)
      BY <1>1, <2>2 DEF LiveIn, HeaderLive, NoneLive, AllKeys
    <2> QED BY <2>3, <2>4, <2>5
  <1>2. CASE f.hdr.idx.pos # 0
    <2>1. f.hdr.idx.key = Index /\ s \in Snapshots /\ SnapshotOK(s)
      BY <1>2 DEF HeaderOK
    <2>2. /\ DOMAIN ix = DOMAIN s
          /\ \A i \in DOMAIN s : ix[i] = IF s[i].key = Index THEN f.hdr.idx ELSE s[i]
      BY <1>2 DEF Records
    <2>3. \A i \in DOMAIN s :
             /\ s[i].key \in AllKeys \cup {Free} /\ s[i].pos \in Nat
             /\ s[i].bsize \in Nat /\ s[i].dsize \in Nat
             /\ s[i].hash \in Data \cup {Nothing}
             /\ s[i] \in Items
      <3> DEFINE R == [key : Keys \cup {Index, Free}, pos : Nat, bsize : Nat,
                       dsize : Nat, hash : Data \cup {Nothing}]
      <3>1. \A i \in DOMAIN s : s[i] \in R
        <4>1. s \in Seq(R)
          BY <2>1 DEF Snapshots
        <4> HIDE DEF R
        <4> QED BY <4>1
      <3>2. R \subseteq Items
        BY DEF Items, Hashes
      <3>3. \A r \in R : /\ r.key \in AllKeys \cup {Free} /\ r.pos \in Nat
                         /\ r.bsize \in Nat /\ r.dsize \in Nat
                         /\ r.hash \in Data \cup {Nothing}
        BY DEF AllKeys
      <3> HIDE DEF R
      <3> QED BY <3>1, <3>2, <3>3
    <2>4. \A i \in DOMAIN s : ix[i].key = s[i].key /\ ix[i] \in Items
      BY <1>0, <2>1, <2>2, <2>3
    <2>5. \A i \in DOMAIN ix : ix[i].pos # 0
      <3>1. \A i \in DOMAIN Records(f) : ItemValid(f, Records(f)[i])
        BY <1>2 DEF Accept
      <3>2. \A i \in DOMAIN ix : ix[i].pos >= 1
        BY <3>1 DEF ItemValid
      <3> QED BY <3>2
    <2>6. ix \in Seq(Items)
      <3>1. ix = [i \in DOMAIN s |-> ix[i]] /\ DOMAIN s = 1 .. Len(s) /\ Len(s) \in Nat
        BY <1>2, <2>1 DEF Records, Snapshots
      <3> HIDE DEF ix
      <3> QED BY <2>2, <2>4, <3>1
    <2>7. /\ u.index = ix /\ u.free = {i \in DOMAIN ix : ix[i].key = Free}
          /\ u.size = f.len + 1 /\ u.map = MapOf(ix)
          /\ u = [index |-> u.index, free |-> u.free, size |-> u.size, map |-> u.map]
      BY DEF TableOf
    <2> HIDE DEF u, ix
    <2>8. ASSUME NEW k \in AllKeys
          PROVE  /\ u.map[k] = IF \E i \in DOMAIN ix : ix[i].key = k
                               THEN CHOOSE i \in DOMAIN ix : ix[i].key = k ELSE 0
                 /\ u.map[k] # 0 => u.map[k] \in DOMAIN ix /\ ix[u.map[k]].key = k
                 /\ u.map[k] \in Nat
                 /\ \A i \in DOMAIN ix : ix[i].key = k => u.map[k] = i
      <3>1. u.map[k] = IF \E i \in DOMAIN ix : ix[i].key = k
                       THEN CHOOSE i \in DOMAIN ix : ix[i].key = k ELSE 0
        BY <2>7 DEF MapOf, AllKeys
      <3>2. u.map[k] # 0 => u.map[k] \in DOMAIN ix /\ ix[u.map[k]].key = k
        BY <3>1
      <3>3. \A i \in DOMAIN ix : i \in Nat /\ i # 0
        BY <2>6
      <3>4. \A i, j \in DOMAIN ix : ix[i].key = k /\ ix[j].key = k => i = j
        <4>1. k # Free
          BY <1>0
        <4> QED BY <4>1, <2>1, <2>2, <2>4 DEF SnapshotOK
      <3> QED BY <3>1, <3>2, <3>3, <3>4
    <2>9. u \in Tables
      <3>1. u.map \in [AllKeys -> Nat]
        BY <2>7, <2>8 DEF MapOf, AllKeys
      <3>2. u.free \in SUBSET Nat
        BY <2>6, <2>7
      <3> QED BY <1>0, <2>6, <2>7, <3>1, <3>2 DEF Tables, AllKeys
    <2>10. TableOK(u)
      <3>1. \A i \in DOMAIN u.index : u.index[i].key # Index =>
                u.index[i].hash \in Data \cup {Nothing}
        BY <2>1, <2>2, <2>3, <2>7
      <3> QED BY <1>0, <2>5, <2>7, <2>8, <3>1 DEF TableOK
    <2>11. ASSUME NEW k \in Keys
           PROVE  LiveIn(u)[k] = LiveSaved(s)[k]
      <3>1. k \in AllKeys /\ k # Index
        BY <1>0 DEF AllKeys
      <3>2. \A i \in DOMAIN s : ix[i].key = k => ix[i] = s[i]
        BY <2>2, <2>4, <3>1
      <3>3. CASE \E i \in DOMAIN s : s[i].key = k
        <4>1. PICK i \in DOMAIN s : s[i].key = k
          BY <3>3
        <4>2. u.map[k] = i /\ i # 0
          BY <2>2, <2>4, <2>6, <2>8, <3>1, <4>1
        <4>3. (CHOOSE j \in DOMAIN s : s[j].key = k) = i
          BY <1>0, <2>1, <4>1, <3>1 DEF SnapshotOK, AllKeys
        <4> QED BY <2>4, <2>7, <3>2, <3>3, <4>1, <4>2, <4>3 DEF LiveIn, LiveSaved
      <3>4. CASE ~ \E i \in DOMAIN s : s[i].key = k
        <4>1. u.map[k] = 0
          BY <2>2, <2>4, <2>8, <3>1, <3>4
        <4> QED BY <3>4, <4>1 DEF LiveIn, LiveSaved
      <3> QED BY <3>3, <3>4
    <2>12. LiveIn(u) = HeaderLive(f.hdr)
      BY <1>2, <2>11 DEF LiveIn, LiveSaved, HeaderLive
    <2> QED BY <2>9, <2>10, <2>12 DEF u
  <1> QED BY <1>0, <1>1, <1>2

-----------------------------------------------------------------------------
(* The inductive invariant. *)

LEMMA LiveIsLiveIn == Live = LiveIn(tab)
  BY DEF Live, LiveIn

\* The types that Written and the header updates keep.
LEMMA WrittenType ==
    ASSUME NEW f \in Files, NEW it \in Items, NEW c \in Hashes \cup {Pad},
           NEW n \in Nat
    PROVE  /\ Written(f, it, c, n) \in Files
           /\ Written(f, it, c, n).hdr = f.hdr
  <1> DEFINE end == IF Padding(f, it, n) # {} THEN it.pos + it.bsize - 1
                                              ELSE it.pos + n - 1
             len == IF n > 0 /\ end > f.len THEN end ELSE f.len
             sec == [s \in 1 .. MaxSectors |->
                        IF s \in it.pos .. it.pos + n - 1 THEN c
                        ELSE IF s \in Padding(f, it, n) THEN Pad ELSE f.sec[s]]
  <1>1. Written(f, it, c, n) = [hdr |-> f.hdr, len |-> len, sec |-> sec]
    BY DEF Written
  <1>2. f.hdr \in [dirty : BOOLEAN, idx : Items, fsize : Nat] /\ f.len \in Nat
        /\ f.sec \in [1 .. MaxSectors -> Hashes \cup {Pad}]
    BY DEF Files
  <1>3. end \in Int
    BY DEF Items
  <1>4. len \in Nat
    <2> HIDE DEF end
    <2> QED BY <1>2, <1>3
  <1>5. sec \in [1 .. MaxSectors -> Hashes \cup {Pad}]
    BY <1>2
  <1> HIDE DEF len, sec
  <1> QED BY <1>1, <1>2, <1>4, <1>5 DEF Files

LEMMA ContentSizeNat ==
    ASSUME NEW k, NEW c, IF k = Index THEN c \in Snapshots ELSE c \in Data
    PROVE  ContentSize(k, c) \in Nat
  <1>1. CASE k = Index
    BY <1>1 DEF ContentSize, Snapshots
  <1>2. CASE k # Index
    BY <1>2, CacheFileAssumption DEF ContentSize
  <1> QED BY <1>1, <1>2

LEMMA NoTableGood == NoTable \in Tables /\ TableOK(NoTable)
  <1>1. NoTable.map \in [Keys \cup {Index} -> Nat] /\ NoTable.free = {}
        /\ NoTable.index = << >> /\ NoTable.size = 1
    BY DEF NoTable
  <1> QED BY <1>1 DEF NoTable, Tables, TableOK, AllKeys

LEMMA BlankType ==
    /\ [hdr |-> BlankHeader, sec |-> BlankSectors, len |-> 0] \in Files
    /\ [hdr |-> [BlankHeader EXCEPT !.fsize = 1], sec |-> BlankSectors, len |-> 0]
          \in Files
    /\ BlankHeader.dirty = TRUE /\ BlankHeader.idx.pos = 0
    /\ [BlankHeader EXCEPT !.fsize = 1].dirty = TRUE
    /\ [BlankHeader EXCEPT !.fsize = 1].idx.pos = 0
  BY DEF BlankHeader, BlankSectors, Files, NoItem, Item, Items, Hashes

LEMMA InitInv == Init => IInv
  <1> SUFFICES ASSUME Init PROVE IInv
    OBVIOUS
  <1>1. TypeOK
    BY NoTableGood, BlankType DEF Init, TypeOK, Hashes
  <1>2. TableOK(tab)
    BY NoTableGood DEF Init
  <1>3. HeaderOK(cached.hdr) /\ HeaderOK(disk.hdr)
    BY BlankType DEF Init, HeaderOK
  <1>4. TodoOK /\ FlagOK /\ DiskOK
    BY DEF Init, TodoOK, FlagOK, DiskOK
  <1> QED BY <1>1, <1>2, <1>3, <1>4 DEF IInv, Init

\* The parts of IInv for a step that touches neither the table nor the files.
LEMMA SameMemory ==
    ASSUME IInv, UNCHANGED <<tab, indexChanged, dirty, cached, disk>>,
           pc # "none", pc' # "none"
    PROVE  /\ TableOK(tab') /\ HeaderOK(cached.hdr') /\ HeaderOK(disk.hdr')
           /\ DiskOK'
           /\ ~ indexChanged' => HeaderLive(cached.hdr') = Live'
  BY DEF IInv, DiskOK, SameButFlag, Live

LEMMA SimpleHeaderType ==
    ASSUME NEW f \in Files, NEW b \in BOOLEAN
    PROVE  /\ SimpleHeader(f, b) \in Files
           /\ SimpleHeader(f, b).hdr.dirty = b
           /\ SimpleHeader(f, b).hdr.idx = f.hdr.idx
           /\ SimpleHeader(f, b).hdr.fsize = f.hdr.fsize
           /\ SimpleHeader(f, b).sec = f.sec
           /\ SimpleHeader(f, b).len = f.len
  BY DEF SimpleHeader, Files

LEMMA AgreeLive ==
    ASSUME NEW t, NEW u, NEW k \in AllKeys, AgreeBut(t, u, k),
           k \in Keys => /\ u.map[k] = t.map[k]
                         /\ u.index[u.map[k]].hash = t.index[t.map[k]].hash
    PROVE  LiveIn(u) = LiveIn(t)
  <1>1. ASSUME NEW j \in Keys PROVE LiveIn(u)[j] = LiveIn(t)[j]
    <2>1. CASE j = k
      BY <2>1 DEF LiveIn
    <2>2. CASE j # k
      BY <2>2 DEF LiveIn, AgreeBut, AllKeys
    <2> QED BY <2>1, <2>2
  <1> QED BY <1>1 DEF LiveIn

LEMMA CreateInv == ASSUME IInv, Create PROVE IInv'
  <1>1. TypeOK'
    BY NoTableGood, BlankType DEF IInv, TypeOK, Create
  <1>2. TableOK(tab)'
    BY NoTableGood DEF Create
  <1>3. HeaderOK(cached.hdr)' /\ HeaderOK(disk.hdr)'
    BY BlankType DEF Create, HeaderOK
  <1>4. TodoOK' /\ FlagOK' /\ DiskOK'
    BY BlankType DEF Create, TodoOK, FlagOK, DiskOK, SameButFlag
  <1>5. HeaderLive(cached.hdr)' = Live'
    BY BlankType DEF Create, HeaderLive, NoneLive, Live, NoTable
  <1> QED BY <1>1, <1>2, <1>3, <1>4, <1>5 DEF IInv

LEMMA OpenInv == ASSUME IInv, Open PROVE IInv'
  <1>1. /\ cached = disk /\ disk \in Files /\ HeaderOK(disk.hdr) /\ Accept(disk)
    BY DEF IInv, Open, DiskOK, TypeOK
  <1>2. /\ TableOf(disk) \in Tables /\ TableOK(TableOf(disk))
        /\ LiveIn(TableOf(disk)) = HeaderLive(disk.hdr)
    BY <1>1, TableOfGood
  <1>3. TypeOK'
    BY <1>2 DEF IInv, TypeOK, Open, history
  <1>4. TodoOK' /\ FlagOK' /\ DiskOK'
    <2>1. ~ disk.hdr.dirty
      BY <1>1 DEF Accept
    <2>2. TodoOK'
      BY DEF Open, TodoOK
    <2>3. FlagOK'
      BY <1>1, <2>1 DEF Open, FlagOK, TypeOK, IInv, Files
    <2>4. DiskOK'
      BY <1>1 DEF Open, DiskOK, SameButFlag
    <2> QED BY <2>2, <2>3, <2>4
  <1>5. HeaderLive(cached.hdr)' = Live'
    BY <1>1, <1>2 DEF Open, Live, LiveIn
  <1> QED BY <1>1, <1>2, <1>3, <1>4, <1>5 DEF IInv, Open, HeaderOK

LEMMA StartMarkingInv ==
    ASSUME IInv, pc = "idle", ~ dirty, StartMarking,
           UNCHANGED <<tab, indexChanged, disk, history>>,
           todo' \in [key : Keys \cup {Index, Free}, data : Hashes],
           todo'.key # Free => todo'.key \in Keys /\ todo'.data \in Data
    PROVE  IInv'
  <1>1. cached \in Files
    BY DEF IInv, TypeOK
  <1>2. TypeOK'
    BY <1>1, SimpleHeaderType DEF IInv, TypeOK, StartMarking, history
  <1>3. cached'.hdr.idx = cached.hdr.idx /\ cached'.hdr.dirty = TRUE
    BY <1>1, SimpleHeaderType DEF StartMarking
  <1>4. HeaderOK(cached.hdr)' /\ HeaderOK(disk.hdr)' /\ TableOK(tab)'
    BY <1>3 DEF IInv, HeaderOK
  <1>5. TodoOK' /\ FlagOK'
    BY <1>3 DEF TodoOK, FlagOK, StartMarking
  <1>6. DiskOK'
    BY <1>1, SimpleHeaderType DEF IInv, DiskOK, FlagOK, StartMarking, SameButFlag
  <1>7. ~ indexChanged' => HeaderLive(cached.hdr)' = Live'
    BY <1>3 DEF IInv, HeaderLive, Live
  <1> QED BY <1>2, <1>4, <1>5, <1>6, <1>7 DEF IInv

LEMMA BeginWriteInv ==
    ASSUME IInv, NEW k \in Keys, NEW d \in Data, BeginWrite(k, d) PROVE IInv'
  <1>1. /\ todo'.key = k /\ todo'.data = d
        /\ todo' \in [key : Keys \cup {Index, Free}, data : Hashes]
    BY DEF BeginWrite, Hashes
  <1>2. CASE dirty
    <2>1. TypeOK'
      BY <1>1, <1>2 DEF IInv, TypeOK, BeginWrite, history
    <2>2. TodoOK' /\ FlagOK'
      BY <1>1, <1>2, CacheFileAssumption DEF IInv, TodoOK, FlagOK, BeginWrite, Idle
    <2>3. UNCHANGED <<tab, indexChanged, dirty, cached, disk>> /\ pc # "none" /\ pc' # "none"
      BY <1>2 DEF BeginWrite, Idle
    <2> QED BY <2>1, <2>2, <2>3, SameMemory DEF IInv
  <1>3. CASE ~ dirty
    BY <1>1, <1>3, StartMarkingInv DEF BeginWrite, Idle
  <1> QED BY <1>2, <1>3

LEMMA LeaveDirtyInv == ASSUME IInv, LeaveDirty PROVE IInv'
  <1>1. /\ todo'.key = Free
        /\ todo' \in [key : Keys \cup {Index, Free}, data : Hashes]
    BY DEF LeaveDirty, Hashes
  <1> QED BY <1>1, StartMarkingInv DEF LeaveDirty, Idle

LEMMA MarkedInv == ASSUME IInv, Marked PROVE IInv'
  <1>1. TypeOK'
    BY DEF IInv, TypeOK, Marked, memory, history
  <1>2. TodoOK' /\ FlagOK'
    BY CacheFileAssumption DEF IInv, TodoOK, FlagOK, Marked, memory
  <1>3. UNCHANGED <<tab, indexChanged, dirty, cached, disk>> /\ pc # "none" /\ pc' # "none"
    BY DEF Marked, memory
  <1> QED BY <1>1, <1>2, <1>3, SameMemory DEF IInv

\* What Place and PlaceFails write, and where.
LEMMA TodoType ==
    ASSUME IInv, pc = "place"
    PROVE  /\ todo.key \in AllKeys
           /\ ContentSize(todo.key, todo.data) \in Nat
           /\ todo.data \in Hashes
           /\ todo.key # Index => todo.data \in Data \cup {Nothing}
           /\ tab \in Tables /\ TableOK(tab) /\ cached \in Files
           /\ dirty /\ disk.hdr.dirty /\ cached.hdr.dirty
  <1>1. IF todo.key = Index THEN todo.data \in Snapshots ELSE todo.data \in Data
    BY SnapshotGood DEF IInv, TypeOK, TodoOK
  <1>2. ContentSize(todo.key, todo.data) \in Nat
    BY <1>1, ContentSizeNat
  <1>3. todo.key \in AllKeys
    BY DEF IInv, TodoOK, AllKeys
  <1> QED BY <1>1, <1>2, <1>3 DEF IInv, TypeOK, TodoOK, FlagOK, Hashes

LEMMA PlaceInv == ASSUME IInv, Place PROVE IInv'
  <1> DEFINE k == todo.key
             n == ContentSize(todo.key, todo.data)
             u(t) == [t EXCEPT !.index[t.map[k]] =
                                  Rewritten(t.index[t.map[k]], n, todo.data)]
             it(t) == Rewritten(t.index[t.map[k]], n, todo.data)
  <1>0. pc = "place"
    BY DEF Place
  <1>1. PICK t \in Room(tab, k, n) :
          /\ tab' = u(t)
          /\ cached' = Written(cached, it(t), todo.data, Sectors(it(t).dsize))
          /\ aliased' = (aliased \/ (k = Index /\ t.map[k] \in tab.free))
    BY DEF Place
  <1>2. t \in Tables /\ TableOK(t) /\ t.map[k] # 0 /\ AgreeBut(tab, t, k)
    BY <1>0, TodoType, RoomOK
  <1>3. /\ u(t) \in Tables /\ TableOK(u(t)) /\ AgreeBut(t, u(t), k)
        /\ u(t).map[k] = t.map[k] /\ u(t).index[u(t).map[k]].hash = todo.data
    BY <1>0, <1>2, TodoType, RecordOK
  <1>4. it(t) \in Items /\ it(t).dsize = n
    <2>1. t.map[k] \in DOMAIN t.index /\ t.index[t.map[k]] \in Items
      BY <1>0, <1>2, TodoType, RecordType DEF TableOK
    <2> QED BY <1>0, <2>1, TodoType DEF Rewritten, Item, Items
  <1>5. cached' \in Files /\ cached'.hdr = cached.hdr
    BY <1>0, <1>1, <1>4, TodoType, SectorsNat, WrittenType
  <1> HIDE DEF u, it, n
  <1>6. TypeOK'
    BY <1>0, <1>1, <1>3, <1>5 DEF IInv, TypeOK, Place, NoteIndexChange
  <1>7. HeaderOK(cached.hdr)' /\ HeaderOK(disk.hdr)' /\ TableOK(tab)'
    BY <1>1, <1>3, <1>5 DEF IInv, HeaderOK, Place
  <1>8. FlagOK' /\ DiskOK'
    <2>1. dirty /\ disk.hdr.dirty /\ cached.hdr.dirty = dirty
      BY <1>0, TodoType DEF IInv, FlagOK
    <2>2. /\ dirty' = dirty /\ disk' = disk /\ pc' \in {"header", "idle"}
          /\ indexChanged' = TRUE
      BY DEF Place, NoteIndexChange
    <2>3. FlagOK'
      BY <1>5, <2>1, <2>2 DEF FlagOK
    <2>4. DiskOK'
      BY <2>1, <2>2 DEF DiskOK
    <2> QED BY <2>3, <2>4
  <1>9. CASE k = Index
    <2>1. todo.data = Snapshot(tab.index)
      BY <1>0, <1>9 DEF IInv, TodoOK
    <2>2. /\ todo.data \in Snapshots /\ SnapshotOK(todo.data)
          /\ LiveSaved(todo.data) = LiveIn(tab)
      BY <1>0, <2>1, TodoType, SnapshotGood
    <2>3. LiveIn(t) = LiveIn(tab) /\ LiveIn(u(t)) = LiveIn(t)
      BY <1>0, <1>2, <1>3, <1>9, TodoType, AgreeLive, CacheFileAssumption
    <2>4. Live' = LiveSaved(todo.data)
      BY <1>1, <2>2, <2>3 DEF Live, LiveIn
    <2>5. TodoOK'
      BY <1>1, <1>2, <1>3, <1>9, <2>2, <2>4 DEF TodoOK, Place
    <2> QED BY <1>6, <1>7, <1>8, <2>5 DEF IInv, Place, NoteIndexChange
  <1>10. CASE k # Index
    <2>1. TodoOK'
      BY <1>10 DEF TodoOK, Place
    <2> QED BY <1>6, <1>7, <1>8, <2>1 DEF IInv, Place, NoteIndexChange
  <1> QED BY <1>9, <1>10

LEMMA PlaceFailsInv == ASSUME IInv, PlaceFails PROVE IInv'
  <1> DEFINE k == todo.key
             n == ContentSize(todo.key, todo.data)
             it(t) == Rewritten(t.index[t.map[k]], n, t.index[t.map[k]].hash)
             u(t) == [t EXCEPT !.index[t.map[k]] = it(t)]
  <1>0. pc = "place"
    BY DEF PlaceFails
  <1>1. PICK t \in Room(tab, k, n) :
          \E m \in 0 .. Sectors(it(t).dsize) - 1 :
             /\ tab' = u(t)
             /\ cached' = Written(cached, it(t), todo.data, m)
             /\ indexChanged' = (indexChanged \/ t # tab)
    BY DEF PlaceFails
  <1>2. t \in Tables /\ TableOK(t) /\ t.map[k] # 0 /\ AgreeBut(tab, t, k)
    BY <1>0, TodoType, RoomOK
  <1>3. /\ t.map[k] \in DOMAIN t.index /\ t.index[t.map[k]] \in Items
        /\ t.index[t.map[k]].hash \in Hashes
        /\ k # Index => t.index[t.map[k]].hash \in Data \cup {Nothing}
    <2>1. t.map[k] \in DOMAIN t.index /\ t.index[t.map[k]].key = k
      BY <1>0, <1>2, TodoType DEF TableOK
    <2>2. t.index[t.map[k]] \in Items
      BY <1>2, <2>1, RecordType
    <2> QED BY <1>2, <2>1, <2>2 DEF TableOK, Items
  <1>4. /\ u(t) \in Tables /\ TableOK(u(t)) /\ AgreeBut(t, u(t), k)
        /\ u(t).map[k] = t.map[k]
        /\ u(t).index[u(t).map[k]].hash = t.index[t.map[k]].hash
    <2> DEFINE h == t.index[t.map[k]].hash
    <2>1. h \in Hashes /\ (k # Index => h \in Data \cup {Nothing})
      BY <1>3
    <2>2. n \in Nat /\ k \in AllKeys
      BY <1>0, TodoType
    <2> HIDE DEF h, n, k
    <2>3. LET v == [t EXCEPT !.index[t.map[k]] = Rewritten(t.index[t.map[k]], n, h)]
          IN /\ v \in Tables /\ TableOK(v) /\ AgreeBut(t, v, k)
             /\ v.map[k] = t.map[k] /\ v.index[v.map[k]].hash = h
      BY <1>2, <2>1, <2>2, RecordOK
    <2> QED BY <2>3 DEF h
  <1>6. n \in Nat /\ Sectors(n) \in Nat /\ todo.data \in Hashes /\ cached \in Files
    BY <1>0, TodoType, SectorsNat
  <1>5. it(t) \in Items /\ it(t).dsize = n
    <2> DEFINE b == t.index[t.map[k]]
    <2>1. b \in Items
      BY <1>3
    <2> HIDE DEF b, n
    <2>2. Rewritten(b, n, b.hash) \in Items /\ Rewritten(b, n, b.hash).dsize = n
      BY <1>6, <2>1 DEF Rewritten, Item, Items
    <2> QED BY <2>2 DEF b
  <1>7. cached' \in Files /\ cached'.hdr = cached.hdr
    <2> HIDE DEF u, it, n
    <2>1. PICK m \in 0 .. Sectors(it(t).dsize) - 1 :
              cached' = Written(cached, it(t), todo.data, m)
      BY <1>1, Zenon
    <2>2. m \in Nat
      BY <1>5, <1>6, <2>1
    <2> QED BY <1>5, <1>6, <2>1, <2>2, WrittenType
  <1> HIDE DEF u, it, n
  <1>8. TypeOK'
    <2>1. tab' \in Tables
      BY <1>1, <1>4, Zenon
    <2>2. indexChanged' \in BOOLEAN
      BY <1>1 DEF IInv, TypeOK
    <2>3. UNCHANGED <<dirty, todo, disk, aliased>> /\ pc' = "idle" /\ failures' = failures + 1
      BY DEF PlaceFails
    <2> QED BY <1>7, <2>1, <2>2, <2>3 DEF IInv, TypeOK
  <1>9. HeaderOK(cached.hdr)' /\ HeaderOK(disk.hdr)' /\ TableOK(tab)'
    BY <1>1, <1>4, <1>7 DEF IInv, HeaderOK, PlaceFails
  <1>10. FlagOK' /\ DiskOK' /\ TodoOK'
    BY <1>0, <1>7, TodoType DEF IInv, FlagOK, DiskOK, TodoOK, PlaceFails
  <1>11. ~ indexChanged' => HeaderLive(cached.hdr)' = Live'
    <2> SUFFICES ASSUME ~ indexChanged' PROVE HeaderLive(cached.hdr)' = Live'
      OBVIOUS
    <2>1. t = tab /\ ~ indexChanged
      BY <1>1
    <2>2. LiveIn(u(t)) = LiveIn(tab)
      BY <1>0, <1>4, <2>1, TodoType, AgreeLive
    <2> QED BY <1>0, <1>1, <1>7, <2>1, <2>2 DEF IInv, Live, LiveIn, HeaderLive
  <1> QED BY <1>8, <1>9, <1>10, <1>11 DEF IInv

LEMMA BeginFlushInv == ASSUME IInv, BeginFlush PROVE IInv'
  <1>0. /\ tab \in Tables /\ TableOK(tab) /\ Index \in AllKeys
        /\ 2 * Len(tab.index) + IndexSlack \in Nat
        /\ dirty /\ disk.hdr.dirty /\ cached.hdr.dirty
    <2>1. tab \in Tables /\ TableOK(tab) /\ Index \in AllKeys
      BY DEF IInv, TypeOK, AllKeys
    <2>2. Len(tab.index) \in Nat /\ IndexSlack \in Nat
      BY <2>1, CacheFileAssumption DEF Tables
    <2>3. dirty /\ disk.hdr.dirty /\ cached.hdr.dirty
      BY DEF IInv, FlagOK, BeginFlush, Idle
    <2> QED BY <2>1, <2>2, <2>3
  <1>1. PICK t \in IF tab.map[Index] = 0
                   THEN AllocBlock(tab, Index, 2 * Len(tab.index) + IndexSlack)
                   ELSE {tab} :
          /\ tab' = t
          /\ todo' = [key |-> Index, data |-> Snapshot(t.index)]
          /\ pc' = IF Same(Index, Snapshot(t.index)) THEN "header" ELSE "place"
    BY DEF BeginFlush
  <1>2. t \in Tables /\ TableOK(t) /\ t.map[Index] # 0
    <2>1. CASE tab.map[Index] = 0
      BY <1>0, <1>1, <2>1, AllocBlockOK
    <2>2. CASE tab.map[Index] # 0
      BY <1>0, <1>1, <2>2
    <2> QED BY <2>1, <2>2
  <1>3. /\ Snapshot(t.index) \in Snapshots /\ SnapshotOK(Snapshot(t.index))
        /\ LiveSaved(Snapshot(t.index)) = LiveIn(t)
    BY <1>2, SnapshotGood
  <1>4. TypeOK'
    BY <1>1, <1>2, <1>3 DEF IInv, TypeOK, BeginFlush, Hashes, history
  <1>5. HeaderOK(cached.hdr)' /\ HeaderOK(disk.hdr)' /\ TableOK(tab)'
    BY <1>1, <1>2 DEF IInv, HeaderOK, BeginFlush
  <1>6. FlagOK' /\ DiskOK'
    BY <1>0, <1>1 DEF IInv, FlagOK, DiskOK, BeginFlush
  <1>7. TodoOK'
    <2>1. CASE Same(Index, Snapshot(t.index))
      <3>1. tab.map[Index] # 0 /\ tab.index[tab.map[Index]].hash = Snapshot(t.index)
        BY <2>1 DEF Same
      <3>2. t = tab
        BY <1>1, <3>1
      <3>3. Live' = LiveIn(t)
        BY <1>1 DEF Live, LiveIn
      <3> QED BY <1>1, <1>2, <1>3, <2>1, <3>1, <3>2, <3>3 DEF TodoOK
    <2>2. CASE ~ Same(Index, Snapshot(t.index))
      BY <1>1, <1>2, <2>2 DEF TodoOK
    <2> QED BY <2>1, <2>2
  <1> QED BY <1>4, <1>5, <1>6, <1>7 DEF IInv, BeginFlush

LEMMA UpdateHeaderInv == ASSUME IInv, UpdateHeader PROVE IInv'
  <1> DEFINE b == tab.index[tab.map[Index]]
             h == [dirty |-> dirty, idx |-> b, fsize |-> tab.size]
  <1>0. /\ tab \in Tables /\ TableOK(tab) /\ Index \in AllKeys
        /\ dirty \in BOOLEAN /\ tab.map[Index] # 0
    BY DEF IInv, TypeOK, AllKeys, TodoOK, UpdateHeader
  <1>1. tab.map[Index] \in DOMAIN tab.index /\ b.key = Index /\ b.pos # 0
    BY <1>0 DEF TableOK
  <1>2. b \in Items /\ tab.size \in Nat
    BY <1>0, <1>1, RecordType DEF Tables
  <1>3. /\ b.hash = todo.data /\ b.hash \in Snapshots /\ SnapshotOK(b.hash)
        /\ LiveSaved(b.hash) = Live
    BY DEF IInv, TodoOK, UpdateHeader
  <1>4. cached' = [cached EXCEPT !.hdr = h] /\ cached \in Files
    BY DEF UpdateHeader, Header, IInv, TypeOK
  <1> HIDE DEF b
  <1>5. /\ cached' \in Files /\ cached'.hdr = h /\ cached'.sec = cached.sec
        /\ cached'.len = cached.len
    BY <1>0, <1>2, <1>4 DEF Files
  <1>6. TypeOK'
    BY <1>5 DEF IInv, TypeOK, UpdateHeader, history
  <1>7. HeaderOK(cached.hdr)' /\ HeaderOK(disk.hdr)' /\ TableOK(tab)'
    BY <1>1, <1>3, <1>5 DEF IInv, HeaderOK, UpdateHeader
  <1>8. FlagOK' /\ DiskOK' /\ TodoOK'
    <2>1. pc = "header" /\ dirty /\ disk.hdr.dirty
      BY DEF IInv, FlagOK, UpdateHeader
    <2>a. cached'.hdr.dirty = dirty
      BY <1>5
    <2>b. pc' = "clearing" /\ dirty' = dirty /\ disk' = disk /\ ~ indexChanged'
      BY DEF UpdateHeader
    <2>2. FlagOK' /\ TodoOK'
      BY <2>1, <2>a, <2>b DEF FlagOK, TodoOK
    <2>3. DiskOK'
      BY <2>1 DEF DiskOK, UpdateHeader
    <2> QED BY <2>2, <2>3
  <1>9. HeaderLive(cached.hdr)' = Live'
    BY <1>1, <1>3, <1>5 DEF HeaderLive, Live, UpdateHeader
  <1> QED BY <1>6, <1>7, <1>8, <1>9 DEF IInv

LEMMA ClearFlagInv == ASSUME IInv, ClearFlag PROVE IInv'
  <1>1. cached \in Files /\ cached = disk /\ dirty /\ disk.hdr.dirty
    BY DEF IInv, TypeOK, ClearFlag, FlagOK
  <1>2. /\ cached' \in Files /\ cached'.hdr.dirty = FALSE
        /\ cached'.hdr.idx = cached.hdr.idx /\ cached'.hdr.fsize = cached.hdr.fsize
        /\ cached'.sec = cached.sec /\ cached'.len = cached.len
    BY <1>1, SimpleHeaderType DEF ClearFlag
  <1>3. TypeOK'
    BY <1>2 DEF IInv, TypeOK, ClearFlag, history
  <1>4. HeaderOK(cached.hdr)' /\ HeaderOK(disk.hdr)' /\ TableOK(tab)'
    BY <1>2 DEF IInv, HeaderOK, ClearFlag
  <1>5. FlagOK' /\ TodoOK'
    BY <1>2 DEF IInv, FlagOK, TodoOK, ClearFlag
  <1>6. DiskOK'
    BY <1>1, <1>2 DEF DiskOK, SameButFlag, ClearFlag
  <1>7. ~ indexChanged' => HeaderLive(cached.hdr)' = Live'
    BY <1>2 DEF IInv, HeaderLive, Live, ClearFlag
  <1> QED BY <1>3, <1>4, <1>5, <1>6, <1>7 DEF IInv

LEMMA FlushStepsInv == ASSUME IInv, FlushUnchanged \/ Cleared PROVE IInv'
  <1>1. TypeOK'
    BY DEF IInv, TypeOK, FlushUnchanged, Cleared, memory, history
  <1>2. TodoOK' /\ FlagOK'
    BY DEF IInv, TodoOK, FlagOK, FlushUnchanged, Cleared, memory, Idle
  <1>3. UNCHANGED <<tab, indexChanged, dirty, cached, disk>> /\ pc # "none" /\ pc' # "none"
    BY DEF FlushUnchanged, Cleared, memory, Idle
  <1> QED BY <1>1, <1>2, <1>3, SameMemory DEF IInv

LEMMA WriteBackHeaderInv == ASSUME IInv, WriteBackHeader PROVE IInv'
  <1>1. cached \in Files /\ disk \in Files
    BY DEF IInv, TypeOK
  <1>2. /\ disk' \in Files /\ disk'.hdr = cached.hdr /\ disk'.sec = disk.sec
        /\ disk'.len = disk.len
    BY <1>1 DEF WriteBackHeader, Files
  <1>3. TypeOK'
    BY <1>2 DEF IInv, TypeOK, WriteBackHeader, memory, history
  <1>4. HeaderOK(cached.hdr)' /\ HeaderOK(disk.hdr)' /\ TableOK(tab)'
    BY <1>2 DEF IInv, HeaderOK, WriteBackHeader, memory
  <1>5. FlagOK' /\ TodoOK'
    BY <1>2 DEF IInv, FlagOK, TodoOK, WriteBackHeader, memory, Live
  <1>6. DiskOK'
    BY <1>2 DEF IInv, DiskOK, FlagOK, SameButFlag, WriteBackHeader, memory
  <1>7. ~ indexChanged' => HeaderLive(cached.hdr)' = Live'
    BY DEF IInv, HeaderLive, Live, WriteBackHeader, memory
  <1> QED BY <1>3, <1>4, <1>5, <1>6, <1>7 DEF IInv

LEMMA WriteBackSectorInv ==
    ASSUME IInv, NEW s \in 1 .. MaxSectors, WriteBackSector(s) PROVE IInv'
  <1>1. cached \in Files /\ disk \in Files
    BY DEF IInv, TypeOK
  <1>2. /\ disk' \in Files /\ disk'.hdr = disk.hdr
    <2> DEFINE sec == [disk.sec EXCEPT ![s] = cached.sec[s]]
               len == IF s > disk.len THEN s ELSE disk.len
    <2>1. sec \in [1 .. MaxSectors -> Hashes \cup {Pad}]
      BY <1>1 DEF Files
    <2>2. len \in Nat
      BY <1>1, CacheFileAssumption DEF Files
    <2>3. disk' = [hdr |-> disk.hdr, sec |-> sec, len |-> len]
      BY DEF WriteBackSector
    <2> HIDE DEF sec, len
    <2> QED BY <1>1, <2>1, <2>2, <2>3 DEF Files
  <1>3. dirty /\ disk.hdr.dirty
    BY DEF IInv, DiskOK, SameButFlag, WriteBackSector
  <1>4. TypeOK'
    BY <1>2 DEF IInv, TypeOK, WriteBackSector, memory, history
  <1>5. HeaderOK(cached.hdr)' /\ HeaderOK(disk.hdr)' /\ TableOK(tab)'
    BY <1>2 DEF IInv, HeaderOK, WriteBackSector, memory
  <1>6. FlagOK' /\ TodoOK' /\ DiskOK'
    BY <1>2, <1>3 DEF IInv, FlagOK, TodoOK, DiskOK, WriteBackSector, memory, Live
  <1>7. ~ indexChanged' => HeaderLive(cached.hdr)' = Live'
    BY DEF IInv, HeaderLive, Live, WriteBackSector, memory
  <1> QED BY <1>4, <1>5, <1>6, <1>7 DEF IInv

LEMMA CrashInv == ASSUME IInv, Crash PROVE IInv'
  <1>1. TypeOK'
    BY NoTableGood DEF IInv, TypeOK, Crash, history
  <1>2. HeaderOK(cached.hdr)' /\ HeaderOK(disk.hdr)' /\ TableOK(tab)'
    BY NoTableGood DEF IInv, HeaderOK, Crash
  <1>3. FlagOK' /\ TodoOK' /\ DiskOK'
    BY DEF FlagOK, TodoOK, DiskOK, Crash
  <1> QED BY <1>1, <1>2, <1>3 DEF IInv, Crash

LEMMA StutterInv == ASSUME IInv, UNCHANGED vars PROVE IInv'
  <1> USE DEF vars
  <1>1. TypeOK' /\ TodoOK' /\ FlagOK' /\ DiskOK'
    BY DEF IInv, TypeOK, TodoOK, FlagOK, DiskOK, SameButFlag, Live
  <1> QED BY <1>1 DEF IInv, Live

\* Every action keeps the inductive invariant.
LEMMA NextInv == IInv /\ [Next]_vars => IInv'
  <1> SUFFICES ASSUME IInv, [Next]_vars PROVE IInv'
    OBVIOUS
  <1>1. CASE Create \/ Open
    BY <1>1, CreateInv, OpenInv
  <1>2. CASE \E k \in Keys, d \in Data : BeginWrite(k, d)
    BY <1>2, BeginWriteInv
  <1>3. CASE LeaveDirty \/ Marked
    BY <1>3, LeaveDirtyInv, MarkedInv
  <1>4. CASE Place \/ PlaceFails
    BY <1>4, PlaceInv, PlaceFailsInv
  <1>5. CASE BeginFlush \/ FlushUnchanged \/ UpdateHeader \/ ClearFlag \/ Cleared
    BY <1>5, BeginFlushInv, FlushStepsInv, UpdateHeaderInv, ClearFlagInv
  <1>6. CASE WriteBackHeader \/ \E s \in 1 .. MaxSectors : WriteBackSector(s)
    BY <1>6, WriteBackHeaderInv, WriteBackSectorInv
  <1>7. CASE Crash \/ UNCHANGED vars
    BY <1>7, CrashInv, StutterInv
  <1> QED BY <1>1, <1>2, <1>3, <1>4, <1>5, <1>6, <1>7 DEF Next

LEMMA Invariance == Spec => []IInv
  BY InitInv, NextInv, PTL DEF Spec

-----------------------------------------------------------------------------
(* The theorems. *)

\* The members of CacheFile and the file keep their types.
THEOREM TypeCorrect == Spec => []TypeOK
  <1>1. IInv => TypeOK
    BY DEF IInv
  <1> QED BY <1>1, Invariance, PTL

\* The image of a file is what its header's copy of the index names.
LEMMA ImageIsLive ==
    ASSUME NEW f \in Files, HeaderOK(f.hdr), Accept(f)
    PROVE  Image(f) = HeaderLive(f.hdr)
  <1>1. Image(f) = LiveIn(TableOf(f))
    BY DEF Image, LiveIn, TableOf
  <1> QED BY <1>1, TableOfGood

LEMMA AcceptedIsLive == IInv => RestartSeesLive
  <1> SUFFICES ASSUME IInv, pc # "none", Accept(disk) PROVE Image(disk) = Live
    BY DEF RestartSeesLive
  <1>1. Image(disk) = HeaderLive(disk.hdr)
    BY ImageIsLive DEF IInv, TypeOK
  <1>2. ~ disk.hdr.dirty
    BY DEF Accept
  <1> QED BY <1>1, <1>2 DEF IInv, DiskOK, SameButFlag, HeaderLive

\* Whatever the sizes, the contents, the failing writes and the moment of the
\* crash: a file that open() accepts holds exactly what the program that wrote
\* it believed to have stored (write, flush and setDirtyFlag of CacheFile).
THEOREM AcceptedFileIsLive == Spec => []RestartSeesLive
  BY AcceptedIsLive, Invariance, PTL

\* write() touches no block of a file the disk still calls clean.
THEOREM NoDataBeforeDirty == Spec => DirtyBeforeData
  <1>1. IInv /\ [Next]_vars =>
           [disk'.sec # disk.sec /\ pc # "none" => disk.hdr.dirty]_vars
    <2> SUFFICES ASSUME IInv, Next, disk'.sec # disk.sec, pc # "none"
                 PROVE  disk.hdr.dirty
      BY DEF vars
    <2>1. CASE WriteBackHeader
      BY <2>1 DEF WriteBackHeader, IInv, TypeOK, Files
    <2>2. CASE \E s \in 1 .. MaxSectors : WriteBackSector(s)
      BY <2>2 DEF WriteBackSector, IInv, DiskOK, SameButFlag
    <2> QED BY <2>1, <2>2 DEF Next, Create, Open, BeginWrite, LeaveDirty, Marked,
              Place, PlaceFails, BeginFlush, FlushUnchanged, UpdateHeader,
              ClearFlag, Cleared, Crash
  <1> QED BY <1>1, Invariance, PTL DEF Spec, DirtyBeforeData

-----------------------------------------------------------------------------
(* CacheFile implements CacheStore. *)

StoreMem   == IF pc = "none" THEN [k \in Keys |-> Nothing] ELSE Live
StoreSaved == IF Accept(disk) THEN {Image(disk)} ELSE {}

\* A step that keeps the program's contents maps to an invalidation, a commit
\* or nothing, whatever it does to the files.
LEMMA LiveKept ==
    ASSUME RestartSeesLive, RestartSeesLive', pc # "none", pc' # "none", Live' = Live
    PROVE  Store!Next \/ UNCHANGED Store!vars
  <1>1. StoreSaved \in {{}, {Live}} /\ StoreSaved' \in {{}, {Live}}
    BY DEF StoreSaved, RestartSeesLive
  <1>2. CASE StoreSaved' = StoreSaved
    BY <1>2 DEF Store!vars, StoreSaved
  <1>3. CASE StoreSaved # {} /\ StoreSaved' = {}
    <2>1. Store!Invalidate
      BY <1>3 DEF Store!Invalidate, StoreSaved
    <2> QED BY <2>1 DEF Store!Next
  <1>4. CASE StoreSaved = {} /\ StoreSaved' = {Live}
    <2>1. Store!Commit
      BY <1>4 DEF Store!Commit, StoreSaved
    <2> QED BY <2>1 DEF Store!Next
  <1> QED BY <1>1, <1>2, <1>3, <1>4

LEMMA AgreeBoth ==
    ASSUME NEW t, NEW u, NEW v, NEW k \in AllKeys, AgreeBut(t, u, k), AgreeBut(u, v, k)
    PROVE  AgreeBut(t, v, k)
  BY DEF AgreeBut

\* The table after a write: nothing but the record of the key has changed.
LEMMA PlaceTable ==
    ASSUME IInv, Place
    PROVE  /\ AgreeBut(tab, tab', todo.key) /\ tab'.map[todo.key] # 0
           /\ tab'.index[tab'.map[todo.key]].hash = todo.data
  <1> DEFINE k == todo.key
             n == ContentSize(todo.key, todo.data)
             u(t) == [t EXCEPT !.index[t.map[k]] =
                                  Rewritten(t.index[t.map[k]], n, todo.data)]
  <1>0. pc = "place"
    BY DEF Place
  <1>1. PICK t \in Room(tab, k, n) : tab' = u(t)
    BY DEF Place
  <1>2. t \in Tables /\ TableOK(t) /\ t.map[k] # 0 /\ AgreeBut(tab, t, k)
    BY <1>0, TodoType, RoomOK
  <1>3. /\ AgreeBut(t, u(t), k)
        /\ u(t).map[k] = t.map[k] /\ u(t).index[u(t).map[k]].hash = todo.data
    BY <1>0, <1>2, TodoType, RecordOK
  <1> HIDE DEF u, n
  <1> QED BY <1>0, <1>1, <1>2, <1>3, TodoType, AgreeBoth

LEMMA PlaceFailsTable ==
    ASSUME IInv, PlaceFails PROVE AgreeBut(tab, tab', todo.key)
  <1> DEFINE k == todo.key
             n == ContentSize(todo.key, todo.data)
             it(t) == Rewritten(t.index[t.map[k]], n, t.index[t.map[k]].hash)
             u(t) == [t EXCEPT !.index[t.map[k]] = it(t)]
  <1>0. pc = "place"
    BY DEF PlaceFails
  <1>1. PICK t \in Room(tab, k, n) : tab' = u(t)
    BY DEF PlaceFails
  <1>2. t \in Tables /\ TableOK(t) /\ t.map[k] # 0 /\ AgreeBut(tab, t, k)
    BY <1>0, TodoType, RoomOK
  <1>3. AgreeBut(t, u(t), k)
    <2> DEFINE h == t.index[t.map[k]].hash
    <2>1. t.map[k] \in DOMAIN t.index /\ t.index[t.map[k]].key = k
      BY <1>0, <1>2, TodoType DEF TableOK
    <2>2. h \in Hashes /\ (k # Index => h \in Data \cup {Nothing})
      BY <1>2, <2>1, RecordType DEF TableOK, Items
    <2>3. n \in Nat /\ k \in AllKeys
      BY <1>0, TodoType
    <2> HIDE DEF h, n, k
    <2>4. LET v == [t EXCEPT !.index[t.map[k]] = Rewritten(t.index[t.map[k]], n, h)]
          IN AgreeBut(t, v, k)
      BY <1>2, <2>2, <2>3, RecordOK
    <2> QED BY <2>4 DEF h
  <1> HIDE DEF u, n
  <1> QED BY <1>0, <1>1, <1>2, <1>3, TodoType, AgreeBoth

\* The program's contents in a good table.
LEMMA LiveType ==
    ASSUME NEW t \in Tables, TableOK(t), NEW k \in Keys
    PROVE  LiveIn(t)[k] \in Data \cup {Nothing}
  BY CacheFileAssumption DEF LiveIn, TableOK, AllKeys

\* A write of one key leaves the contents of the others.
LEMMA OneKeyChanged ==
    ASSUME NEW t, NEW u, NEW k \in Keys, AgreeBut(t, u, k)
    PROVE  LiveIn(u) = [LiveIn(t) EXCEPT ![k] = LiveIn(u)[k]]
  <1>1. ASSUME NEW j \in Keys, j # k PROVE LiveIn(u)[j] = LiveIn(t)[j]
    BY <1>1 DEF LiveIn, AgreeBut, AllKeys
  <1> QED BY <1>1 DEF LiveIn

LEMMA NothingSaved == ASSUME disk.hdr.dirty, disk' = disk
                      PROVE  StoreSaved = {} /\ StoreSaved' = {}
  BY DEF StoreSaved, Accept

LEMMA PlaceStores ==
    ASSUME IInv, RestartSeesLive, RestartSeesLive', Place
    PROVE  Store!Next \/ UNCHANGED Store!vars
  <1>0. pc = "place" /\ pc' # "none" /\ disk' = disk /\ todo.key \in AllKeys
        /\ disk.hdr.dirty
    BY TodoType DEF Place
  <1>1. CASE todo.key = Index
    <2>1. LiveIn(tab') = LiveIn(tab)
      BY <1>0, <1>1, PlaceTable, AgreeLive, CacheFileAssumption
    <2> QED BY <1>0, <2>1, LiveKept DEF Live, LiveIn
  <1>2. CASE todo.key # Index
    <2>1. todo.key \in Keys /\ todo.data \in Data
      BY <1>0, <1>2 DEF IInv, TodoOK
    <2>a. LiveIn(tab')[todo.key] = todo.data
      BY <2>1, PlaceTable DEF LiveIn
    <2>b. LiveIn(tab') = [LiveIn(tab) EXCEPT ![todo.key] = LiveIn(tab')[todo.key]]
      BY <2>1, PlaceTable, OneKeyChanged
    <2>2. LiveIn(tab') = [LiveIn(tab) EXCEPT ![todo.key] = todo.data]
      BY <2>a, <2>b
    <2>3. Live' = [Live EXCEPT ![todo.key] = todo.data]
      BY <2>2 DEF Live, LiveIn
    <2>4. StoreSaved = {} /\ StoreSaved' = {}
      BY <1>0, NothingSaved
    <2>5. Store!Put
      BY <1>0, <2>1, <2>3, <2>4 DEF Store!Put, StoreSaved
    <2> QED BY <2>5 DEF Store!Next
  <1> QED BY <1>1, <1>2

LEMMA PlaceFailsStores ==
    ASSUME IInv, IInv', RestartSeesLive, RestartSeesLive', PlaceFails
    PROVE  Store!Next \/ UNCHANGED Store!vars
  <1>0. pc = "place" /\ pc' # "none" /\ disk' = disk /\ todo.key \in AllKeys
        /\ disk.hdr.dirty
    BY TodoType DEF PlaceFails
  <1>a. AgreeBut(tab, tab', todo.key)
    BY PlaceFailsTable
  <1>1. CASE todo.key = Index
    <2>1. LiveIn(tab') = LiveIn(tab)
      BY <1>0, <1>a, <1>1, AgreeLive, CacheFileAssumption
    <2> QED BY <1>0, <2>1, LiveKept DEF Live, LiveIn
  <1>2. CASE todo.key # Index
    <2>1. todo.key \in Keys
      BY <1>0, <1>2 DEF AllKeys
    <2> DEFINE d == LiveIn(tab')[todo.key]
    <2>2. d \in Data \cup {Nothing}
      <3>1. tab' \in Tables /\ TableOK(tab')
        BY DEF IInv, TypeOK
      <3> QED BY <2>1, <3>1, LiveType
    <2>3. LiveIn(tab') = [LiveIn(tab) EXCEPT ![todo.key] = d]
      BY <2>1, <1>a, OneKeyChanged
    <2> HIDE DEF d
    <2>4. Live' = [Live EXCEPT ![todo.key] = d]
      BY <2>3 DEF Live, LiveIn
    <2>5. StoreSaved = {} /\ StoreSaved' = {}
      BY <1>0, NothingSaved
    <2>6. Store!PutFails
      BY <1>0, <2>1, <2>2, <2>4, <2>5 DEF Store!PutFails, StoreSaved
    <2> QED BY <2>6 DEF Store!Next
  <1> QED BY <1>1, <1>2

\* writeIndex may allocate the index block: no data block changes.
LEMMA BeginFlushStores ==
    ASSUME IInv, RestartSeesLive, RestartSeesLive', BeginFlush
    PROVE  Store!Next \/ UNCHANGED Store!vars
  <1>1. /\ tab \in Tables /\ TableOK(tab) /\ Index \in AllKeys
        /\ 2 * Len(tab.index) + IndexSlack \in Nat
    <2>1. tab \in Tables /\ TableOK(tab) /\ Index \in AllKeys
      BY DEF IInv, TypeOK, AllKeys
    <2>2. Len(tab.index) \in Nat /\ IndexSlack \in Nat
      BY <2>1, CacheFileAssumption DEF Tables
    <2> QED BY <2>1, <2>2
  <1>2. AgreeBut(tab, tab', Index)
    <2>1. CASE tab.map[Index] = 0
      BY <1>1, <2>1, AllocBlockOK DEF BeginFlush
    <2>2. CASE tab.map[Index] # 0
      BY <2>2 DEF BeginFlush, AgreeBut
    <2> QED BY <2>1, <2>2
  <1>3. LiveIn(tab') = LiveIn(tab)
    BY <1>1, <1>2, AgreeLive, CacheFileAssumption
  <1> QED BY <1>3, LiveKept DEF Live, LiveIn, BeginFlush, Idle

\* create() and open() attach an empty store, or the saved one.
LEMMA StartStores ==
    ASSUME IInv, IInv', RestartSeesLive, RestartSeesLive', Create \/ Open
    PROVE  Store!Next
  <1>1. CASE Create
    <2>1. Live' = [k \in Keys |-> Nothing]
      BY <1>1, CacheFileAssumption DEF Create, Live, NoTable
    <2>2. ~ Accept(disk) /\ ~ Accept(disk)'
      BY <1>1 DEF Create, Accept, BlankHeader
    <2>3. Store!Create
      BY <1>1, <2>1, <2>2 DEF Create, Store!Create
    <2> QED BY <2>3 DEF Store!Next
  <1>2. CASE Open
    <2>1. Accept(disk) /\ disk' = disk /\ pc = "none" /\ pc' = "idle"
      BY <1>2 DEF Open
    <2>2. Live' = Image(disk)
      BY <2>1 DEF RestartSeesLive
    <2>3. Store!Open
      BY <2>1, <2>2 DEF Store!Open
    <2> QED BY <2>3 DEF Store!Next
  <1> QED BY <1>1, <1>2

\* All other steps of a running program leave its contents alone.
LEMMA OtherStores ==
    ASSUME RestartSeesLive, RestartSeesLive', pc # "none", pc' # "none", tab' = tab
    PROVE  Store!Next \/ UNCHANGED Store!vars
  BY LiveKept DEF Live

LEMMA CrashStores == ASSUME Crash PROVE Store!Next
  <1>1. Store!Crash
    BY DEF Crash, Store!Crash, Store!Empty
  <1> QED BY <1>1 DEF Store!Next

LEMMA StoreStep ==
    ASSUME IInv, IInv', RestartSeesLive, RestartSeesLive', [Next]_vars
    PROVE  [Store!Next]_(Store!vars)
  <1>1. CASE Create \/ Open
    BY <1>1, StartStores
  <1>2. CASE \E k \in Keys, d \in Data : BeginWrite(k, d)
    BY <1>2, OtherStores DEF BeginWrite, Idle, StartMarking
  <1>3. CASE LeaveDirty \/ Marked
    BY <1>3, OtherStores DEF LeaveDirty, Marked, Idle, StartMarking, memory
  <1>4. CASE Place \/ PlaceFails
    BY <1>4, PlaceStores, PlaceFailsStores
  <1>5. CASE BeginFlush
    BY <1>5, BeginFlushStores
  <1>6. CASE FlushUnchanged \/ UpdateHeader \/ ClearFlag \/ Cleared
    BY <1>6, OtherStores DEF FlushUnchanged, UpdateHeader, ClearFlag, Cleared,
                             Idle, memory
  <1>7. CASE WriteBackHeader \/ \E s \in 1 .. MaxSectors : WriteBackSector(s)
    BY <1>7, OtherStores DEF WriteBackHeader, WriteBackSector, memory
  <1>8. CASE Crash
    BY <1>8, CrashStores
  <1>9. CASE UNCHANGED vars
    BY <1>9 DEF vars, Store!vars, Live
  <1> QED BY <1>1, <1>2, <1>3, <1>4, <1>5, <1>6, <1>7, <1>8, <1>9 DEF Next

\* CacheFile implements CacheStore: whatever is written, evicted, synced, lost
\* or cut short, each step of it is a step of the store, or none.
THEOREM ImplementsStore == Spec => KeepsPromise
  <1>1. Init => Store!Init
    BY DEF Init, Store!Init, Store!Empty, Accept, BlankHeader
  <1>2. /\ IInv /\ IInv' /\ RestartSeesLive /\ RestartSeesLive' /\ [Next]_vars
        => [Store!Next]_(Store!vars)
    BY StoreStep
  <1> QED BY <1>1, <1>2, Invariance, AcceptedFileIsLive, PTL
          DEF Spec, KeepsPromise, Store!Spec


-----------------------------------------------------------------------------
(* Where the blocks lie. *)

\* Two records name the same sectors, or none in common.
SameSpot(a, b) == a.pos = b.pos /\ a.bsize = b.bsize
Away(a, b) == \/ a.bsize = 0 \/ b.bsize = 0
              \/ a.pos + a.bsize <= b.pos
              \/ b.pos + b.bsize <= a.pos

Pairwise(ix) == \A i, j \in DOMAIN ix : i # j => Away(ix[i], ix[j])

\* The blocks lie behind the header and in front of sector `end'.
Inside(ix, end) == \A i \in DOMAIN ix : ix[i].pos >= 1 /\ ix[i].pos + ix[i].bsize <= end

\* The data of a block ends in its last sector at the latest.
Roomy(ix) == \A i \in DOMAIN ix : Sectors(ix[i].dsize) <= ix[i].bsize

\* The records of a file whose header has the index record b.
RecordsOf(b) == IF b.pos = 0 THEN <<>>
                ELSE [i \in DOMAIN b.hash |-> IF b.hash[i].key = Index THEN b ELSE b.hash[i]]

IndexRecord == tab.index[tab.map[Index]]

\* The index block was put at the end of the file and is not yet written.
IndexOwed == /\ pc = "place" /\ todo.key = Index
             /\ IndexRecord.dsize >= Len(tab.index)
             /\ IndexRecord.pos + IndexRecord.bsize = tab.size
             /\ cached.len = IndexRecord.pos - 1

\* Without a failed write the file ends where the table says.
LengthOK == failures = 0 => cached.len = tab.size - 1 \/ IndexOwed

\* The blocks in the table, and those that a restart would find.
TableApart == /\ Pairwise(tab.index) /\ Inside(tab.index, tab.size)
              /\ Roomy(tab.index)
HeaderApart == /\ Pairwise(RecordsOf(cached.hdr.idx))
               /\ failures = 0 => Inside(RecordsOf(cached.hdr.idx), cached.len + 1)

LayoutInv ==
    ~ aliased =>
        /\ pc # "none" => TableApart /\ LengthOK /\ HeaderApart
        /\ pc = "none" /\ ~ cached.hdr.dirty => HeaderApart
        /\ pc = "header" => /\ Pairwise(RecordsOf(IndexRecord))
                            /\ Inside(RecordsOf(IndexRecord), tab.size)
-----------------------------------------------------------------------------
(* Sectors. *)

LEMMA SectorsBounds ==
    ASSUME NEW n \in Nat
    PROVE  /\ Sectors(n) \in Nat
           /\ Sectors(n) * Sector >= n /\ Sectors(n) * Sector <= n + Sector - 1
  BY CacheFileAssumption DEF Sectors

LEMMA SectorsMonotone ==
    ASSUME NEW a \in Nat, NEW b \in Nat, a <= b PROVE a * Sector <= b * Sector
  BY CacheFileAssumption

\* n units fit into b sectors if they take no more of them.
LEMMA SectorsFit ==
    ASSUME NEW n \in Nat, NEW b \in Nat, n <= b * Sector PROVE Sectors(n) <= b
  <1>1. CASE Sectors(n) >= b + 1
    <2>1. (b + 1) * Sector <= Sectors(n) * Sector
      BY <1>1, SectorsBounds, SectorsMonotone
    <2>2. (b + 1) * Sector = b * Sector + Sector
      BY CacheFileAssumption
    <2> QED BY <2>1, <2>2, SectorsBounds, CacheFileAssumption
  <1> QED BY <1>1, SectorsBounds

LEMMA SectorsOfSome == ASSUME NEW n \in Nat, n >= 1 PROVE Sectors(n) >= 1
  BY CacheFileAssumption, SectorsBounds

LEMMA SectorsLess ==
    ASSUME NEW n \in Nat, NEW m \in Nat, n <= m PROVE Sectors(n) <= Sectors(m)
  BY CacheFileAssumption, SectorsBounds, SectorsFit

LEMMA SectorsOfNone == Sectors(0) = 0
  <1>1. 0 <= 0 * Sector
    BY CacheFileAssumption
  <1> QED BY <1>1, SectorsFit, SectorsBounds

-----------------------------------------------------------------------------
(* What allocation does to the layout. *)

\* u has its blocks where t has them.
Kept(t, u) == /\ DOMAIN u.index = DOMAIN t.index
              /\ \A i \in DOMAIN t.index : SameSpot(u.index[i], t.index[i])
              /\ u.size = t.size

\* Or one more, behind all of them.
Grown(t, u) ==
    \/ Kept(t, u)
    \/ LET n == Len(t.index) + 1
       IN /\ DOMAIN u.index = DOMAIN t.index \cup {n}
          /\ \A i \in DOMAIN t.index : SameSpot(u.index[i], t.index[i])
          /\ u.index[n].pos = t.size
          /\ u.size = t.size + u.index[n].bsize

LEMMA KeptGrown ==
    ASSUME NEW t, NEW u, NEW v, Kept(t, u), Grown(u, v), Len(u.index) = Len(t.index)
    PROVE  Grown(t, v)
  BY DEF Kept, Grown, SameSpot

LEMMA GrownKept ==
    ASSUME NEW t \in Tables, NEW u, NEW v, Grown(t, u), Kept(u, v)
    PROVE  Grown(t, v)
  <1>1. CASE Kept(t, u)
    BY <1>1 DEF Kept, Grown, SameSpot
  <1>2. CASE ~ Kept(t, u)
    <2> DEFINE n == Len(t.index) + 1
    <2>1. /\ DOMAIN u.index = DOMAIN t.index \cup {n}
          /\ \A i \in DOMAIN t.index : SameSpot(u.index[i], t.index[i])
          /\ u.index[n].pos = t.size
          /\ u.size = t.size + u.index[n].bsize
      BY <1>2 DEF Grown
    <2> HIDE DEF n
    <2>2. /\ DOMAIN v.index = DOMAIN t.index \cup {n}
          /\ \A i \in DOMAIN t.index : SameSpot(v.index[i], t.index[i])
          /\ v.index[n].pos = t.size
          /\ v.size = t.size + v.index[n].bsize
      BY <2>1 DEF Kept, SameSpot
    <2> QED BY <2>2 DEF Grown, n
  <1> QED BY <1>1, <1>2

\* A table with one more block behind the others still has them apart.
LEMMA GrownApart ==
    ASSUME NEW t \in Tables, NEW u \in Tables, Grown(t, u),
           Pairwise(t.index), Inside(t.index, t.size)
    PROVE  Pairwise(u.index) /\ Inside(u.index, u.size)
  <1>1. \A i \in DOMAIN t.index : t.index[i].pos \in Nat /\ t.index[i].bsize \in Nat
    BY RecordType DEF Items
  <1>2. \A i \in DOMAIN u.index : u.index[i].pos \in Nat /\ u.index[i].bsize \in Nat
    BY RecordType DEF Items
  <1>3. t.size \in Nat /\ t.size >= 1 /\ u.size \in Nat
    BY DEF Tables
  <1>4. CASE Kept(t, u)
    BY <1>1, <1>2, <1>3, <1>4 DEF Kept, SameSpot, Pairwise, Inside, Away
  <1>5. CASE ~ Kept(t, u)
    <2> DEFINE n == Len(t.index) + 1
    <2>1. /\ DOMAIN u.index = DOMAIN t.index \cup {n}
          /\ \A i \in DOMAIN t.index : SameSpot(u.index[i], t.index[i])
          /\ u.index[n].pos = t.size
          /\ u.size = t.size + u.index[n].bsize
      BY <1>5 DEF Grown
    <2> HIDE DEF n
    <2>2. n \in DOMAIN u.index /\ u.index[n].bsize \in Nat
      BY <1>2, <2>1
    <2>3. Inside(u.index, u.size)
      <3>1. ASSUME NEW i \in DOMAIN t.index
            PROVE  u.index[i].pos >= 1 /\ u.index[i].pos + u.index[i].bsize <= u.size
        BY <1>1, <1>3, <2>1, <2>2 DEF SameSpot, Inside
      <3>2. u.index[n].pos >= 1 /\ u.index[n].pos + u.index[n].bsize <= u.size
        BY <1>3, <2>1, <2>2
      <3> QED BY <2>1, <3>1, <3>2 DEF Inside
    <2>4. Pairwise(u.index)
      <3>1. ASSUME NEW i \in DOMAIN t.index
            PROVE  Away(u.index[i], u.index[n]) /\ Away(u.index[n], u.index[i])
        BY <1>1, <1>3, <2>1, <2>2 DEF SameSpot, Inside, Away
      <3>2. ASSUME NEW i \in DOMAIN t.index, NEW j \in DOMAIN t.index, i # j
            PROVE  Away(u.index[i], u.index[j])
        BY <2>1, <3>2 DEF SameSpot, Pairwise, Away
      <3> QED BY <2>1, <3>1, <3>2 DEF Pairwise
    <2> QED BY <2>3, <2>4
  <1> QED BY <1>4, <1>5

\* The record of a block gets a new type, size of data or hash.
LEMMA RecordKept ==
    ASSUME NEW t \in Tables, NEW i \in DOMAIN t.index, NEW u \in Tables,
           DOMAIN u.index = DOMAIN t.index, u.size = t.size,
           \A j \in DOMAIN t.index \ {i} : u.index[j] = t.index[j],
           SameSpot(u.index[i], t.index[i]),
           Roomy(t.index), Sectors(u.index[i].dsize) <= u.index[i].bsize
    PROVE  Kept(t, u) /\ Roomy(u.index)
  BY DEF Kept, Roomy, SameSpot

LEMMA FreeBlockKept ==
    ASSUME NEW t \in Tables, TableOK(t), NEW k \in AllKeys, t.map[k] # 0, Roomy(t.index)
    PROVE  LET u == FreeBlock(t, t.map[k]) IN
           /\ Kept(t, u) /\ Roomy(u.index) /\ Len(u.index) = Len(t.index)
           /\ u.free = t.free \cup {t.map[k]}
  <1> DEFINE i == t.map[k]
             u == FreeBlock(t, i)
             b == t.index[i]
             r == Item(Free, b.pos, b.bsize, 0,
                       IF b.key = Index THEN Nothing ELSE b.hash)
  <1>1. i \in DOMAIN t.index /\ u \in Tables
    BY FreeBlockOK DEF TableOK
  <1>2. b \in Items
    BY <1>1, RecordType
  <1>3. u.index = [t.index EXCEPT ![i] = r] /\ u.size = t.size /\ u.free = t.free \cup {i}
    BY DEF FreeBlock
  <1>4. SameSpot(r, b) /\ r.dsize = 0 /\ r.bsize \in Nat
    BY <1>2 DEF Item, SameSpot, Items
  <1> HIDE DEF i, u, b, r
  <1>5. /\ DOMAIN u.index = DOMAIN t.index /\ u.index[i] = r
        /\ \A j \in DOMAIN t.index \ {i} : u.index[j] = t.index[j]
    BY <1>1, <1>3
  <1>6. Kept(t, u) /\ Roomy(u.index)
    BY <1>1, <1>3, <1>4, <1>5, RecordKept, SectorsOfNone DEF b
  <1>7. Len(u.index) = Len(t.index)
    BY <1>1, <1>5 DEF Tables
  <1> QED BY <1>3, <1>6, <1>7 DEF u, i

\* Where key k has been put in u for n units: in one of the blocks of t that
\* are in `free', or behind all of them.
Placed(t, u, k, n, free) ==
    \/ u.size = t.size /\ u.map[k] \in free
    \/ /\ u.map[k] = Len(t.index) + 1 /\ Len(u.index) = Len(t.index) + 1
       /\ u.index[u.map[k]].pos = t.size
       /\ u.index[u.map[k]].bsize = Sectors(n)
       /\ u.size = t.size + Sectors(n)

LEMMA AllocBlockGrown ==
    ASSUME NEW t \in Tables, TableOK(t), NEW k \in AllKeys, t.map[k] = 0,
           NEW n \in Nat, NEW u \in AllocBlock(t, k, n), Roomy(t.index)
    PROVE  /\ Grown(t, u) /\ Roomy(u.index)
           /\ u.index[u.map[k]].dsize = n
           /\ Sectors(n) <= u.index[u.map[k]].bsize
           /\ Placed(t, u, k, n, t.free)
  <1>0. u \in Tables
    BY AllocBlockOK
  <1>1. CASE Fits(t, n) # {}
    <2> DEFINE r(i) == Renamed(t.index[i], k, n)
    <2>1. PICK i \in BestFits(t, n) :
            u = [index |-> [t.index EXCEPT ![i] = r(i)], free |-> t.free \ {i},
                 size |-> t.size, map |-> [t.map EXCEPT ![k] = i]]
      BY <1>1 DEF AllocBlock
    <2>2. i \in t.free /\ i \in DOMAIN t.index /\ t.index[i].bsize * Sector >= n
      BY DEF BestFits, Fits, TableOK
    <2>3. t.index[i] \in Items
      BY <2>2, RecordType
    <2>4. /\ SameSpot(r(i), t.index[i]) /\ r(i).dsize = n
          /\ r(i).bsize \in Nat /\ r(i).bsize * Sector >= n
      BY <2>2, <2>3 DEF Renamed, Item, SameSpot, Items
    <2>5. Sectors(n) <= r(i).bsize
      BY <2>4, SectorsFit
    <2> HIDE DEF r
    <2>6. /\ DOMAIN u.index = DOMAIN t.index /\ u.index[i] = r(i) /\ u.size = t.size
          /\ \A j \in DOMAIN t.index \ {i} : u.index[j] = t.index[j]
      BY <2>1, <2>2
    <2>7. u.map[k] = i
      BY <2>1 DEF Tables, AllKeys
    <2>8. Kept(t, u) /\ Roomy(u.index)
      BY <1>0, <2>2, <2>4, <2>5, <2>6, RecordKept
    <2> QED BY <2>2, <2>4, <2>5, <2>6, <2>7, <2>8 DEF Grown, Placed
  <1>2. CASE Fits(t, n) = {}
    <2> DEFINE i == Len(t.index) + 1
               it == Item(k, t.size, Sectors(n), n, Nothing)
    <2>1. u = [index |-> Append(t.index, it), free |-> t.free,
               size |-> t.size + Sectors(n), map |-> [t.map EXCEPT ![k] = i]]
      BY <1>2 DEF AllocBlock
    <2>2. it.pos = t.size /\ it.bsize = Sectors(n) /\ it.dsize = n /\ Sectors(n) \in Nat
      BY SectorsNat DEF Item
    <2>3. u.map[k] = i /\ u.size = t.size + Sectors(n)
      BY <2>1 DEF Tables, AllKeys
    <2> HIDE DEF it
    <2>4. /\ Len(u.index) = Len(t.index) + 1
          /\ DOMAIN u.index = DOMAIN t.index \cup {i}
          /\ \A j \in DOMAIN t.index : u.index[j] = t.index[j]
          /\ u.index[i] = it
      BY <2>1 DEF Tables
    <2>5. Grown(t, u)
      BY <2>2, <2>3, <2>4 DEF Grown, SameSpot
    <2>6. Roomy(u.index)
      BY <2>2, <2>4 DEF Roomy
    <2>7. Placed(t, u, k, n, t.free)
      BY <2>2, <2>3, <2>4 DEF Placed
    <2> QED BY <2>2, <2>3, <2>4, <2>5, <2>6, <2>7
  <1> QED BY <1>1, <1>2

\* write() finds room: where the block is, or in another place.
LEMMA RoomGrown ==
    ASSUME NEW t \in Tables, TableOK(t), NEW k \in AllKeys, NEW n \in Nat,
           NEW u \in Room(t, k, n), Roomy(t.index)
    PROVE  /\ Grown(t, u) /\ Roomy(u.index)
           /\ Sectors(n) <= u.index[u.map[k]].bsize
           /\ \/ u = t /\ t.map[k] # 0
              \/ /\ t.map[k] # 0 => t.index[t.map[k]].dsize < n
                 /\ Placed(t, u, k, n, t.free \cup {t.map[k]})
  <1>0. u \in Tables /\ TableOK(u) /\ u.map[k] # 0
    BY RoomOK
  <1>1. CASE t.map[k] = 0
    <2>1. u \in AllocBlock(t, k, n)
      BY <1>1 DEF Room
    <2> QED BY <1>1, <2>1, AllocBlockGrown DEF Placed
  <1>2. CASE t.map[k] # 0 /\ t.index[t.map[k]].dsize >= n
    <2>1. u = t
      BY <1>2 DEF Room
    <2>2. t.map[k] \in DOMAIN t.index
      BY <1>2 DEF TableOK
    <2>3. t.index[t.map[k]].dsize \in Nat /\ t.index[t.map[k]].bsize \in Nat
      BY <2>2, RecordType DEF Items
    <2>4. Sectors(n) <= Sectors(t.index[t.map[k]].dsize)
      BY <1>2, <2>3, SectorsLess
    <2>5. Sectors(t.index[t.map[k]].dsize) <= t.index[t.map[k]].bsize
      BY <2>2 DEF Roomy
    <2>6. Sectors(n) <= t.index[t.map[k]].bsize
      BY <2>3, <2>4, <2>5, SectorsNat
    <2>7. Grown(t, t)
      BY DEF Grown, Kept, SameSpot
    <2> QED BY <1>2, <2>1, <2>6, <2>7
  <1>3. CASE t.map[k] # 0 /\ ~ (t.index[t.map[k]].dsize >= n)
    <2> DEFINE f == FreeBlock(t, t.map[k])
    <2>1. f \in Tables /\ TableOK(f) /\ f.map[k] = 0
      BY <1>3, FreeBlockOK
    <2>2. /\ Kept(t, f) /\ Roomy(f.index) /\ Len(f.index) = Len(t.index)
          /\ f.free = t.free \cup {t.map[k]}
      BY <1>3, FreeBlockKept
    <2>3. u \in AllocBlock(f, k, n)
      BY <1>3 DEF Room
    <2> HIDE DEF f
    <2>4. /\ Grown(f, u) /\ Roomy(u.index)
          /\ Sectors(n) <= u.index[u.map[k]].bsize
          /\ Placed(f, u, k, n, f.free)
      BY <2>1, <2>2, <2>3, AllocBlockGrown
    <2>5. Grown(t, u)
      BY <2>2, <2>4, KeptGrown
    <2>6. Placed(t, u, k, n, t.free \cup {t.map[k]})
      BY <2>2, <2>4 DEF Placed, Kept
    <2>7. t.index[t.map[k]].dsize < n
      <3>1. t.map[k] \in DOMAIN t.index
        BY <1>3 DEF TableOK
      <3>2. t.index[t.map[k]].dsize \in Nat
        BY <3>1, RecordType DEF Items
      <3> QED BY <1>3, <3>2
    <2> QED BY <2>4, <2>5, <2>6, <2>7
  <1> QED BY <1>1, <1>2, <1>3

-----------------------------------------------------------------------------
(* The layout invariant. *)

\* The stream behind a write to the block of record it: it grows to the end of
\* the block at most,
LEMMA WrittenInside ==
    ASSUME NEW f \in Files, NEW it \in Items, NEW c, NEW n \in Nat, n <= it.bsize
    PROVE  /\ Written(f, it, c, n).len \in Nat
           /\ Written(f, it, c, n).len >= f.len
           /\ it.pos + it.bsize <= f.len + 1 => Written(f, it, c, n).len = f.len
  <1> DEFINE end == IF Padding(f, it, n) # {} THEN it.pos + it.bsize - 1
                                              ELSE it.pos + n - 1
  <1>1. Written(f, it, c, n).len = IF n > 0 /\ end > f.len THEN end ELSE f.len
    BY DEF Written
  <1>2. it.pos \in Nat /\ it.bsize \in Nat /\ f.len \in Nat
    BY DEF Items, Files
  <1>3. end \in Int /\ end <= it.pos + it.bsize - 1
    BY <1>2
  <1> HIDE DEF end
  <1> QED BY <1>1, <1>2, <1>3

\* and exactly to it if the block was put there and all of its data are written.
LEMMA WrittenAtEnd ==
    ASSUME NEW f \in Files, NEW it \in Items, NEW c,
           it.pos = f.len + 1, it.dsize >= 1, Sectors(it.dsize) <= it.bsize
    PROVE  Written(f, it, c, Sectors(it.dsize)).len = it.pos + it.bsize - 1
  <1> DEFINE n == Sectors(it.dsize)
             end == IF Padding(f, it, n) # {} THEN it.pos + it.bsize - 1
                                              ELSE it.pos + n - 1
  <1>1. Written(f, it, c, n).len = IF n > 0 /\ end > f.len THEN end ELSE f.len
    BY DEF Written
  <1>2. it.pos \in Nat /\ it.bsize \in Nat /\ it.dsize \in Nat /\ f.len \in Nat
    BY DEF Items, Files
  <1>3. n \in Nat /\ n >= 1 /\ n <= it.bsize
    BY <1>2, SectorsNat, SectorsOfSome
  <1>4. Padded(f, it)
    <2>1. f.len * Sector <= it.pos * Sector
      BY <1>2, SectorsMonotone
    <2>2. f.len * Sector \in Nat /\ it.pos * Sector \in Nat
      BY <1>2, CacheFileAssumption
    <2> QED BY <1>2, <2>1, <2>2 DEF Padded
  <1>5. Padding(f, it, n) = it.pos + n .. it.pos + it.bsize - 1
    BY <1>4 DEF Padding
  <1>6. end = it.pos + it.bsize - 1
    <2>1. CASE n = it.bsize
      BY <1>2, <1>3, <2>1
    <2>2. CASE n < it.bsize
      <3>1. it.pos + n \in it.pos + n .. it.pos + it.bsize - 1
        BY <1>2, <1>3, <2>2
      <3> QED BY <1>5, <3>1
    <2> QED BY <1>2, <1>3, <2>1, <2>2
  <1> HIDE DEF end, n
  <1> QED BY <1>1, <1>2, <1>3, <1>6 DEF n

\* The records of t, its index block at the place of record b, lie as those of
\* v do, if they are in t where v has them and b is at the place of none of
\* the other blocks.
LEMMA RecordsApart ==
    ASSUME NEW t \in Tables, TableOK(t), t.map[Index] # 0, NEW v \in Tables,
           Pairwise(v.index), Inside(v.index, v.size),
           DOMAIN t.index \subseteq DOMAIN v.index,
           \A j \in DOMAIN t.index : SameSpot(v.index[j], t.index[j]),
           NEW i \in DOMAIN v.index, i \notin DOMAIN t.index \ {t.map[Index]},
           NEW b, SameSpot(b, v.index[i]), b.pos # 0, b.hash = Snapshot(t.index)
    PROVE  Pairwise(RecordsOf(b)) /\ Inside(RecordsOf(b), v.size)
  <1> DEFINE m == t.map[Index]
             spot(j) == IF j = m THEN i ELSE j
             r == RecordsOf(b)
  <1>1. DOMAIN b.hash = DOMAIN t.index
    BY DEF Snapshot
  <1>2. /\ DOMAIN r = DOMAIN t.index
        /\ \A j \in DOMAIN t.index :
              r[j] = IF b.hash[j].key = Index THEN b ELSE b.hash[j]
    BY <1>1 DEF RecordsOf
  <1>3. ASSUME NEW j \in DOMAIN t.index
        PROVE  b.hash[j].key = t.index[j].key /\ SameSpot(b.hash[j], t.index[j])
    BY DEF Snapshot, Item, SameSpot
  <1>4. \A j \in DOMAIN t.index : t.index[j].key = Index <=> j = m
    BY DEF TableOK, AllKeys
  <1>5. ASSUME NEW j \in DOMAIN t.index
        PROVE  spot(j) \in DOMAIN v.index /\ SameSpot(r[j], v.index[spot(j)])
    <2>1. CASE j = m
      BY <1>2, <1>3, <1>4, <2>1
    <2>2. CASE j # m
      BY <1>2, <1>3, <1>4, <2>2 DEF SameSpot
    <2> QED BY <2>1, <2>2
  <1>6. \A j, k \in DOMAIN t.index : j # k => spot(j) # spot(k)
    OBVIOUS
  <1> HIDE DEF r, spot
  <1>7. Inside(r, v.size)
    BY <1>2, <1>5 DEF Inside, SameSpot
  <1>8. Pairwise(r)
    <2> SUFFICES ASSUME NEW j \in DOMAIN t.index, NEW k \in DOMAIN t.index, j # k
                 PROVE  Away(r[j], r[k])
      BY <1>2 DEF Pairwise
    <2>1. Away(v.index[spot(j)], v.index[spot(k)])
      BY <1>5, <1>6 DEF Pairwise
    <2> QED BY <1>5, <2>1 DEF Away, SameSpot
  <1> QED BY <1>7, <1>8 DEF r

\* A step that leaves the table and the length and the index record of the
\* stream alone.
LEMMA SameLayout ==
    ASSUME LayoutInv, pc # "none", pc' # "none", UNCHANGED <<tab, history>>,
           cached'.len = cached.len, cached'.hdr.idx = cached.hdr.idx,
           pc' = "header" => pc = "header",
           pc = "place" /\ todo.key = Index => pc' = "place" /\ todo'.key = Index
    PROVE  LayoutInv'
  <1>1. TableApart => TableApart'
    BY DEF TableApart, Pairwise, Inside, Roomy
  <1>2. HeaderApart => HeaderApart'
    BY DEF HeaderApart, history
  <1>3. IndexRecord' = IndexRecord
    BY DEF IndexRecord
  <1>4. LengthOK => LengthOK'
    BY <1>3 DEF LengthOK, IndexOwed, history
  <1> QED BY <1>1, <1>2, <1>3, <1>4 DEF LayoutInv, history

LEMMA CreateLayout == ASSUME IInv, Create PROVE LayoutInv'
  <1>1. tab' = NoTable /\ NoTable.index = << >> /\ NoTable.size = 1
    BY DEF Create, NoTable
  <1>2. cached'.len = 0 /\ cached'.hdr.idx.pos = 0
    BY BlankType DEF Create
  <1>3. RecordsOf(cached'.hdr.idx) = << >>
    BY <1>2 DEF RecordsOf
  <1>4. TableApart' /\ HeaderApart'
    BY <1>1, <1>3 DEF TableApart, HeaderApart, Pairwise, Inside, Roomy
  <1>5. LengthOK'
    BY <1>1, <1>2 DEF LengthOK
  <1> QED BY <1>4, <1>5 DEF LayoutInv, Create

LEMMA OpenLayout == ASSUME IInv, LayoutInv, Open PROVE LayoutInv'
  <1> SUFFICES ASSUME ~ aliased' PROVE LayoutInv'
    BY DEF LayoutInv
  <1> DEFINE r == RecordsOf(cached.hdr.idx)
  <1>1. /\ cached = disk /\ disk \in Files /\ HeaderOK(disk.hdr) /\ Accept(disk)
        /\ pc = "none" /\ pc' = "idle" /\ cached' = cached /\ failures' = failures
    BY DEF IInv, Open, DiskOK, TypeOK
  <1>2. ~ aliased /\ ~ EndsEarly(disk)
    BY DEF Open, IInv, TypeOK
  <1>3. HeaderApart
    BY <1>1, <1>2 DEF LayoutInv, Accept
  <1>4. Records(disk) = r
    BY <1>1 DEF Records, RecordsOf
  <1>5. tab' = TableOf(disk) /\ tab'.index = r /\ tab'.size = cached.len + 1
    BY <1>1, <1>4 DEF Open, TableOf
  <1>6. tab' \in Tables /\ cached.len \in Nat
    BY <1>1, <1>5, TableOfGood DEF Files
  <1>7. ASSUME NEW i \in DOMAIN r
        PROVE  /\ r[i].pos \in Nat /\ r[i].bsize \in Nat /\ r[i].dsize \in Nat
               /\ r[i].pos >= 1 /\ r[i].dsize <= r[i].bsize * Sector
    <2>1. r[i] \in Items
      BY <1>5, <1>6, RecordType
    <2>2. disk.hdr.idx.pos # 0
      BY <1>1 DEF RecordsOf
    <2>3. ItemValid(disk, r[i])
      BY <1>1, <1>4, <2>2 DEF Accept
    <2> QED BY <2>1, <2>3 DEF Items, ItemValid
  <1> HIDE DEF r
  <1>8. Inside(r, cached.len + 1)
    <2>1. CASE failures = 0
      BY <1>3, <2>1 DEF HeaderApart, r
    <2>2. CASE failures # 0
      <3>1. failures > 0
        BY <2>2 DEF IInv, TypeOK
      <3>2. \A i \in DOMAIN r : ~ (r[i].pos + r[i].bsize > cached.len + 1)
        BY <1>1, <1>2, <1>4, <3>1 DEF EndsEarly
      <3> QED BY <1>6, <1>7, <3>2 DEF Inside
    <2> QED BY <2>1, <2>2
  <1>9. Roomy(r)
    BY <1>7, SectorsFit DEF Roomy
  <1>10. TableApart'
    BY <1>3, <1>5, <1>8, <1>9 DEF TableApart, HeaderApart, r
  <1>11. LengthOK'
    BY <1>1, <1>5, <1>6 DEF LengthOK
  <1>12. HeaderApart'
    BY <1>1, <1>3 DEF HeaderApart
  <1> QED BY <1>1, <1>10, <1>11, <1>12 DEF LayoutInv

\* The bytes of a block go to the stream, and its record is as it was but for
\* the size of the data: what Place and PlaceFails have in common.
Target(t) == t.map[todo.key]
NewRecord(t, n, h) == Rewritten(t.index[Target(t)], n, h)

PlacedOK(t, b, n, h) ==
    /\ tab' \in Tables /\ Grown(tab, tab') /\ TableApart'
    /\ t \in Tables /\ Target(t) \in DOMAIN t.index /\ Kept(t, tab')
    /\ b \in Items /\ b.dsize = n /\ b.hash = h /\ b.pos # 0
    /\ SameSpot(b, t.index[Target(t)]) /\ Sectors(n) <= b.bsize
    /\ tab'.map[todo.key] = Target(t) /\ tab'.index[Target(t)] = b
    /\ Target(t) \in DOMAIN tab'.index

LEMMA PlacedLayout ==
    ASSUME IInv, LayoutInv, pc = "place", ~ aliased,
           NEW n \in Nat, NEW h \in Hashes, NEW t \in Room(tab, todo.key, n),
           todo.key # Index => h \in Data \cup {Nothing},
           tab' = [t EXCEPT !.index[Target(t)] = NewRecord(t, n, h)]
    PROVE  TableApart /\ PlacedOK(t, NewRecord(t, n, h), n, h)
  <1> DEFINE k == todo.key
             i == Target(t)
             it == NewRecord(t, n, h)
  <1>1. /\ TableApart /\ tab \in Tables /\ TableOK(tab) /\ k \in AllKeys
    BY TodoType DEF LayoutInv
  <1>2. t \in Tables /\ TableOK(t) /\ i # 0
    BY <1>1, RoomOK DEF Target
  <1>3. Grown(tab, t) /\ Roomy(t.index) /\ Sectors(n) <= t.index[i].bsize
    BY <1>1, RoomGrown DEF TableApart, Target
  <1>4. i \in DOMAIN t.index /\ t.index[i] \in Items /\ t.index[i].pos # 0
    BY <1>1, <1>2, RecordType DEF TableOK, Target
  <1>5. tab' \in Tables /\ tab'.map[k] = i
    <2> HIDE DEF k
    <2>1. LET u == [t EXCEPT !.index[t.map[k]] = Rewritten(t.index[t.map[k]], n, h)]
          IN u \in Tables /\ u.map[k] = t.map[k]
      BY <1>1, <1>2, RecordOK DEF k, Target
    <2> QED BY <2>1 DEF k, Target, NewRecord
  <1>6. /\ it \in Items /\ it.dsize = n /\ it.hash = h /\ it.pos = t.index[i].pos
        /\ it.bsize = t.index[i].bsize
    <2> DEFINE b == t.index[i]
    <2>1. b \in Items /\ b.key \in Keys \cup {Index, Free}
      BY <1>4 DEF Items
    <2> HIDE DEF b
    <2>2. LET x == Rewritten(b, n, h)
          IN x \in Items /\ x.dsize = n /\ x.hash = h /\ x.pos = b.pos /\ x.bsize = b.bsize
      BY <2>1 DEF Rewritten, Item, Items
    <2> QED BY <2>2 DEF b, NewRecord
  <1>7. tab'.index = [t.index EXCEPT ![i] = it] /\ tab'.size = t.size
    <2>1. tab' = [t EXCEPT !.index[i] = it]
      OBVIOUS
    <2> HIDE DEF it, i
    <2> QED BY <1>2, <2>1 DEF Tables
  <1> HIDE DEF it, i
  <1>8. /\ DOMAIN tab'.index = DOMAIN t.index /\ tab'.index[i] = it
        /\ \A j \in DOMAIN t.index \ {i} : tab'.index[j] = t.index[j]
    BY <1>4, <1>7
  <1>9. Kept(t, tab') /\ Roomy(tab'.index)
    <2> DEFINE u == tab'
    <2>1. SameSpot(u.index[i], t.index[i])
      BY <1>6, <1>8 DEF SameSpot
    <2>2. Sectors(u.index[i].dsize) <= u.index[i].bsize
      BY <1>3, <1>6, <1>8
    <2>3. u \in Tables /\ u.size = t.size
      BY <1>5, <1>7
    <2>4. Roomy(t.index)
      BY <1>3
    <2>5. /\ DOMAIN u.index = DOMAIN t.index
          /\ \A j \in DOMAIN t.index \ {i} : u.index[j] = t.index[j]
      BY <1>8
    <2> HIDE DEF u
    <2>6. Kept(t, u) /\ Roomy(u.index)
      BY <1>2, <1>4, <2>1, <2>2, <2>3, <2>4, <2>5, RecordKept
    <2> QED BY <2>6 DEF u
  <1>10. Grown(tab, tab')
    BY <1>1, <1>3, <1>9, GrownKept
  <1>11. TableApart'
    BY <1>1, <1>5, <1>9, <1>10, GrownApart DEF TableApart
  <1>12. SameSpot(it, t.index[i])
    BY <1>6 DEF SameSpot
  <1>13. PlacedOK(t, it, n, h)
    BY <1>2, <1>3, <1>4, <1>5, <1>6, <1>8, <1>9, <1>10, <1>11, <1>12 DEF PlacedOK, i
  <1> QED BY <1>1, <1>13 DEF it

\* The records that a header leads to.
LEMMA RecordsOfType ==
    ASSUME NEW h, HeaderOK(h), h.idx \in Items, NEW i \in DOMAIN RecordsOf(h.idx)
    PROVE  RecordsOf(h.idx)[i] \in Items
  <1> DEFINE s == h.idx.hash
             R == [key : Keys \cup {Index, Free}, pos : Nat, bsize : Nat,
                   dsize : Nat, hash : Data \cup {Nothing}]
  <1>1. h.idx.pos # 0
    BY DEF RecordsOf
  <1>2. /\ s \in Seq(R) /\ i \in DOMAIN s
        /\ RecordsOf(h.idx)[i] = IF s[i].key = Index THEN h.idx ELSE s[i]
    BY <1>1 DEF RecordsOf, HeaderOK, Snapshots
  <1> HIDE DEF s
  <1>3. s[i] \in R
    <2> HIDE DEF R
    <2> QED BY <1>2
  <1>4. s[i] \in Items
    BY <1>3 DEF Items, Hashes
  <1> QED BY <1>2, <1>4

\* A longer file holds what a shorter one held.
LEMMA InsideMore ==
    ASSUME NEW f \in Files, HeaderOK(f.hdr), NEW m \in Nat, m >= f.len,
           Inside(RecordsOf(f.hdr.idx), f.len + 1)
    PROVE  Inside(RecordsOf(f.hdr.idx), m + 1)
  <1> DEFINE r == RecordsOf(f.hdr.idx)
  <1>1. f.hdr.idx \in Items /\ f.len \in Nat
    BY DEF Files
  <1>2. ASSUME NEW i \in DOMAIN r PROVE r[i].pos \in Nat /\ r[i].bsize \in Nat
    BY <1>1, RecordsOfType DEF Items
  <1> HIDE DEF r
  <1> QED BY <1>1, <1>2 DEF Inside, r

\* The contents of the index block has a unit for each record.
LEMMA IndexSize ==
    ASSUME IInv, pc = "place", todo.key = Index
    PROVE  ContentSize(todo.key, todo.data) = Len(tab.index)
  <1>1. todo.data = Snapshot(tab.index) /\ tab.index \in Seq(Items)
    BY DEF IInv, TodoOK, TypeOK, Tables
  <1>2. DOMAIN todo.data = DOMAIN tab.index /\ todo.data \in Snapshots
    BY <1>1, SnapshotGood DEF Snapshot, IInv, TypeOK, TodoOK
  <1>3. Len(todo.data) = Len(tab.index)
    BY <1>1, <1>2 DEF Snapshots
  <1> QED BY <1>3 DEF ContentSize

\* The index block is found a place where no other block of t is.
LEMMA PlacedElsewhere ==
    ASSUME NEW t \in Tables, TableOK(t), NEW u, NEW n, t.map[Index] # 0,
           u.map[Index] \notin t.free,
           u = t \/ Placed(t, u, Index, n, t.free \cup {t.map[Index]})
    PROVE  u.map[Index] \notin DOMAIN t.index \ {t.map[Index]}
  <1>1. CASE u.map[Index] = t.map[Index]
    BY <1>1
  <1>2. CASE u.map[Index] = Len(t.index) + 1
    BY <1>2 DEF Tables
  <1> QED BY <1>1, <1>2 DEF Placed

LEMMA PlaceLayout == ASSUME IInv, LayoutInv, Place PROVE LayoutInv'
  <1> SUFFICES ASSUME ~ aliased' PROVE LayoutInv'
    BY DEF LayoutInv
  <1> DEFINE k == todo.key
             n == ContentSize(todo.key, todo.data)
  <1>0. /\ pc = "place" /\ failures' = failures /\ todo' = todo
        /\ pc' = IF k = Index THEN "header" ELSE "idle"
    BY DEF Place
  <1>1. PICK t \in Room(tab, k, n) :
          /\ tab' = [t EXCEPT !.index[Target(t)] = NewRecord(t, n, todo.data)]
          /\ cached' = Written(cached, NewRecord(t, n, todo.data), todo.data,
                               Sectors(NewRecord(t, n, todo.data).dsize))
          /\ aliased' = (aliased \/ (k = Index /\ Target(t) \in tab.free))
    BY DEF Place, Target, NewRecord
  <1>2. ~ aliased /\ (k = Index => Target(t) \notin tab.free)
    BY <1>1 DEF IInv, TypeOK
  <1>3. /\ n \in Nat /\ todo.data \in Hashes /\ k \in AllKeys /\ cached \in Files
        /\ todo.key # Index => todo.data \in Data \cup {Nothing}
        /\ tab \in Tables /\ TableOK(tab)
    BY <1>0, TodoType
  <1> DEFINE i == Target(t)
             b == NewRecord(t, n, todo.data)
  <1> HIDE DEF b, n
  <1>4. TableApart /\ PlacedOK(t, b, n, todo.data)
    BY <1>0, <1>1, <1>2, <1>3, PlacedLayout DEF b
  <1>5. \/ t = tab /\ tab.map[k] # 0
        \/ /\ tab.map[k] # 0 => tab.index[tab.map[k]].dsize < n
           /\ Placed(tab, t, k, n, tab.free \cup {tab.map[k]})
    BY <1>3, <1>4, RoomGrown DEF TableApart
  <1>6. cached' = Written(cached, b, todo.data, Sectors(n))
    BY <1>1, <1>4 DEF PlacedOK, b
  <1> HIDE DEF i, k
  <1>a. /\ cached.len \in Nat /\ Sectors(n) \in Nat /\ Sectors(n) <= b.bsize
        /\ b \in Items /\ todo.data \in Hashes \cup {Pad}
    BY <1>3, <1>4, SectorsNat DEF Files, PlacedOK
  <1>7. /\ cached'.hdr = cached.hdr /\ cached'.len \in Nat /\ cached'.len >= cached.len
        /\ b.pos + b.bsize <= cached.len + 1 => cached'.len = cached.len
    <2>1. Written(cached, b, todo.data, Sectors(n)).hdr = cached.hdr
      BY <1>3, <1>a, WrittenType
    <2>2. LET c == Written(cached, b, todo.data, Sectors(n))
          IN /\ c.len \in Nat /\ c.len >= cached.len
             /\ b.pos + b.bsize <= cached.len + 1 => c.len = cached.len
      BY <1>3, <1>a, WrittenInside
    <2> QED BY <1>6, <2>1, <2>2
  <1>8. HeaderApart'
    <2>1. HeaderApart
      BY <1>0, <1>2 DEF LayoutInv
    <2>2. ASSUME failures = 0  PROVE Inside(RecordsOf(cached'.hdr.idx), cached'.len + 1)
      <3>1. Inside(RecordsOf(cached.hdr.idx), cached.len + 1)
        BY <2>1, <2>2 DEF HeaderApart
      <3> QED BY <1>3, <1>7, <3>1, InsideMore DEF IInv
    <2> QED BY <1>0, <1>7, <2>1, <2>2 DEF HeaderApart
  <1>9. LengthOK'
    <2> SUFFICES ASSUME failures = 0 PROVE cached'.len = tab'.size - 1
      BY <1>0 DEF LengthOK
    <2>1. cached.len = tab.size - 1 \/ IndexOwed
      BY <1>0, <1>2 DEF LayoutInv, LengthOK
    <2>2. /\ b.pos \in Nat /\ b.bsize \in Nat /\ tab'.size \in Nat /\ tab.size \in Nat
          /\ b.pos + b.bsize <= tab'.size /\ tab'.size = t.size
      BY <1>3, <1>4 DEF PlacedOK, TableApart, Inside, Items, Tables, Kept
    <2>3. CASE cached.len = tab.size - 1 /\ t.size = tab.size
      <3>1. b.pos + b.bsize <= cached.len + 1
        BY <1>a, <2>2, <2>3
      <3> QED BY <1>7, <2>2, <2>3, <3>1
    <2>4. CASE cached.len = tab.size - 1 /\ t.size # tab.size
      <3>1. /\ t.index[i].pos = tab.size /\ t.index[i].bsize = Sectors(n)
            /\ t.size = tab.size + Sectors(n)
        BY <1>5, <2>4 DEF Placed, i, Target, k
      <3>2. b.pos = tab.size /\ b.bsize = Sectors(n)
        BY <1>4, <3>1 DEF PlacedOK, SameSpot, i
      <3>3. n # 0
        BY <1>3, <1>a, <2>2, <2>4, <3>1, SectorsOfNone
      <3>4. b.pos = cached.len + 1 /\ b.dsize = n /\ n >= 1
        BY <1>3, <1>4, <1>a, <2>2, <2>4, <3>2, <3>3 DEF PlacedOK
      <3>5. cached'.len = b.pos + b.bsize - 1
        BY <1>3, <1>6, <1>a, <3>4, WrittenAtEnd
      <3> QED BY <1>a, <2>2, <3>1, <3>2, <3>5
    <2>5. CASE IndexOwed
      <3>1. n = Len(tab.index) /\ k = Index
        BY <1>0, <2>5, IndexSize DEF IndexOwed, k, n
      <3>2. tab.map[k] # 0 /\ tab.map[k] \in DOMAIN tab.index
        BY <1>0, <1>3, <3>1 DEF IInv, TodoOK, TableOK, k
      <3>3. IndexRecord = tab.index[tab.map[k]] /\ IndexRecord \in Items
        BY <1>3, <3>1, <3>2, RecordType DEF IndexRecord
      <3>4. t = tab
        BY <1>3, <1>5, <2>5, <3>1, <3>2, <3>3 DEF IndexOwed, Items
      <3>5. SameSpot(b, IndexRecord)
        BY <1>4, <3>3, <3>4 DEF PlacedOK, Target, k
      <3>6. n >= 1
        BY <1>3, <3>1, <3>2 DEF Tables
      <3>7. /\ IndexRecord.pos + IndexRecord.bsize = tab.size
            /\ cached.len = IndexRecord.pos - 1
        BY <2>5 DEF IndexOwed
      <3>8. b.pos = cached.len + 1 /\ b.pos + b.bsize = tab'.size
        BY <1>a, <2>2, <3>4, <3>5, <3>7 DEF SameSpot
      <3>9. b.dsize = n
        BY <1>4 DEF PlacedOK
      <3>10. cached'.len = b.pos + b.bsize - 1
        BY <1>3, <1>6, <1>a, <3>6, <3>8, <3>9, WrittenAtEnd
      <3> QED BY <2>2, <3>8, <3>10
    <2> QED BY <2>1, <2>3, <2>4, <2>5
  <1>10. ASSUME k = Index
         PROVE  Pairwise(RecordsOf(IndexRecord')) /\ Inside(RecordsOf(IndexRecord'), tab'.size)
    <2>1. IndexRecord' = b
      BY <1>4, <1>10 DEF IndexRecord, PlacedOK, k
    <2>2. tab.map[Index] # 0 /\ todo.data = Snapshot(tab.index)
      BY <1>0, <1>10 DEF IInv, TodoOK, k
    <2>3. i \notin DOMAIN tab.index \ {tab.map[Index]}
      BY <1>2, <1>3, <1>5, <1>10, <2>2, PlacedElsewhere DEF i, Target, k
    <2>4. /\ DOMAIN tab.index \subseteq DOMAIN tab'.index
          /\ \A j \in DOMAIN tab.index : SameSpot(tab'.index[j], tab.index[j])
      BY <1>4 DEF Grown, Kept, PlacedOK
    <2>5. i \in DOMAIN tab'.index /\ SameSpot(b, tab'.index[i]) /\ tab' \in Tables
      BY <1>4 DEF SameSpot, PlacedOK, i
    <2>6. Pairwise(tab'.index) /\ Inside(tab'.index, tab'.size)
      BY <1>4 DEF TableApart, PlacedOK
    <2>7. b.pos # 0 /\ b.hash = Snapshot(tab.index)
      BY <1>4, <2>2 DEF PlacedOK
    <2> QED BY <1>3, <2>1, <2>2, <2>3, <2>4, <2>5, <2>6, <2>7, RecordsApart
  <1>11. TableApart'
    BY <1>4 DEF PlacedOK
  <1> QED BY <1>0, <1>8, <1>9, <1>10, <1>11 DEF LayoutInv, k

LEMMA PlaceFailsLayout == ASSUME IInv, LayoutInv, PlaceFails PROVE LayoutInv'
  <1> SUFFICES ASSUME ~ aliased PROVE LayoutInv'
    BY DEF LayoutInv, PlaceFails
  <1> DEFINE k == todo.key
             n == ContentSize(todo.key, todo.data)
             b(t) == NewRecord(t, n, t.index[Target(t)].hash)
  <1>0. /\ pc = "place" /\ pc' = "idle" /\ failures' = failures + 1 /\ failures \in Nat
    BY DEF PlaceFails, IInv, TypeOK
  <1>1. PICK t \in Room(tab, k, n) :
          \E m \in 0 .. Sectors(b(t).dsize) - 1 :
             /\ tab' = [t EXCEPT !.index[Target(t)] = b(t)]
             /\ cached' = Written(cached, b(t), todo.data, m)
    BY DEF PlaceFails, Target, NewRecord
  <1>2. /\ n \in Nat /\ todo.data \in Hashes /\ k \in AllKeys /\ cached \in Files
        /\ tab \in Tables /\ TableOK(tab)
    BY <1>0, TodoType
  <1> HIDE DEF n
  <1>3. t \in Tables /\ TableOK(t) /\ Target(t) # 0
    BY <1>2, RoomOK DEF Target
  <1>4. /\ t.index[Target(t)].hash \in Hashes
        /\ k # Index => t.index[Target(t)].hash \in Data \cup {Nothing}
    <2>1. Target(t) \in DOMAIN t.index /\ t.index[Target(t)].key = k
      BY <1>2, <1>3 DEF TableOK, Target
    <2>2. t.index[Target(t)] \in Items
      BY <1>3, <2>1, RecordType
    <2> QED BY <1>3, <2>1, <2>2 DEF TableOK, Items
  <1>5. TableApart /\ PlacedOK(t, b(t), n, t.index[Target(t)].hash)
    BY <1>0, <1>1, <1>2, <1>4, PlacedLayout
  <1>6. TableApart' /\ b(t) \in Items
    BY <1>5 DEF PlacedOK
  <1>7. cached'.hdr = cached.hdr
    <2> HIDE DEF b
    <2>1. PICK m \in 0 .. Sectors(b(t).dsize) - 1 : cached' = Written(cached, b(t), todo.data, m)
      BY <1>1
    <2>2. Sectors(b(t).dsize) \in Nat
      BY <1>6, SectorsNat DEF Items
    <2>3. m \in Nat
      BY <2>1, <2>2
    <2> QED BY <1>2, <1>6, <2>1, <2>3, WrittenType
  <1>8. Pairwise(RecordsOf(cached'.hdr.idx))
    BY <1>0, <1>7 DEF LayoutInv, HeaderApart
  <1>9. failures' # 0
    BY <1>0
  <1> QED BY <1>0, <1>6, <1>8, <1>9 DEF LayoutInv, LengthOK, HeaderApart

LEMMA BeginFlushLayout == ASSUME IInv, LayoutInv, BeginFlush PROVE LayoutInv'
  <1> SUFFICES ASSUME ~ aliased PROVE LayoutInv'
    BY DEF LayoutInv, BeginFlush, history
  <1> DEFINE n == 2 * Len(tab.index) + IndexSlack
  <1>0. /\ tab \in Tables /\ TableOK(tab) /\ Index \in AllKeys /\ n \in Nat
        /\ Len(tab.index) \in Nat /\ IndexSlack \in Nat
    <2>1. tab \in Tables /\ TableOK(tab) /\ Index \in AllKeys
      BY DEF IInv, TypeOK, AllKeys
    <2>2. Len(tab.index) \in Nat /\ IndexSlack \in Nat
      BY <2>1, CacheFileAssumption DEF Tables
    <2> QED BY <2>1, <2>2
  <1>1. PICK t \in IF tab.map[Index] = 0 THEN AllocBlock(tab, Index, n) ELSE {tab} :
          /\ tab' = t
          /\ todo' = [key |-> Index, data |-> Snapshot(t.index)]
          /\ pc' = IF Same(Index, Snapshot(t.index)) THEN "header" ELSE "place"
    BY DEF BeginFlush
  <1>2. /\ pc = "idle" /\ cached' = cached /\ failures' = failures
    BY DEF BeginFlush, Idle, history
  <1>3. TableApart /\ LengthOK /\ HeaderApart
    BY <1>2 DEF LayoutInv
  <1>4. cached.len \in Nat /\ (failures = 0 => cached.len = tab.size - 1)
    BY <1>2, <1>3 DEF LengthOK, IndexOwed, IInv, TypeOK, Files
  <1>5. HeaderApart'
    BY <1>2, <1>3 DEF HeaderApart
  <1> HIDE DEF n
  <1>6. CASE tab.map[Index] = 0
    <2>1. t \in AllocBlock(tab, Index, n) /\ pc' = "place"
      BY <1>1, <1>6 DEF Same
    <2>2. t \in Tables /\ t.map[Index] # 0 /\ TableOK(t)
      BY <1>0, <1>6, <2>1, AllocBlockOK
    <2>3. /\ Grown(tab, t) /\ Roomy(t.index)
          /\ t.index[t.map[Index]].dsize = n
          /\ Placed(tab, t, Index, n, tab.free)
      BY <1>0, <1>3, <1>6, <2>1, AllocBlockGrown DEF TableApart
    <2>4. TableApart'
      BY <1>0, <1>1, <1>3, <2>2, <2>3, GrownApart DEF TableApart
    <2>5. LengthOK'
      <3> SUFFICES ASSUME failures = 0 PROVE cached.len = t.size - 1 \/ IndexOwed'
        BY <1>1, <1>2 DEF LengthOK
      <3>1. CASE t.size = tab.size
        BY <1>4, <3>1
      <3>2. CASE t.size # tab.size
        <4> DEFINE r == t.index[t.map[Index]]
        <4>1. /\ Len(t.index) = Len(tab.index) + 1 /\ r.pos = tab.size
              /\ r.bsize = Sectors(n) /\ t.size = tab.size + Sectors(n)
          BY <2>3, <3>2 DEF Placed
        <4>2. Sectors(n) \in Nat /\ tab.size \in Nat
          BY <1>0, SectorsNat DEF Tables
        <4>3. n # 0
          BY <3>2, <4>1, <4>2, SectorsOfNone
        <4>4. n >= Len(t.index)
          BY <1>0, <4>1, <4>3 DEF n
        <4>5. IndexRecord' = r /\ r.dsize = n
          BY <1>1, <2>3 DEF IndexRecord
        <4> HIDE DEF r
        <4>6. r.pos + r.bsize = t.size /\ cached.len = r.pos - 1
          BY <1>4, <4>1, <4>2
        <4>7. IndexOwed'
          BY <1>1, <1>2, <2>1, <4>4, <4>5, <4>6 DEF IndexOwed
        <4> QED BY <4>7
      <3> QED BY <3>1, <3>2
    <2> QED BY <1>5, <2>1, <2>4, <2>5 DEF LayoutInv
  <1>7. CASE tab.map[Index] # 0
    <2>1. tab' = tab
      BY <1>1, <1>7
    <2>2. TableApart'
      BY <1>3, <2>1 DEF TableApart
    <2>3. LengthOK'
      BY <1>2, <1>4, <2>1 DEF LengthOK
    <2>4. ASSUME pc' = "header"
          PROVE  Pairwise(RecordsOf(IndexRecord')) /\ Inside(RecordsOf(IndexRecord'), tab'.size)
      <3>1. IndexRecord' = IndexRecord /\ IndexRecord.hash = Snapshot(tab.index)
        BY <1>1, <2>1, <2>4 DEF IndexRecord, Same
      <3>2. tab.map[Index] \in DOMAIN tab.index /\ IndexRecord.pos # 0
        BY <1>0, <1>7 DEF TableOK, IndexRecord
      <3>3. SameSpot(IndexRecord, tab.index[tab.map[Index]])
        BY DEF IndexRecord, SameSpot
      <3>4. \A j \in DOMAIN tab.index : SameSpot(tab.index[j], tab.index[j])
        BY DEF SameSpot
      <3>5. Pairwise(RecordsOf(IndexRecord)) /\ Inside(RecordsOf(IndexRecord), tab.size)
        BY <1>0, <1>3, <1>7, <3>1, <3>2, <3>3, <3>4, RecordsApart DEF TableApart
      <3> QED BY <2>1, <3>1, <3>5
    <2> QED BY <1>1, <1>5, <2>2, <2>3, <2>4 DEF LayoutInv
  <1> QED BY <1>6, <1>7

LEMMA UpdateHeaderLayout == ASSUME IInv, LayoutInv, UpdateHeader PROVE LayoutInv'
  <1> SUFFICES ASSUME ~ aliased PROVE LayoutInv'
    BY DEF LayoutInv, UpdateHeader, history
  <1>1. /\ pc = "header" /\ pc' = "clearing" /\ tab' = tab /\ failures' = failures
        /\ cached' = [cached EXCEPT !.hdr = Header]
    BY DEF UpdateHeader, history
  <1>2. cached \in Files /\ cached.len \in Nat /\ tab.size \in Nat
    BY DEF IInv, TypeOK, Files, Tables
  <1>3. cached'.len = cached.len /\ cached'.hdr.idx = IndexRecord
    BY <1>1, <1>2 DEF Header, IndexRecord, Files
  <1>4. /\ TableApart /\ LengthOK
        /\ Pairwise(RecordsOf(IndexRecord)) /\ Inside(RecordsOf(IndexRecord), tab.size)
    BY <1>1 DEF LayoutInv
  <1>5. failures = 0 => cached.len = tab.size - 1
    BY <1>1, <1>4 DEF LengthOK, IndexOwed
  <1>6. TableApart' /\ LengthOK'
    BY <1>1, <1>3, <1>4, <1>5 DEF TableApart, LengthOK
  <1>7. HeaderApart'
    <2>1. failures = 0 => cached.len + 1 = tab.size
      BY <1>2, <1>5
    <2> QED BY <1>1, <1>3, <1>4, <2>1 DEF HeaderApart
  <1> QED BY <1>1, <1>6, <1>7 DEF LayoutInv

\* The steps that write no block: only the flag in the stream's header changes.
LEMMA FlagLayout ==
    ASSUME IInv, LayoutInv,
           \/ \E k \in Keys, d \in Data : BeginWrite(k, d)
           \/ LeaveDirty \/ Marked \/ FlushUnchanged \/ ClearFlag \/ Cleared
    PROVE  LayoutInv'
  <1>1. cached \in Files
    BY DEF IInv, TypeOK
  <1>2. /\ UNCHANGED <<tab, history>> /\ pc \notin {"none", "place"}
        /\ pc' \in {"idle", "place", "marking", "clearing", "cleared"}
    BY DEF BeginWrite, LeaveDirty, Marked, FlushUnchanged, ClearFlag, Cleared,
           StartMarking, Idle, memory
  <1>3. cached' = cached \/ \E b \in BOOLEAN : cached' = SimpleHeader(cached, b)
    BY DEF BeginWrite, LeaveDirty, Marked, FlushUnchanged, ClearFlag, Cleared,
           StartMarking, memory
  <1>4. cached'.len = cached.len /\ cached'.hdr.idx = cached.hdr.idx
    BY <1>1, <1>3, SimpleHeaderType
  <1> QED BY <1>2, <1>4, SameLayout

LEMMA WriteBackLayout ==
    ASSUME IInv, LayoutInv,
           WriteBackHeader \/ \E s \in 1 .. MaxSectors : WriteBackSector(s)
    PROVE  LayoutInv'
  <1>1. UNCHANGED <<pc, tab, todo, cached, history>> /\ pc # "none"
    BY DEF WriteBackHeader, WriteBackSector, memory
  <1> QED BY <1>1, SameLayout

LEMMA CrashLayout == ASSUME IInv, LayoutInv, Crash PROVE LayoutInv'
  <1>1. /\ pc # "none" /\ pc' = "none" /\ cached' = disk
        /\ aliased' = aliased /\ failures' = failures
    BY DEF Crash, history
  <1>2. ASSUME ~ aliased, ~ disk.hdr.dirty PROVE HeaderApart'
    <2>1. disk.len = cached.len /\ disk.hdr.idx = cached.hdr.idx
      BY <1>1, <1>2 DEF IInv, DiskOK, SameButFlag
    <2>2. HeaderApart
      BY <1>1, <1>2 DEF LayoutInv
    <2> QED BY <1>1, <2>1, <2>2 DEF HeaderApart
  <1> QED BY <1>1, <1>2 DEF LayoutInv

LEMMA StutterLayout == ASSUME LayoutInv, UNCHANGED vars PROVE LayoutInv'
  BY DEF vars, LayoutInv, TableApart, LengthOK, HeaderApart, IndexRecord, IndexOwed,
         Pairwise, Inside, Roomy

LEMMA InitLayout == Init => LayoutInv
  BY BlankType DEF Init, LayoutInv

LEMMA NextLayout == IInv /\ LayoutInv /\ [Next]_vars => LayoutInv'
  <1> SUFFICES ASSUME IInv, LayoutInv, [Next]_vars PROVE LayoutInv'
    OBVIOUS
  <1>1. CASE Create \/ Open
    BY <1>1, CreateLayout, OpenLayout
  <1>2. CASE \/ \E k \in Keys, d \in Data : BeginWrite(k, d)
             \/ LeaveDirty \/ Marked \/ FlushUnchanged \/ ClearFlag \/ Cleared
    BY <1>2, FlagLayout
  <1>3. CASE Place \/ PlaceFails
    BY <1>3, PlaceLayout, PlaceFailsLayout
  <1>4. CASE BeginFlush \/ UpdateHeader
    BY <1>4, BeginFlushLayout, UpdateHeaderLayout
  <1>5. CASE WriteBackHeader \/ \E s \in 1 .. MaxSectors : WriteBackSector(s)
    BY <1>5, WriteBackLayout
  <1>6. CASE Crash \/ UNCHANGED vars
    BY <1>6, CrashLayout, StutterLayout
  <1> QED BY <1>1, <1>2, <1>3, <1>4, <1>5, <1>6 DEF Next

LEMMA LayoutApart == IInv /\ LayoutInv => BlocksDisjoint
  <1> SUFFICES ASSUME IInv, LayoutInv, ~ aliased, NEW i \in DOMAIN tab.index
               PROVE  /\ SectorsOf(tab.index[i]) \subseteq 1 .. tab.size - 1
                      /\ \A j \in DOMAIN tab.index \ {i} :
                            SectorsOf(tab.index[i]) \cap SectorsOf(tab.index[j]) = {}
    BY DEF BlocksDisjoint
  <1>1. pc # "none"
    BY DEF IInv, DiskOK, NoTable
  <1>2. TableApart /\ tab \in Tables /\ tab.size \in Nat
    BY <1>1 DEF LayoutInv, IInv, TypeOK, Tables
  <1>3. \A j \in DOMAIN tab.index : tab.index[j].pos \in Nat /\ tab.index[j].bsize \in Nat
    BY <1>2, RecordType DEF Items
  <1>4. SectorsOf(tab.index[i]) \subseteq 1 .. tab.size - 1
    BY <1>2, <1>3 DEF TableApart, Inside, SectorsOf
  <1>5. ASSUME NEW j \in DOMAIN tab.index \ {i}
        PROVE  SectorsOf(tab.index[i]) \cap SectorsOf(tab.index[j]) = {}
    <2>1. Away(tab.index[i], tab.index[j])
      BY <1>2 DEF TableApart, Pairwise
    <2> QED BY <1>3, <2>1 DEF Away, SectorsOf
  <1> QED BY <1>4, <1>5

\* Whatever the sizes of the blocks, the number of sessions and the failing
\* writes: allocBlock gives out no sector that a block has, and open() finds
\* the blocks apart, but for the two exceptions that BlocksDisjoint names.
THEOREM AllocationIsDisjoint == Spec => []BlocksDisjoint
  <1>1. Spec => []LayoutInv
    <2>1. []IInv /\ Init /\ [][Next]_vars => []LayoutInv
      BY InitLayout, NextLayout, PTL
    <2> QED BY <2>1, Invariance, PTL DEF Spec
  <1> QED BY <1>1, LayoutApart, Invariance, PTL


-----------------------------------------------------------------------------
(* What the stored blocks contain. *)

\* The blocks of the keys ks of table t are in file f.
KeysStored(f, t, ks) ==
    \A k \in ks : t.map[k] # 0 => Stored(f, t.index[t.map[k]])

\* A restart could open f if its header had index record b and size n.
FileGood(f, b, n) ==
    /\ n <= f.len + 1
    /\ b.pos # 0 =>
          /\ b.pos + b.bsize <= n
          /\ Stored(f, b)
          /\ Roomy(RecordsOf(b))
          /\ \E i \in DOMAIN RecordsOf(b) : RecordsOf(b)[i].key = Index
          /\ \A i \in DOMAIN RecordsOf(b) :
                RecordsOf(b)[i].key \in Keys => Stored(f, RecordsOf(b)[i])

HeaderGood(f) == FileGood(f, f.hdr.idx, f.hdr.fsize)

\* The block that write() is about to write.
Unwritten == IF pc = "place" THEN {todo.key} ELSE {}

StoredInv ==
    /\ pc = "idle" /\ ~ dirty => ~ disk.hdr.dirty
    /\ ~ aliased /\ failures = 0 =>
        /\ pc # "none" => /\ KeysStored(cached, tab, AllKeys \ Unwritten)
                          /\ tab.size <= MaxSectors + 1
        /\ pc # "none" /\ ~ indexChanged => HeaderGood(cached)
        /\ pc = "header" => FileGood(cached, IndexRecord, tab.size)
        /\ pc = "none" /\ ~ cached.hdr.dirty => HeaderGood(cached) /\ cached.len <= MaxSectors

\* Stored looks at the sectors alone.
LEMMA StoredSame ==
    ASSUME NEW f, NEW g, g.sec = f.sec, NEW it, Stored(f, it) PROVE Stored(g, it)
  BY DEF Stored

LEMMA FileGoodSame ==
    ASSUME NEW f, NEW g, g.sec = f.sec, g.len = f.len, NEW b, NEW n, FileGood(f, b, n)
    PROVE  FileGood(g, b, n)
  BY StoredSame DEF FileGood

LEMMA HeaderGoodSame ==
    ASSUME NEW f, NEW g, g.sec = f.sec, g.len = f.len, g.hdr.idx = f.hdr.idx,
           g.hdr.fsize = f.hdr.fsize, HeaderGood(f)
    PROVE  HeaderGood(g)
  BY FileGoodSame DEF HeaderGood

\* A step that leaves the records, the sectors and the header's copy of the
\* index alone.
LEMMA SameStored ==
    ASSUME StoredInv, pc # "none", pc' # "none",
           UNCHANGED <<tab, indexChanged, history>>,
           cached'.len = cached.len, cached'.sec = cached.sec,
           cached'.hdr.idx = cached.hdr.idx, cached'.hdr.fsize = cached.hdr.fsize,
           pc' = "header" => pc = "header",
           pc = "place" => pc' = "place" /\ todo' = todo,
           pc' = "idle" /\ ~ dirty' => ~ disk'.hdr.dirty
    PROVE  StoredInv'
  <1>1. ASSUME KeysStored(cached, tab, AllKeys \ Unwritten)
        PROVE  KeysStored(cached', tab', AllKeys \ Unwritten')
    <2>1. Unwritten \subseteq Unwritten'
      BY DEF Unwritten
    <2> QED BY <1>1, <2>1, StoredSame DEF KeysStored
  <1>2. ASSUME HeaderGood(cached) PROVE HeaderGood(cached')
    BY <1>2, HeaderGoodSame
  <1>3. ASSUME FileGood(cached, IndexRecord, tab.size)
        PROVE  FileGood(cached', IndexRecord', tab'.size)
    <2>1. IndexRecord' = IndexRecord
      BY DEF IndexRecord
    <2> QED BY <1>3, <2>1, FileGoodSame
  <1> QED BY <1>1, <1>2, <1>3 DEF StoredInv, history

LEMMA InitStored == Init => StoredInv
  BY BlankType DEF Init, StoredInv

LEMMA CreateStored == ASSUME IInv, Create PROVE StoredInv'
  <1>1. tab' = NoTable /\ NoTable.size = 1 /\ \A k \in AllKeys : NoTable.map[k] = 0
    BY DEF Create, NoTable, AllKeys
  <1>2. /\ cached'.len = 0 /\ cached'.hdr.idx.pos = 0 /\ cached'.hdr.fsize = 1
    BY BlankType DEF Create, BlankHeader
  <1>3. HeaderGood(cached')
    BY <1>2 DEF HeaderGood, FileGood
  <1>4. KeysStored(cached', tab', AllKeys \ Unwritten')
    BY <1>1 DEF KeysStored
  <1>5. tab'.size <= MaxSectors + 1
    BY <1>1, CacheFileAssumption
  <1> QED BY <1>3, <1>4, <1>5 DEF StoredInv, Create

LEMMA OpenStored == ASSUME IInv, StoredInv, Open PROVE StoredInv'
  <1>1. /\ cached = disk /\ disk \in Files /\ HeaderOK(disk.hdr) /\ Accept(disk)
        /\ pc = "none" /\ pc' = "idle" /\ cached' = cached /\ disk' = disk
        /\ failures' = failures /\ tab' = TableOf(disk)
    BY DEF IInv, Open, DiskOK, TypeOK
  <1>2. ~ cached.hdr.dirty /\ ~ disk'.hdr.dirty
    BY <1>1 DEF Accept
  <1> SUFFICES ASSUME ~ aliased', failures = 0
               PROVE  /\ KeysStored(cached', tab', AllKeys \ Unwritten')
                      /\ tab'.size <= MaxSectors + 1
                      /\ HeaderGood(cached')
    BY <1>1, <1>2 DEF StoredInv
  <1>3. ~ aliased
    BY DEF Open, IInv, TypeOK
  <1>4. HeaderGood(cached) /\ cached.len <= MaxSectors
    BY <1>1, <1>2, <1>3 DEF StoredInv
  <1>5. TableOf(disk) \in Tables /\ TableOK(TableOf(disk))
    BY <1>1, TableOfGood
  <1>6. /\ TableOf(disk).index = RecordsOf(cached.hdr.idx)
        /\ TableOf(disk).size = cached.len + 1
    BY <1>1 DEF TableOf, Records, RecordsOf
  <1>7. tab'.size <= MaxSectors + 1
    BY <1>1, <1>4, <1>6, CacheFileAssumption DEF Files
  <1>8. ASSUME NEW k \in AllKeys, TableOf(disk).map[k] # 0
        PROVE  Stored(cached, TableOf(disk).index[TableOf(disk).map[k]])
    <2> DEFINE i == TableOf(disk).map[k]
               b == cached.hdr.idx
    <2>1. i \in DOMAIN RecordsOf(b) /\ RecordsOf(b)[i].key = k
      BY <1>5, <1>6, <1>8 DEF TableOK
    <2> HIDE DEF i, b
    <2>2. b.pos # 0
      BY <2>1 DEF RecordsOf
    <2>3. CASE k = Index
      <3>1. RecordsOf(b)[i] = b
        BY <2>1, <2>2, <2>3 DEF RecordsOf
      <3> QED BY <1>4, <1>6, <2>2, <3>1 DEF HeaderGood, FileGood, i, b
    <2>4. CASE k \in Keys
      <3>1. Stored(cached, RecordsOf(b)[i])
        BY <1>4, <2>1, <2>2, <2>4 DEF HeaderGood, FileGood, b
      <3> QED BY <1>6, <3>1 DEF i, b
    <2> QED BY <2>3, <2>4 DEF AllKeys
  <1>9. KeysStored(cached', tab', AllKeys \ Unwritten')
    BY <1>1, <1>8 DEF KeysStored
  <1> QED BY <1>1, <1>4, <1>7, <1>9

\* The sectors that a write to the block of record it changes.
LEMMA WrittenSectors ==
    ASSUME NEW f \in Files, NEW it \in Items, NEW c, NEW n \in Nat, n <= it.bsize
    PROVE  \A s \in 1 .. MaxSectors :
              /\ s \in it.pos .. it.pos + n - 1 => Written(f, it, c, n).sec[s] = c
              /\ s \notin it.pos .. it.pos + it.bsize - 1 =>
                    Written(f, it, c, n).sec[s] = f.sec[s]
  <1>1. it.pos \in Nat /\ it.bsize \in Nat
    BY DEF Items
  <1>2. Padding(f, it, n) \subseteq it.pos .. it.pos + it.bsize - 1
    BY <1>1 DEF Padding
  <1>3. it.pos .. it.pos + n - 1 \subseteq it.pos .. it.pos + it.bsize - 1
    BY <1>1
  <1>4. Written(f, it, c, n).sec = [s \in 1 .. MaxSectors |->
            IF s \in it.pos .. it.pos + n - 1 THEN c
            ELSE IF s \in Padding(f, it, n) THEN Pad ELSE f.sec[s]]
    BY DEF Written
  <1> QED BY <1>2, <1>3, <1>4

\* A write to the block of record it leaves what a block away from it has.
LEMMA StoredAway ==
    ASSUME NEW f \in Files, NEW it \in Items, NEW c, NEW n \in Nat, n <= it.bsize,
           NEW b \in Items, Away(b, it), Sectors(b.dsize) <= b.bsize,
           b.pos >= 1, b.pos + b.bsize <= MaxSectors + 1, Stored(f, b)
    PROVE  Stored(Written(f, it, c, n), b)
  <1>1. /\ it.pos \in Nat /\ it.bsize \in Nat /\ b.pos \in Nat /\ b.bsize \in Nat
        /\ b.dsize \in Nat /\ Sectors(b.dsize) \in Nat /\ MaxSectors \in Nat
    BY SectorsNat, CacheFileAssumption DEF Items
  <1>2. ASSUME NEW s \in b.pos .. b.pos + Sectors(b.dsize) - 1
        PROVE  Written(f, it, c, n).sec[s] = b.hash
    <2>1. s \in 1 .. MaxSectors /\ s \in b.pos .. b.pos + b.bsize - 1
      BY <1>1
    <2>2. s \notin it.pos .. it.pos + it.bsize - 1
      BY <1>1, <2>1 DEF Away
    <2>3. f.sec[s] = b.hash
      BY DEF Stored
    <2> QED BY <2>1, <2>2, <2>3, WrittenSectors
  <1> QED BY <1>2 DEF Stored

\* And one that writes all of the data leaves them in the block.
LEMMA StoredThere ==
    ASSUME NEW f \in Files, NEW it \in Items, Sectors(it.dsize) <= it.bsize,
           it.pos >= 1, it.pos + it.bsize <= MaxSectors + 1,
           it.hash # Nothing, it.dsize = ContentSize(it.key, it.hash)
    PROVE  Stored(Written(f, it, it.hash, Sectors(it.dsize)), it)
  <1>1. /\ it.pos \in Nat /\ it.bsize \in Nat
        /\ it.dsize \in Nat /\ Sectors(it.dsize) \in Nat /\ MaxSectors \in Nat
    BY SectorsNat, CacheFileAssumption DEF Items
  <1>2. ASSUME NEW s \in it.pos .. it.pos + Sectors(it.dsize) - 1
        PROVE  Written(f, it, it.hash, Sectors(it.dsize)).sec[s] = it.hash
    <2>1. s \in 1 .. MaxSectors
      BY <1>1
    <2> QED BY <1>1, <2>1, WrittenSectors
  <1> QED BY <1>2 DEF Stored

\* The records of a file whose index block b is that of table t.
LEMMA RecordsOfTable ==
    ASSUME NEW t \in Tables, TableOK(t), t.map[Index] # 0,
           NEW b, b.pos # 0, b.hash = Snapshot(t.index)
    PROVE  /\ DOMAIN RecordsOf(b) = DOMAIN t.index
           /\ t.map[Index] \in DOMAIN t.index /\ RecordsOf(b)[t.map[Index]] = b
           /\ \A i \in DOMAIN t.index \ {t.map[Index]} : RecordsOf(b)[i] = t.index[i]
  <1>1. t.map[Index] \in DOMAIN t.index
    BY DEF TableOK, AllKeys
  <1>2. \A i \in DOMAIN t.index : t.index[i].key = Index <=> i = t.map[Index]
    BY DEF TableOK, AllKeys
  <1>3. /\ DOMAIN b.hash = DOMAIN t.index
        /\ \A i \in DOMAIN t.index : b.hash[i] = IF t.index[i].key = Index
              THEN Item(Index, t.index[i].pos, t.index[i].bsize, 0, Nothing)
              ELSE t.index[i]
    BY DEF Snapshot
  <1>4. Item(Index, t.index[t.map[Index]].pos, t.index[t.map[Index]].bsize, 0, Nothing).key = Index
    BY DEF Item
  <1>5. /\ DOMAIN RecordsOf(b) = DOMAIN t.index
        /\ \A i \in DOMAIN t.index :
              RecordsOf(b)[i] = IF b.hash[i].key = Index THEN b ELSE b.hash[i]
    BY <1>3 DEF RecordsOf
  <1> QED BY <1>1, <1>2, <1>3, <1>4, <1>5

\* A restart could open a file whose index block is that of the table.
LEMMA GoodOfTable ==
    ASSUME NEW t \in Tables, TableOK(t), t.map[Index] # 0, Roomy(t.index), NEW f, NEW n,
           NEW b, b.pos # 0, b.key = Index, b.hash = Snapshot(t.index),
           Sectors(b.dsize) <= b.bsize, n <= f.len + 1, b.pos + b.bsize <= n,
           Stored(f, b), KeysStored(f, t, Keys)
    PROVE  FileGood(f, b, n)
  <1> DEFINE r == RecordsOf(b)
             m == t.map[Index]
  <1>1. /\ DOMAIN r = DOMAIN t.index /\ m \in DOMAIN t.index /\ r[m] = b
        /\ \A i \in DOMAIN t.index \ {m} : r[i] = t.index[i]
    BY RecordsOfTable
  <1> HIDE DEF r, m
  <1>2. Roomy(r)
    BY <1>1 DEF Roomy
  <1>3. \E i \in DOMAIN r : r[i].key = Index
    BY <1>1
  <1>4. ASSUME NEW i \in DOMAIN r, r[i].key \in Keys PROVE Stored(f, r[i])
    <2>1. i # m
      BY <1>1, <1>4, CacheFileAssumption
    <2>2. r[i] = t.index[i] /\ t.index[i].key \in AllKeys /\ i \in DOMAIN t.index
      BY <1>1, <1>4, <2>1 DEF AllKeys
    <2>3. t.map[t.index[i].key] = i /\ i # 0
      BY <2>2 DEF TableOK, Tables
    <2> QED BY <1>4, <2>2, <2>3 DEF KeysStored
  <1> QED BY <1>2, <1>3, <1>4 DEF FileGood, r

LEMMA PlaceStored ==
    ASSUME IInv, IInv', LayoutInv, LayoutInv', StoredInv, Place PROVE StoredInv'
  <1> DEFINE k == todo.key
             n == ContentSize(todo.key, todo.data)
  <1>0. /\ pc = "place" /\ failures' = failures /\ todo' = todo /\ indexChanged' = TRUE
        /\ pc' = IF k = Index THEN "header" ELSE "idle"
        /\ dirty' = dirty /\ dirty
    BY DEF Place, NoteIndexChange, IInv, FlagOK
  <1> SUFFICES ASSUME ~ aliased', failures = 0
               PROVE  /\ KeysStored(cached', tab', AllKeys)
                      /\ tab'.size <= MaxSectors + 1
                      /\ pc' = "header" => FileGood(cached', IndexRecord', tab'.size)
    <2>1. Unwritten' \subseteq AllKeys /\ AllKeys \ Unwritten' = AllKeys
      BY <1>0 DEF Unwritten
    <2> QED BY <1>0, <2>1 DEF StoredInv
  <1>1. PICK t \in Room(tab, k, n) :
          /\ t.size <= MaxSectors + 1
          /\ tab' = [t EXCEPT !.index[Target(t)] = NewRecord(t, n, todo.data)]
          /\ cached' = Written(cached, NewRecord(t, n, todo.data), todo.data,
                               Sectors(NewRecord(t, n, todo.data).dsize))
    BY DEF Place, Target, NewRecord
  <1>2. ~ aliased
    BY DEF Place, IInv, TypeOK
  <1>3. /\ n \in Nat /\ todo.data \in Hashes /\ k \in AllKeys /\ cached \in Files
        /\ todo.key # Index => todo.data \in Data \cup {Nothing}
        /\ tab \in Tables /\ TableOK(tab) /\ tab' \in Tables /\ TableOK(tab')
    <2>1. tab' \in Tables /\ TableOK(tab')
      BY DEF IInv, TypeOK
    <2> QED BY <1>0, <2>1, TodoType
  <1> DEFINE b == NewRecord(t, n, todo.data)
  <1> HIDE DEF b, n
  <1>4. TableApart /\ PlacedOK(t, b, n, todo.data)
    BY <1>0, <1>1, <1>2, <1>3, PlacedLayout DEF b
  <1>5. /\ tab'.size <= MaxSectors + 1 /\ b \in Items /\ b.dsize = n
        /\ b.hash = todo.data /\ Sectors(n) <= b.bsize /\ TableApart' /\ b.pos # 0
        /\ tab'.map[k] \in DOMAIN tab'.index /\ tab'.index[tab'.map[k]] = b
        /\ tab'.map[k] # 0
    <2>1. tab'.map[k] # 0
      BY <1>3, <1>4 DEF PlacedOK, Tables
    <2> QED BY <1>1, <1>4, <2>1 DEF PlacedOK, Kept
  <1>6. cached' = Written(cached, b, todo.data, Sectors(n))
    BY <1>1, <1>5 DEF b
  <1>7. b.key = k
    BY <1>3, <1>5 DEF TableOK
  <1>8. b.pos >= 1 /\ b.pos + b.bsize <= tab'.size /\ b.pos + b.bsize <= MaxSectors + 1
    <2>1. b.pos >= 1 /\ b.pos + b.bsize <= tab'.size
      BY <1>5 DEF TableApart, Inside
    <2>2. b.pos \in Nat /\ b.bsize \in Nat /\ tab'.size \in Nat /\ MaxSectors \in Nat
      BY <1>3, <1>5, CacheFileAssumption DEF Items, Tables
    <2> QED BY <1>5, <2>1, <2>2
  <1> HIDE DEF k
  <1>9. Stored(cached', b)
    <2>1. todo.data # Nothing
      BY <1>0, <1>3, CacheFileAssumption, NothingAssumption, SnapshotGood
         DEF IInv, TodoOK
    <2>2. b.dsize = ContentSize(b.key, b.hash)
      BY <1>5, <1>7 DEF n, k
    <2> QED BY <1>3, <1>5, <1>6, <1>8, <2>1, <2>2, StoredThere
  <1>10. ASSUME NEW j \in AllKeys, j # k, tab'.map[j] # 0
         PROVE  Stored(cached', tab'.index[tab'.map[j]])
    <2> DEFINE i == tab'.map[j]
               q == tab'.index[i]
    <2>1. q = tab.index[tab.map[j]] /\ tab.map[j] # 0
      BY <1>10, PlaceTable DEF AgreeBut, k
    <2>2. Stored(cached, q)
      <3>1. j \in AllKeys \ Unwritten
        BY <1>10 DEF Unwritten, k
      <3> QED BY <1>0, <1>2, <2>1, <3>1 DEF StoredInv, KeysStored
    <2>3. i \in DOMAIN tab'.index /\ q.key = j
      BY <1>3, <1>10 DEF TableOK
    <2>4. q \in Items
      BY <1>3, <2>3, RecordType
    <2> HIDE DEF q
    <2>5. i # tab'.map[k]
      BY <1>5, <1>7, <1>10, <2>3 DEF q
    <2>6. Away(q, b)
      BY <1>5, <2>3, <2>5 DEF TableApart, Pairwise, q
    <2>7. /\ Sectors(q.dsize) <= q.bsize /\ q.pos >= 1
          /\ q.pos + q.bsize <= tab'.size
      BY <1>5, <2>3 DEF TableApart, Inside, Roomy, q
    <2>8. q.pos + q.bsize <= MaxSectors + 1
      <3>1. q.pos \in Nat /\ q.bsize \in Nat /\ tab'.size \in Nat /\ MaxSectors \in Nat
        BY <1>3, <2>4, CacheFileAssumption DEF Items, Tables
      <3> QED BY <1>5, <2>7, <3>1
    <2>9. Sectors(n) \in Nat
      BY <1>3, SectorsNat
    <2>10. Stored(Written(cached, b, todo.data, Sectors(n)), q)
      BY <1>3, <1>5, <2>2, <2>4, <2>6, <2>7, <2>8, <2>9, StoredAway
    <2> QED BY <1>6, <2>10 DEF q
  <1>11. KeysStored(cached', tab', AllKeys)
    BY <1>5, <1>9, <1>10 DEF KeysStored
  <1>12. ASSUME k = Index PROVE FileGood(cached', IndexRecord', tab'.size)
    <2>1. IndexRecord' = b
      BY <1>5, <1>12 DEF IndexRecord
    <2>2. tab.map[Index] # 0 /\ b.hash = Snapshot(tab.index)
      BY <1>0, <1>5, <1>12 DEF IInv, TodoOK, k
    <2>3. KeysStored(cached', tab, Keys)
      <3> SUFFICES ASSUME NEW j \in Keys, tab.map[j] # 0
                   PROVE  Stored(cached', tab.index[tab.map[j]])
        BY DEF KeysStored
      <3>1. j \in AllKeys /\ j # k
        BY <1>12, CacheFileAssumption DEF AllKeys
      <3>2. tab'.map[j] = tab.map[j] /\ tab'.index[tab'.map[j]] = tab.index[tab.map[j]]
        BY <3>1, PlaceTable DEF AgreeBut, k
      <3> QED BY <1>10, <3>1, <3>2
    <2>4. tab'.size <= cached'.len + 1
      <3>1. cached'.len = tab'.size - 1
        BY <1>0, <1>12 DEF LayoutInv, LengthOK, IndexOwed
      <3>2. tab'.size \in Nat
        BY <1>3 DEF Tables
      <3> QED BY <3>1, <3>2
    <2>5. Roomy(tab.index)
      BY <1>4 DEF TableApart
    <2> QED BY <1>3, <1>5, <1>7, <1>8, <1>9, <1>12, <2>1, <2>2, <2>3, <2>4, <2>5, GoodOfTable
  <1> QED BY <1>0, <1>5, <1>11, <1>12

LEMMA PlaceFailsStored == ASSUME IInv, StoredInv, PlaceFails PROVE StoredInv'
  <1>1. failures' # 0 /\ pc' = "idle" /\ dirty' = dirty /\ dirty
    <2>1. pc = "place" /\ failures' = failures + 1 /\ pc' = "idle" /\ dirty' = dirty
      BY Zenon DEF PlaceFails
    <2>2. failures \in Nat /\ (pc = "place" => dirty)
      BY DEF IInv, TypeOK, FlagOK
    <2> QED  BY <2>1, <2>2
  <1> QED BY <1>1 DEF StoredInv

LEMMA BeginFlushStored ==
    ASSUME IInv, IInv', LayoutInv, LayoutInv', StoredInv, BeginFlush PROVE StoredInv'
  <1>0. /\ pc = "idle" /\ indexChanged /\ UNCHANGED <<indexChanged, dirty, cached, disk>>
        /\ aliased' = aliased /\ failures' = failures /\ pc' \in {"header", "place"}
        /\ tab'.size <= MaxSectors + 1 /\ todo'.key = Index
    BY DEF BeginFlush, Idle, history
  <1> SUFFICES ASSUME ~ aliased, failures = 0
               PROVE  /\ KeysStored(cached, tab', AllKeys \ Unwritten')
                      /\ pc' = "header" => FileGood(cached, IndexRecord', tab'.size)
    BY <1>0 DEF StoredInv
  <1>1. KeysStored(cached, tab, AllKeys)
    BY <1>0 DEF StoredInv, Unwritten
  <1>2. tab \in Tables /\ TableOK(tab) /\ TableApart
    BY <1>0 DEF IInv, TypeOK, LayoutInv
  <1>3. CASE tab.map[Index] = 0
    <2>1. pc' = "place"
      BY <1>3 DEF BeginFlush, Same
    <2>2. AgreeBut(tab, tab', Index)
      <3>1. Index \in AllKeys /\ 2 * Len(tab.index) + IndexSlack \in Nat
        <4>1. Len(tab.index) \in Nat /\ IndexSlack \in Nat
          BY <1>2, CacheFileAssumption DEF Tables
        <4> QED BY <4>1 DEF AllKeys
      <3> QED BY <1>2, <1>3, <3>1, AllocBlockOK DEF BeginFlush
    <2> QED BY <1>0, <1>1, <2>1, <2>2 DEF Unwritten, KeysStored, AgreeBut
  <1>4. CASE tab.map[Index] # 0
    <2>1. tab' = tab
      BY <1>4 DEF BeginFlush
    <2>2. ASSUME pc' = "header" PROVE FileGood(cached, IndexRecord, tab.size)
      <3> DEFINE b == IndexRecord
      <3>1. b.hash = Snapshot(tab.index)
        BY <2>1, <2>2 DEF BeginFlush, Same, IndexRecord
      <3>2. tab.map[Index] \in DOMAIN tab.index /\ b.key = Index /\ b.pos # 0
        BY <1>2, <1>4 DEF TableOK, AllKeys, IndexRecord
      <3>3. Sectors(b.dsize) <= b.bsize /\ b.pos + b.bsize <= tab.size /\ Roomy(tab.index)
        BY <1>2, <3>2 DEF TableApart, Inside, Roomy, IndexRecord
      <3>4. Stored(cached, b) /\ KeysStored(cached, tab, Keys)
        BY <1>1, <1>4 DEF KeysStored, AllKeys, IndexRecord
      <3>5. tab.size <= cached.len + 1
        <4>1. cached.len = tab.size - 1
          BY <1>0 DEF LayoutInv, LengthOK, IndexOwed
        <4>2. tab.size \in Nat
          BY <1>2 DEF Tables
        <4> QED BY <4>1, <4>2
      <3> HIDE DEF b
      <3>6. FileGood(cached, b, tab.size)
        BY <1>2, <1>4, <3>1, <3>2, <3>3, <3>4, <3>5, GoodOfTable
      <3> QED BY <3>6 DEF b
    <2>3. IndexRecord' = IndexRecord
      BY <2>1 DEF IndexRecord
    <2> QED BY <1>1, <2>1, <2>2, <2>3 DEF KeysStored
  <1> QED BY <1>3, <1>4

LEMMA UpdateHeaderStored == ASSUME IInv, StoredInv, UpdateHeader PROVE StoredInv'
  <1>1. /\ pc = "header" /\ pc' = "clearing" /\ tab' = tab
        /\ aliased' = aliased /\ failures' = failures
        /\ cached' = [cached EXCEPT !.hdr = Header]
    BY DEF UpdateHeader, history
  <1>2. cached \in Files
    BY DEF IInv, TypeOK
  <1>3. /\ cached'.sec = cached.sec /\ cached'.len = cached.len
        /\ cached'.hdr.idx = IndexRecord /\ cached'.hdr.fsize = tab.size
    BY <1>1, <1>2 DEF Header, IndexRecord, Files
  <1> SUFFICES ASSUME ~ aliased, failures = 0
               PROVE  /\ KeysStored(cached', tab, AllKeys \ Unwritten')
                      /\ tab.size <= MaxSectors + 1
                      /\ HeaderGood(cached')
    BY <1>1 DEF StoredInv
  <1>4. KeysStored(cached, tab, AllKeys) /\ tab.size <= MaxSectors + 1
    BY <1>1 DEF StoredInv, Unwritten
  <1>5. FileGood(cached, IndexRecord, tab.size)
    BY <1>1 DEF StoredInv
  <1>6. HeaderGood(cached')
    BY <1>3, <1>5, FileGoodSame DEF HeaderGood
  <1>7. KeysStored(cached', tab, AllKeys \ Unwritten')
    BY <1>3, <1>4, StoredSame DEF KeysStored
  <1> QED BY <1>4, <1>6, <1>7

\* The steps that write no block and no header but its flag.
LEMMA FlagStored ==
    ASSUME IInv, IInv', StoredInv,
           \/ \E k \in Keys, d \in Data : BeginWrite(k, d)
           \/ LeaveDirty \/ Marked \/ FlushUnchanged \/ ClearFlag \/ Cleared
    PROVE  StoredInv'
  <1>1. cached \in Files
    BY DEF IInv, TypeOK
  <1>2. /\ UNCHANGED <<tab, indexChanged, history, disk>>
        /\ pc \notin {"none", "place", "header"}
        /\ pc' \in {"idle", "place", "marking", "clearing", "cleared"}
    BY DEF BeginWrite, LeaveDirty, Marked, FlushUnchanged, ClearFlag, Cleared,
           StartMarking, Idle, memory
  <1>3. cached' = cached \/ \E b \in BOOLEAN : cached' = SimpleHeader(cached, b)
    BY DEF BeginWrite, LeaveDirty, Marked, FlushUnchanged, ClearFlag, Cleared,
           StartMarking, memory
  <1>4. /\ cached'.len = cached.len /\ cached'.hdr.idx = cached.hdr.idx
        /\ cached'.sec = cached.sec /\ cached'.hdr.fsize = cached.hdr.fsize
    BY <1>1, <1>3 DEF SimpleHeader, Files
  <1>5. pc' = "idle" /\ ~ dirty' => ~ disk'.hdr.dirty
    <2>1. CASE Cleared
      BY <2>1 DEF Cleared, IInv, FlagOK, memory
    <2>2. CASE LeaveDirty \/ FlushUnchanged \/ ClearFlag \/ \E k \in Keys, d \in Data : BeginWrite(k, d)
      BY <2>2 DEF BeginWrite, LeaveDirty, FlushUnchanged, ClearFlag, StartMarking
    <2>3. CASE Marked
      BY <2>3 DEF Marked, IInv, FlagOK, memory
    <2> QED BY <2>1, <2>2, <2>3
  <1> QED BY <1>2, <1>4, <1>5, SameStored

LEMMA WriteBackStored ==
    ASSUME IInv, IInv', StoredInv,
           WriteBackHeader \/ \E s \in 1 .. MaxSectors : WriteBackSector(s)
    PROVE  StoredInv'
  <1>1. UNCHANGED <<pc, memory, todo, cached, history>> /\ pc # "none"
    BY DEF WriteBackHeader, WriteBackSector
  <1>2. disk \in Files
    BY DEF IInv, TypeOK
  <1>3. CASE WriteBackHeader
    <2>1. disk'.hdr = cached.hdr
      BY <1>2, <1>3 DEF WriteBackHeader, Files
    <2> QED BY <1>1, <2>1, SameStored DEF memory, IInv, FlagOK
  <1>4. CASE \E s \in 1 .. MaxSectors : WriteBackSector(s)
    <2>1. disk'.hdr = disk.hdr
      BY <1>4 DEF WriteBackSector
    <2> QED BY <1>1, <2>1, SameStored DEF memory, StoredInv
  <1> QED BY <1>3, <1>4

LEMMA CrashStored ==
    ASSUME IInv, LayoutInv, StoredInv, Crash PROVE StoredInv'
  <1>1. /\ pc # "none" /\ pc' = "none" /\ cached' = disk
        /\ aliased' = aliased /\ failures' = failures
    BY DEF Crash, history
  <1> SUFFICES ASSUME ~ aliased, failures = 0, ~ disk.hdr.dirty
               PROVE  HeaderGood(disk) /\ disk.len <= MaxSectors
    BY <1>1 DEF StoredInv
  <1>2. SameButFlag /\ ~ indexChanged
    BY <1>1 DEF IInv, DiskOK
  <1>3. HeaderGood(cached) /\ tab.size <= MaxSectors + 1
    BY <1>1, <1>2 DEF StoredInv
  <1>4. HeaderGood(disk)
    BY <1>2, <1>3, HeaderGoodSame DEF SameButFlag
  <1>5. pc # "place"
    BY <1>1 DEF IInv, FlagOK
  <1>6. cached.len = tab.size - 1
    BY <1>1, <1>5 DEF LayoutInv, LengthOK, IndexOwed
  <1>7. tab.size \in Nat /\ MaxSectors \in Nat /\ disk.len = cached.len
    BY <1>2, CacheFileAssumption DEF IInv, TypeOK, Tables, SameButFlag
  <1> QED BY <1>3, <1>4, <1>6, <1>7

LEMMA StutterStored == ASSUME StoredInv, UNCHANGED vars PROVE StoredInv'
  <1>1. KeysStored(cached, tab, AllKeys \ Unwritten)' = KeysStored(cached, tab, AllKeys \ Unwritten)
    BY DEF vars, KeysStored, Unwritten, Stored
  <1>2. IndexRecord' = IndexRecord
    BY DEF vars, IndexRecord
  <1>3. UNCHANGED <<pc, tab, indexChanged, dirty, cached, disk, aliased, failures>>
    BY DEF vars
  <1>4. ASSUME NEW b, NEW n, FileGood(cached, b, n) PROVE FileGood(cached', b, n)
    BY <1>3, <1>4, FileGoodSame
  <1>5. HeaderGood(cached) => HeaderGood(cached')
    BY <1>3, HeaderGoodSame
  <1> QED BY <1>1, <1>2, <1>3, <1>4, <1>5 DEF StoredInv

LEMMA NextStored ==
    IInv /\ IInv' /\ LayoutInv /\ LayoutInv' /\ StoredInv /\ [Next]_vars => StoredInv'
  <1> SUFFICES ASSUME IInv, IInv', LayoutInv, LayoutInv', StoredInv, [Next]_vars
               PROVE  StoredInv'
    OBVIOUS
  <1>1. CASE Create \/ Open
    BY <1>1, CreateStored, OpenStored
  <1>2. CASE \/ \E k \in Keys, d \in Data : BeginWrite(k, d)
             \/ LeaveDirty \/ Marked \/ FlushUnchanged \/ ClearFlag \/ Cleared
    BY <1>2, FlagStored
  <1>3. CASE Place \/ PlaceFails
    BY <1>3, PlaceStored, PlaceFailsStored
  <1>4. CASE BeginFlush \/ UpdateHeader
    BY <1>4, BeginFlushStored, UpdateHeaderStored
  <1>5. CASE WriteBackHeader \/ \E s \in 1 .. MaxSectors : WriteBackSector(s)
    BY <1>5, WriteBackStored
  <1>6. CASE Crash \/ UNCHANGED vars
    BY <1>6, CrashStored, StutterStored
  <1> QED BY <1>1, <1>2, <1>3, <1>4, <1>5, <1>6 DEF Next

LEMMA StoredAlways == Spec => [](LayoutInv /\ StoredInv)
  <1>1. []IInv /\ Init /\ [][Next]_vars => []LayoutInv
    BY InitLayout, NextLayout, PTL
  <1>2. []IInv /\ []LayoutInv /\ Init /\ [][Next]_vars => []StoredInv
    BY InitStored, NextStored, PTL
  <1> QED BY <1>1, <1>2, Invariance, PTL DEF Spec

LEMMA StoredReadable == StoredInv => StoredBlocksReadable
  <1> SUFFICES ASSUME StoredInv, pc = "idle", ~ aliased, failures = 0,
                      NEW k \in Keys, tab.map[k] # 0
               PROVE  Stored(cached, tab.index[tab.map[k]])
    BY DEF StoredBlocksReadable, Idle
  <1>1. KeysStored(cached, tab, AllKeys)
    BY DEF StoredInv, Unwritten
  <1> QED BY <1>1 DEF KeysStored, AllKeys

\* Whatever is written, in whatever order and sizes: as long as no write has
\* failed and no index calls its own block free, every block that the table
\* names has the contents of its hash.
THEOREM StoredIsReadable == Spec => []StoredBlocksReadable
  <1> QED BY StoredAlways, StoredReadable, PTL

\* A stored record passes CacheFileItem::validate.
LEMMA StoredValid ==
    ASSUME NEW f \in Files, NEW it \in Items, Sectors(it.dsize) <= it.bsize,
           it.pos >= 1, it.pos + it.bsize <= f.len + 1
    PROVE  ItemValid(f, it)
  <1>1. /\ it.pos \in Nat /\ it.bsize \in Nat /\ it.dsize \in Nat /\ f.len \in Nat
        /\ Sectors(it.dsize) \in Nat
    BY SectorsNat DEF Items, Files
  <1>2. it.dsize <= it.bsize * Sector
    <2>1. it.dsize <= Sectors(it.dsize) * Sector
      BY <1>1, SectorsBounds
    <2>2. Sectors(it.dsize) * Sector <= it.bsize * Sector
      BY <1>1, SectorsMonotone
    <2>3. /\ Sectors(it.dsize) * Sector \in Nat /\ it.bsize * Sector \in Nat
      BY <1>1, CacheFileAssumption
    <2> QED BY <1>1, <2>1, <2>2, <2>3
  <1> QED BY <1>1, <1>2 DEF ItemValid

LEMMA GoodOpens ==
    ASSUME NEW f \in Files, HeaderOK(f.hdr), ~ f.hdr.dirty, HeaderGood(f),
           Inside(RecordsOf(f.hdr.idx), f.len + 1)
    PROVE  Accept(f)
  <1> DEFINE b == f.hdr.idx
             n == f.hdr.fsize
  <1>1. /\ b \in Items /\ n \in Nat /\ f.len \in Nat /\ b.pos \in Nat /\ b.bsize \in Nat
        /\ b.dsize \in Nat /\ Sectors(b.dsize) \in Nat
    <2>1. b \in Items /\ n \in Nat /\ f.len \in Nat
      BY DEF Files
    <2> HIDE DEF b, n
    <2>2. b.pos \in Nat /\ b.bsize \in Nat /\ b.dsize \in Nat
      BY <2>1 DEF Items
    <2> QED BY <2>1, <2>2, SectorsNat
  <1>2. n <= f.len + 1
    BY DEF HeaderGood, FileGood
  <1>3. n <= f.len + 1 + SizeTolerance
    <2> HIDE DEF n
    <2> QED BY <1>1, <1>2 DEF SizeTolerance
  <1>4. CASE b.pos = 0
    BY <1>3, <1>4 DEF Accept
  <1>5. CASE b.pos # 0
    <2>1. /\ b.pos + b.bsize <= n /\ Stored(f, b) /\ Roomy(RecordsOf(b))
          /\ \E i \in DOMAIN RecordsOf(b) : RecordsOf(b)[i].key = Index
          /\ \A i \in DOMAIN RecordsOf(b) :
                RecordsOf(b)[i].key \in Keys => Stored(f, RecordsOf(b)[i])
      BY <1>5 DEF HeaderGood, FileGood
    <2>2. Records(f) = RecordsOf(b)
      BY DEF Records, RecordsOf
    <2>3. \A i \in DOMAIN RecordsOf(b) : RecordsOf(b)[i] \in Items
      BY <1>1, RecordsOfType
    <2>4. ASSUME NEW i \in DOMAIN RecordsOf(b) PROVE ItemValid(f, RecordsOf(b)[i])
      BY <2>1, <2>3, <2>4, StoredValid DEF Inside, Roomy
    <2>5. PICK m \in DOMAIN RecordsOf(b) : RecordsOf(b)[m].key = Index
      BY <2>1
    <2>6. RecordsOf(b)[m] = b /\ m \in DOMAIN b.hash
      BY <1>5, <2>5 DEF RecordsOf
    <2>7. Sectors(b.dsize) <= b.bsize
      BY <2>1, <2>5, <2>6 DEF Roomy
    <2>8. b.dsize = Len(b.hash) /\ b.hash \in Snapshots
      BY <1>5, <2>1 DEF Stored, HeaderOK, ContentSize
    <2> HIDE DEF b, n
    <2>9. b.dsize >= 1
      BY <2>6, <2>8 DEF Snapshots
    <2>10. b.bsize >= 1
      BY <1>1, <2>7, <2>9, SectorsOfSome
    <2>11. /\ b.pos < n /\ b.pos + b.bsize <= n + SizeTolerance
           /\ b.pos + Sectors(b.dsize) - 1 <= f.len
      BY <1>1, <1>2, <2>1, <2>7, <2>10 DEF SizeTolerance
    <2> QED BY <1>3, <2>1, <2>2, <2>4, <2>11 DEF Accept, b, n
  <1> QED BY <1>4, <1>5

LEMMA FlushedIsGood == IInv /\ LayoutInv /\ StoredInv => FlushedFileOpens
  <1> SUFFICES ASSUME IInv, LayoutInv, StoredInv, pc = "idle", ~ dirty, ~ aliased,
                      failures = 0
               PROVE  Accept(disk)
    BY DEF FlushedFileOpens, Idle
  <1>1. ~ disk.hdr.dirty
    BY DEF StoredInv
  <1>2. SameButFlag /\ ~ indexChanged /\ HeaderOK(disk.hdr) /\ disk \in Files
    BY <1>1 DEF IInv, DiskOK, TypeOK
  <1>3. HeaderGood(disk)
    <2>1. HeaderGood(cached)
      BY <1>2 DEF StoredInv
    <2> QED BY <1>2, <2>1, HeaderGoodSame DEF SameButFlag
  <1>4. Inside(RecordsOf(disk.hdr.idx), disk.len + 1)
    BY <1>2 DEF LayoutInv, HeaderApart, SameButFlag
  <1> QED BY <1>1, <1>2, <1>3, <1>4, GoodOpens

\* A completed flush leaves a file that the next session opens, with all of
\* the validation or without it.
THEOREM FlushedOpens == Spec => []FlushedFileOpens
  <1> QED BY StoredAlways, FlushedIsGood, Invariance, PTL

-----------------------------------------------------------------------------
(* The stream that CacheFile writes through: bytes. *)

LEMMA LargerOf ==
    ASSUME NEW a \in Int, NEW b \in Int
    PROVE  Max({a, b}) = IF a >= b THEN a ELSE b
  <1>1. CASE a >= b
    <2>1. \A x \in {a, b} : (\A y \in {a, b} : x >= y) => x = a
      BY <1>1
    <2>2. \A y \in {a, b} : a >= y
      BY <1>1
    <2> QED  BY <1>1, <2>1, <2>2 DEF Max
  <1>2. CASE ~(a >= b)
    <2>1. \A x \in {a, b} : (\A y \in {a, b} : x >= y) => x = b
      BY <1>2
    <2>2. \A y \in {a, b} : b >= y
      BY <1>2
    <2> QED  BY <1>2, <2>1, <2>2 DEF Max
  <1> QED  BY <1>1, <1>2

LEMMA SmallerOf ==
    ASSUME NEW a \in Int, NEW b \in Int
    PROVE  Min({a, b}) = IF a <= b THEN a ELSE b
  <1>1. CASE a <= b
    <2>1. \A x \in {a, b} : (\A y \in {a, b} : x <= y) => x = a
      BY <1>1
    <2>2. \A y \in {a, b} : a <= y
      BY <1>1
    <2> QED  BY <1>1, <2>1, <2>2 DEF Min
  <1>2. CASE ~(a <= b)
    <2>1. \A x \in {a, b} : (\A y \in {a, b} : x <= y) => x = b
      BY <1>2
    <2>2. \A y \in {a, b} : b <= y
      BY <1>2
    <2> QED  BY <1>2, <2>1, <2>2 DEF Min
  <1> QED  BY <1>1, <1>2

\* Files and buffers with n bytes, and of any length.
OfLength(n) == [0 .. n - 1 -> Bytes]
Strings == UNION {OfLength(n) : n \in Nat}

\* A byte, or zero behind the end.
At(f, i) == IF i \in DOMAIN f THEN f[i] ELSE 0

LEMMA LengthIs ==
    ASSUME NEW n \in Nat, NEW f, DOMAIN f = 0 .. n - 1
    PROVE  Length(f) = n
  BY FS_Interval DEF Length

LEMMA StringIs ==
    ASSUME NEW f \in Strings
    PROVE  /\ Length(f) \in Nat /\ DOMAIN f = 0 .. Length(f) - 1
           /\ f \in OfLength(Length(f))
           /\ \A i \in 0 .. Length(f) - 1 : f[i] \in Bytes
  <1>1. PICK n \in Nat : f \in OfLength(n)
    BY DEF Strings
  <1>2. DOMAIN f = 0 .. n - 1
    BY <1>1 DEF OfLength
  <1>3. Length(f) = n
    BY <1>2, LengthIs
  <1> QED  BY <1>1, <1>2, <1>3 DEF OfLength

LEMMA IsString ==
    ASSUME NEW n \in Nat, NEW f \in OfLength(n)
    PROVE  f \in Strings /\ Length(f) = n
  BY LengthIs DEF Strings, OfLength

LEMMA AtIs ==
    ASSUME NEW f \in Strings, NEW i \in Nat
    PROVE  /\ At(f, i) \in Bytes
           /\ i < Length(f) => At(f, i) = f[i]
           /\ i >= Length(f) => At(f, i) = 0
  BY StringIs, BlockWriteStreamAssumption DEF At

LEMMA PutIs ==
    ASSUME NEW f \in Strings, NEW s \in Strings, NEW p \in Nat
    PROVE  /\ Put(f, p, s) \in Strings
           /\ Length(Put(f, p, s)) = IF Length(f) >= p + Length(s) THEN Length(f) ELSE p + Length(s)
           /\ \A i \in Nat : At(Put(f, p, s), i) =
                  IF p <= i /\ i < p + Length(s) THEN s[i - p] ELSE At(f, i)
  <1> DEFINE n == IF Length(f) >= p + Length(s) THEN Length(f) ELSE p + Length(s)
             g == Put(f, p, s)
  <1>1. /\ Length(f) \in Nat /\ DOMAIN f = 0 .. Length(f) - 1
        /\ \A i \in 0 .. Length(f) - 1 : f[i] \in Bytes
        /\ Length(s) \in Nat /\ DOMAIN s = 0 .. Length(s) - 1
        /\ \A i \in 0 .. Length(s) - 1 : s[i] \in Bytes
    BY StringIs
  <1>2. n \in Nat /\ Max({Length(f), p + Length(s)}) = n
    BY <1>1, LargerOf
  <1>3. g = [i \in 0 .. n - 1 |-> IF i - p \in DOMAIN s THEN s[i - p]
                                  ELSE IF i \in DOMAIN f THEN f[i] ELSE 0]
    BY <1>2, Zenon DEF Put
  <1> HIDE DEF g
  <1>4. ASSUME NEW i \in 0 .. n - 1
        PROVE  g[i] \in Bytes
    BY <1>1, <1>2, <1>3, <1>4, BlockWriteStreamAssumption
  <1>5. g \in OfLength(n)
    <2> HIDE DEF n
    <2> QED  BY <1>3, <1>4 DEF OfLength
  <1>6. g \in Strings /\ Length(g) = n
    BY <1>2, <1>5, IsString
  <1>7. ASSUME NEW i \in Nat
        PROVE  At(g, i) = IF p <= i /\ i < p + Length(s) THEN s[i - p] ELSE At(f, i)
    <2>1. DOMAIN g = 0 .. n - 1
      BY <1>3
    <2>2. i - p \in DOMAIN s <=> p <= i /\ i < p + Length(s)
      BY <1>1
    <2>3. CASE i < n
      <3>1. At(g, i) = g[i]
        BY <1>2, <2>1, <2>3 DEF At
      <3> QED  BY <1>2, <1>3, <2>2, <2>3, <3>1 DEF At
    <2>4. CASE ~(i < n)
      <3>1. At(g, i) = 0
        BY <1>2, <2>1, <2>4 DEF At
      <3>2. i \notin DOMAIN f /\ ~(i < p + Length(s))
        BY <1>1, <2>4
      <3> QED  BY <3>1, <3>2 DEF At
    <2> QED  BY <2>3, <2>4
  <1> QED  BY <1>6, <1>7 DEF g

LEMMA SliceIs ==
    ASSUME NEW f \in Strings, NEW p \in Nat, NEW n \in Int
    PROVE  /\ Slice(f, p, n) \in Strings
           /\ Length(Slice(f, p, n)) =
                  IF n <= 0 \/ Length(f) <= p THEN 0
                  ELSE IF p + n <= Length(f) THEN n ELSE Length(f) - p
           /\ \A i \in 0 .. Length(Slice(f, p, n)) - 1 : Slice(f, p, n)[i] = At(f, p + i)
  <1> DEFINE m == IF n <= 0 \/ Length(f) <= p THEN 0
                  ELSE IF p + n <= Length(f) THEN n ELSE Length(f) - p
             g == Slice(f, p, n)
  <1>1. /\ Length(f) \in Nat /\ DOMAIN f = 0 .. Length(f) - 1
        /\ \A i \in 0 .. Length(f) - 1 : f[i] \in Bytes
    BY StringIs
  <1>2. Min({n, Length(f) - p}) = IF n <= Length(f) - p THEN n ELSE Length(f) - p
    BY <1>1, SmallerOf
  <1>3. m \in Nat /\ Max({0, Min({n, Length(f) - p})}) = m
    <2> DEFINE k == Min({n, Length(f) - p})
    <2>1. k \in Int /\ k = IF n <= Length(f) - p THEN n ELSE Length(f) - p
      BY <1>1, <1>2
    <2> HIDE DEF k
    <2>2. Max({0, k}) = IF 0 >= k THEN 0 ELSE k
      BY <2>1, LargerOf
    <2>3. m \in Nat /\ Max({0, k}) = m
      BY <1>1, <2>1, <2>2
    <2> QED  BY <2>3 DEF k
  <1>4. g = [i \in 0 .. m - 1 |-> f[p + i]]
    BY <1>3, Zenon DEF Slice
  <1>5. \A i \in 0 .. m - 1 : p + i \in 0 .. Length(f) - 1
    <2>1. m = 0 \/ m <= Length(f) - p
      BY <1>1
    <2> HIDE DEF m
    <2> QED  BY <1>1, <1>3, <2>1
  <1> HIDE DEF g
  <1> HIDE DEF m
  <1>6. g \in OfLength(m)
    BY <1>1, <1>4, <1>5 DEF OfLength
  <1>7. g \in Strings /\ Length(g) = m
    BY <1>3, <1>6, IsString
  <1>8. \A i \in 0 .. m - 1 : g[i] = At(f, p + i)
    BY <1>1, <1>4, <1>5 DEF At
  <1> QED  BY <1>7, <1>8 DEF g, m

LEMMA NoBytes == Zeros(0) \in Strings /\ Length(Zeros(0)) = 0
  <1>1. Zeros(0) \in OfLength(0)
    BY DEF Zeros, OfLength
  <1> QED  BY <1>1, IsString

\* What has the same bytes is the same.
LEMMA SameString ==
    ASSUME NEW f \in Strings, NEW g \in Strings, Length(f) = Length(g),
           \A i \in 0 .. Length(f) - 1 : At(f, i) = At(g, i)
    PROVE  f = g
  <1>1. /\ f \in [0 .. Length(f) - 1 -> Bytes] /\ DOMAIN f = 0 .. Length(f) - 1
        /\ g \in [0 .. Length(f) - 1 -> Bytes] /\ DOMAIN g = 0 .. Length(f) - 1
    BY StringIs DEF OfLength
  <1>2. \A i \in 0 .. Length(f) - 1 : f[i] = g[i]
    BY <1>1 DEF At
  <1> DEFINE D == 0 .. Length(f) - 1
  <1>3. f \in [D -> Bytes] /\ g \in [D -> Bytes] /\ \A i \in D : f[i] = g[i]
    BY <1>1, <1>2
  <1> HIDE DEF D
  <1> QED  BY <1>3
-----------------------------------------------------------------------------
(* Blocks. *)

\* Where the block of a position starts.
Base(i) == (i \div BlockSize) * BlockSize

BlockSet ==
    {b \in [start : Nat, end : Nat, mstart : Int, mend : Int, buf : OfLength(BlockSize)] :
        /\ b.start % BlockSize = 0
        /\ b.start <= b.end /\ b.end <= b.start + BlockSize
        /\ \/ b.mstart = Unmodified /\ b.mend = Unmodified
           \/ b.start <= b.mstart /\ b.mstart < b.mend /\ b.mend <= b.start + BlockSize}

\* The blocks of a list have different places in the file.
Apart(s) == \A j, k \in DOMAIN s : j # k => s[j].start # s[k].start

LEMMA BaseIs ==
    ASSUME NEW i \in Nat
    PROVE  /\ Base(i) \in Nat /\ Base(i) % BlockSize = 0
           /\ Base(i) <= i /\ i < Base(i) + BlockSize
  <1> DEFINE k == i \div BlockSize
  <1>1. k \in Nat /\ k * BlockSize <= i /\ i < k * BlockSize + BlockSize
    BY BlockWriteStreamAssumption
  <1>2. k * BlockSize \in Nat /\ (k * BlockSize) % BlockSize = 0
    <2> HIDE DEF k
    <2> QED  BY <1>1, BlockWriteStreamAssumption
  <1> QED  BY <1>1, <1>2 DEF Base

LEMMA BaseOf ==
    ASSUME NEW a \in Nat, a % BlockSize = 0, NEW i \in Nat
    PROVE  a = Base(i) <=> a <= i /\ i < a + BlockSize
  <1> DEFINE k == i \div BlockSize
             m == a \div BlockSize
  <1>1. k \in Nat /\ k * BlockSize <= i /\ i < k * BlockSize + BlockSize
    BY BlockWriteStreamAssumption
  <1>2. m \in Nat /\ a = m * BlockSize
    BY BlockWriteStreamAssumption
  <1>3. ASSUME a <= i, i < a + BlockSize  PROVE m = k
    <2> HIDE DEF k, m
    <2>1. ASSUME m < k  PROVE FALSE
      <3>1. (m + 1) * BlockSize <= k * BlockSize /\ (m + 1) * BlockSize = m * BlockSize + BlockSize
        BY <1>1, <1>2, <2>1, BlockWriteStreamAssumption
      <3> QED  BY <1>1, <1>2, <1>3, <3>1, BlockWriteStreamAssumption
    <2>2. ASSUME k < m  PROVE FALSE
      <3>1. (k + 1) * BlockSize <= m * BlockSize /\ (k + 1) * BlockSize = k * BlockSize + BlockSize
        BY <1>1, <1>2, <2>2, BlockWriteStreamAssumption
      <3> QED  BY <1>1, <1>2, <1>3, <3>1, BlockWriteStreamAssumption
    <2> QED  BY <1>1, <1>2, <2>1, <2>2
  <1>4. Base(i) = k * BlockSize
    BY DEF Base
  <1> HIDE DEF k, m
  <1>5. a <= i /\ i < a + BlockSize => a = Base(i)
    BY <1>2, <1>3, <1>4
  <1> QED  BY <1>1, <1>4, <1>5

LEMMA BlockIs ==
    ASSUME NEW b \in BlockSet
    PROVE  /\ b.start \in Nat /\ b.start % BlockSize = 0
           /\ b.end \in Nat /\ b.start <= b.end /\ b.end <= b.start + BlockSize
           /\ b.mstart \in Int /\ b.mend \in Int
           /\ \/ b.mstart = Unmodified /\ b.mend = Unmodified
              \/ b.start <= b.mstart /\ b.mstart < b.mend /\ b.mend <= b.start + BlockSize
           /\ b.buf \in [0 .. BlockSize - 1 -> Bytes] /\ b.buf \in Strings /\ Length(b.buf) = BlockSize
           /\ \A i \in Nat : Covers(b, i) <=> b.start = Base(i)
  <1>1. /\ b.start \in Nat /\ b.start % BlockSize = 0
        /\ b.end \in Nat /\ b.start <= b.end /\ b.end <= b.start + BlockSize
        /\ b.mstart \in Int /\ b.mend \in Int
        /\ \/ b.mstart = Unmodified /\ b.mend = Unmodified
           \/ b.start <= b.mstart /\ b.mstart < b.mend /\ b.mend <= b.start + BlockSize
        /\ b.buf \in OfLength(BlockSize)
    BY DEF BlockSet
  <1>2. b.buf \in [0 .. BlockSize - 1 -> Bytes] /\ b.buf \in Strings /\ Length(b.buf) = BlockSize
    BY <1>1, IsString, BlockWriteStreamAssumption DEF OfLength
  <1>3. \A i \in Nat : Covers(b, i) <=> b.start = Base(i)
    BY <1>1, BaseOf DEF Covers
  <1> QED  BY <1>1, <1>2, <1>3

LEMMA IsBlock ==
    ASSUME NEW a \in Nat, a % BlockSize = 0, NEW e \in Nat, a <= e, e <= a + BlockSize,
           NEW m \in Int, NEW n \in Int, NEW f \in [0 .. BlockSize - 1 -> Bytes],
           \/ m = Unmodified /\ n = Unmodified
           \/ a <= m /\ m < n /\ n <= a + BlockSize
    PROVE  [start |-> a, end |-> e, mstart |-> m, mend |-> n, buf |-> f] \in BlockSet
  BY DEF BlockSet, OfLength

\* Taking one block out of a list, and putting one in front of it.
LEMMA OneLess ==
    ASSUME NEW s \in Seq(BlockSet), Apart(s), NEW k \in DOMAIN s
    PROVE  /\ RemoveAt(s, k) \in Seq(BlockSet) /\ Len(RemoveAt(s, k)) = Len(s) - 1
           /\ Apart(RemoveAt(s, k))
           /\ s[k] \in Range(s) /\ s[k] \in BlockSet
           /\ \A b \in Range(RemoveAt(s, k)) : b \in Range(s) /\ b.start # s[k].start
           /\ \A b \in Range(s) : b = s[k] \/ b \in Range(RemoveAt(s, k))
  <1> DEFINE t == RemoveAt(s, k)
  <1>1. k \in 1 .. Len(s) /\ Len(s) \in Nat /\ DOMAIN s = 1 .. Len(s)
    OBVIOUS
  <1>2. /\ t \in Seq(BlockSet) /\ Len(t) = Len(s) - 1
        /\ \A j \in 1 .. Len(s) - 1 : t[j] = IF j < k THEN s[j] ELSE s[j + 1]
        /\ Range(t) = {s[j] : j \in (1 .. Len(s)) \ {k}}
    BY <1>1, RemoveAtKeeps
  <1>3. Range(s) = {s[j] : j \in 1 .. Len(s)}
    BY <1>1 DEF Range
  <1> HIDE DEF t
  <1>4. DOMAIN t = 1 .. Len(s) - 1
    BY <1>2
  <1>5. Apart(t)
    <2> SUFFICES ASSUME NEW i \in DOMAIN t, NEW j \in DOMAIN t, i # j
                 PROVE  t[i].start # t[j].start
      BY DEF Apart
    <2> DEFINE x == IF i < k THEN i ELSE i + 1
               y == IF j < k THEN j ELSE j + 1
    <2>1. x \in DOMAIN s /\ y \in DOMAIN s /\ x # y
      BY <1>1, <1>4
    <2>2. t[i] = s[x] /\ t[j] = s[y]
      BY <1>2, <1>4
    <2> QED  BY <2>1, <2>2 DEF Apart
  <1>6. \A b \in Range(t) : b \in Range(s) /\ b.start # s[k].start
    BY <1>1, <1>2, <1>3 DEF Apart
  <1>7. \A b \in Range(s) : b = s[k] \/ b \in Range(t)
    BY <1>2, <1>3
  <1>8. s[k] \in Range(s) /\ s[k] \in BlockSet
    BY <1>1, <1>3
  <1> QED  BY <1>2, <1>5, <1>6, <1>7, <1>8 DEF t

LEMMA OneMore ==
    ASSUME NEW x \in BlockSet, NEW t \in Seq(BlockSet), Apart(t),
           \A b \in Range(t) : b.start # x.start
    PROVE  /\ <<x>> \o t \in Seq(BlockSet) /\ Len(<<x>> \o t) = Len(t) + 1
           /\ Apart(<<x>> \o t) /\ Range(<<x>> \o t) = {x} \cup Range(t)
           /\ (<<x>> \o t)[1] = x
           /\ \A y \in BlockSet : [<<x>> \o t EXCEPT ![1] = y] = <<y>> \o t
  <1> DEFINE u == <<x>> \o t
  <1>0. ASSUME NEW y \in BlockSet
        PROVE  /\ <<y>> \o t \in Seq(BlockSet) /\ Len(<<y>> \o t) = Len(t) + 1
               /\ DOMAIN (<<y>> \o t) = 1 .. Len(t) + 1
               /\ (<<y>> \o t)[1] = y /\ \A j \in 1 .. Len(t) : (<<y>> \o t)[j + 1] = t[j]
    <2>1. <<y>> \in Seq(BlockSet) /\ Len(<<y>>) = 1 /\ <<y>>[1] = y /\ Len(t) \in Nat
      OBVIOUS
    <2> DEFINE z == <<y>>
    <2>2. /\ z \o t \in Seq(BlockSet) /\ Len(z \o t) = Len(z) + Len(t)
          /\ \A i \in 1 .. Len(z) + Len(t) : (z \o t)[i] = IF i <= Len(z) THEN z[i] ELSE t[i - Len(z)]
      BY <2>1, ConcatProperties
    <2> HIDE DEF z
    <2>3. /\ Len(z \o t) = Len(t) + 1 /\ DOMAIN (z \o t) = 1 .. Len(t) + 1
          /\ (z \o t)[1] = y /\ \A j \in 1 .. Len(t) : (z \o t)[j + 1] = t[j]
      BY <2>1, <2>2 DEF z
    <2> QED  BY <2>2, <2>3 DEF z
  <1>1. /\ u \in Seq(BlockSet) /\ Len(u) = Len(t) + 1 /\ Len(t) \in Nat
        /\ DOMAIN u = 1 .. Len(t) + 1 /\ DOMAIN t = 1 .. Len(t)
        /\ u[1] = x /\ \A j \in 1 .. Len(t) : u[j + 1] = t[j]
    BY <1>0
  <1>2. Range(u) = {x} \cup Range(t)
    <2> DEFINE z == <<x>>
    <2>1. z \in Seq(BlockSet) /\ Range(z) = {x}
      BY OneInFront
    <2> HIDE DEF z
    <2>2. Range(z \o t) = Range(z) \cup Range(t)
      BY <2>1, RangeOfConcat
    <2> QED  BY <2>1, <2>2 DEF z
  <1>3. ASSUME NEW y \in BlockSet  PROVE [u EXCEPT ![1] = y] = <<y>> \o t
    <2> DEFINE v == <<y>> \o t
               D == 1 .. Len(t) + 1
    <2>1. /\ v \in Seq(BlockSet) /\ DOMAIN v = D /\ v[1] = y
          /\ \A j \in 1 .. Len(t) : v[j + 1] = t[j]
      BY <1>0
    <2> HIDE DEF u, v
    <2>2. ASSUME NEW j \in D, j # 1  PROVE u[j] = v[j]
      <3>1. j - 1 \in 1 .. Len(t) /\ (j - 1) + 1 = j
        BY <1>1, <2>2
      <3>2. u[(j - 1) + 1] = t[j - 1] /\ v[(j - 1) + 1] = t[j - 1]
        BY <1>1, <2>1, <3>1
      <3> QED  BY <3>1, <3>2
    <2>3. DOMAIN u = D /\ 1 \in D
      BY <1>1
    <2> HIDE DEF D
    <2>4. v = [j \in D |-> v[j]] /\ u = [j \in D |-> u[j]]
      BY <1>1, <2>1, <2>3
    <2>5. [u EXCEPT ![1] = y] = v
      BY <2>1, <2>2, <2>3, <2>4
    <2> QED  BY <2>5 DEF v
  <1> HIDE DEF u
  <1>4. \A j \in 2 .. Len(t) + 1 : j - 1 \in DOMAIN t /\ u[j] = t[j - 1] /\ t[j - 1] \in Range(t)
    BY <1>1 DEF Range
  <1>5. Apart(u)
    <2> SUFFICES ASSUME NEW i \in DOMAIN u, NEW j \in DOMAIN u, i # j
                 PROVE  u[i].start # u[j].start
      BY DEF Apart
    <2>1. CASE i = 1
      BY <1>1, <1>4, <2>1
    <2>2. CASE j = 1
      BY <1>1, <1>4, <2>2
    <2>3. CASE i # 1 /\ j # 1
      <3>1. i - 1 \in DOMAIN t /\ j - 1 \in DOMAIN t /\ i - 1 # j - 1
        BY <1>1, <2>3
      <3>2. u[i] = t[i - 1] /\ u[j] = t[j - 1]
        BY <1>1, <1>4, <2>3
      <3> QED  BY <3>1, <3>2 DEF Apart
    <2> QED  BY <2>1, <2>2, <2>3
  <1> QED  BY <1>1, <1>2, <1>3, <1>5 DEF u
-----------------------------------------------------------------------------
(* The blocks and the file together. *)

CacheSet == [data : Strings, fsize : Nat, fpos : Nat, size : Nat, blocks : Seq(BlockSet), count : Nat]

\* The byte that has to be written, and the byte that the stream has.
Modified(b, i) == b.mstart <= i /\ i < b.mend
ByteAt(c, i) ==
    IF Hits(c, i) # {} THEN LET b == c.blocks[Min(Hits(c, i))] IN b.buf[i - b.start]
    ELSE At(c.data, i)

\* What a block does not have to write is as in the file.
AsInFile(c, b) ==
    /\ b.mend <= c.size
    /\ \A i \in Nat : Base(i) = b.start /\ ~ Modified(b, i) => b.buf[i - b.start] = At(c.data, i)

Sound(c) ==
    /\ c \in CacheSet
    /\ Length(c.data) <= c.fsize /\ c.fsize <= c.size /\ c.size % SectorSize = 0
    /\ Apart(c.blocks)
    /\ \A b \in Range(c.blocks) : AsInFile(c, b)

LEMMA CacheIs ==
    ASSUME NEW c \in CacheSet
    PROVE  /\ c.data \in Strings /\ Length(c.data) \in Nat /\ c.fsize \in Nat /\ c.fpos \in Nat
           /\ c.size \in Nat /\ c.blocks \in Seq(BlockSet) /\ c.count \in Nat
           /\ DOMAIN c.blocks = 1 .. Len(c.blocks) /\ Len(c.blocks) \in Nat
           /\ \A b \in Range(c.blocks) : b \in BlockSet
  <1>1. /\ c.data \in Strings /\ c.fsize \in Nat /\ c.fpos \in Nat
        /\ c.size \in Nat /\ c.blocks \in Seq(BlockSet) /\ c.count \in Nat
    BY DEF CacheSet
  <1> QED  BY <1>1, StringIs, RangeIs

LEMMA ByteAtIs ==
    ASSUME NEW c \in CacheSet, Apart(c.blocks), NEW i \in Nat
    PROVE  /\ \A b \in Range(c.blocks) : b.start = Base(i) => ByteAt(c, i) = b.buf[i - b.start]
           /\ (\A b \in Range(c.blocks) : b.start # Base(i)) => ByteAt(c, i) = At(c.data, i)
           /\ Hits(c, i) = {} <=> \A b \in Range(c.blocks) : b.start # Base(i)
  <1>1. /\ c.blocks \in Seq(BlockSet) /\ DOMAIN c.blocks = 1 .. Len(c.blocks) /\ Len(c.blocks) \in Nat
        /\ Range(c.blocks) = {c.blocks[k] : k \in 1 .. Len(c.blocks)}
    BY CacheIs DEF Range
  <1>2. Hits(c, i) = {k \in 1 .. Len(c.blocks) : c.blocks[k].start = Base(i)}
    <2>1. \A k \in 1 .. Len(c.blocks) : Covers(c.blocks[k], i) <=> c.blocks[k].start = Base(i)
      BY <1>1, BlockIs
    <2> QED  BY <1>1, <2>1 DEF Hits
  <1>3. ASSUME NEW b \in Range(c.blocks), b.start = Base(i)
        PROVE  ByteAt(c, i) = b.buf[i - b.start]
    <2>1. PICK k \in 1 .. Len(c.blocks) : c.blocks[k] = b
      BY <1>1
    <2>2. Hits(c, i) = {k, k} /\ Hits(c, i) # {}
      BY <1>1, <1>2, <1>3, <2>1 DEF Apart
    <2>3. Min(Hits(c, i)) = k
      BY <2>2, SmallerOf
    <2> QED  BY <2>1, <2>2, <2>3 DEF ByteAt
  <1>4. Hits(c, i) = {} <=> \A b \in Range(c.blocks) : b.start # Base(i)
    BY <1>1, <1>2
  <1>5. (\A b \in Range(c.blocks) : b.start # Base(i)) => ByteAt(c, i) = At(c.data, i)
    BY <1>4 DEF ByteAt
  <1> QED  BY <1>3, <1>4, <1>5

LEMMA WriteBlockIs ==
    ASSUME NEW c, Sound(c), NEW b \in Range(c.blocks)
    PROVE  LET d == WriteBlock(c, b) IN
           /\ d \in CacheSet
           /\ d.blocks = c.blocks /\ d.count = c.count /\ d.size = c.size
           /\ Length(c.data) <= Length(d.data) /\ Length(d.data) <= d.fsize /\ d.fsize <= c.size
           /\ d.fpos <= c.size \/ d.fpos = c.fpos
           /\ \A i \in Nat : At(d.data, i) = IF Modified(b, i) THEN b.buf[i - b.start]
                                             ELSE At(c.data, i)
           /\ b.mend = c.size => Length(d.data) = c.size
  <1> DEFINE d == WriteBlock(c, b)
  <1>1. /\ c \in CacheSet /\ Length(c.data) <= c.fsize /\ c.fsize <= c.size
        /\ b.mend <= c.size
    BY DEF Sound, AsInFile
  <1>2. /\ c.data \in Strings /\ Length(c.data) \in Nat /\ c.fsize \in Nat /\ c.fpos \in Nat
        /\ c.size \in Nat /\ c.blocks \in Seq(BlockSet) /\ c.count \in Nat /\ b \in BlockSet
    BY <1>1, CacheIs
  <1>3. /\ b.start \in Nat /\ b.mstart \in Int /\ b.mend \in Int /\ b.buf \in Strings
        /\ \/ b.mstart = -1 /\ b.mend = -1
           \/ b.start <= b.mstart /\ b.mstart < b.mend /\ b.mend <= b.start + BlockSize
        /\ Length(b.buf) = BlockSize
    BY <1>2, BlockIs DEF Unmodified
  <1>4. CASE b.mstart >= b.mend
    <2>1. d = c
      BY <1>4, Zenon DEF WriteBlock
    <2>2. b.mend # c.size /\ \A i \in Nat : ~ Modified(b, i)
      BY <1>2, <1>3, <1>4 DEF Modified
    <2> QED  BY <1>1, <1>2, <2>1, <2>2
  <1>5. CASE ~(b.mstart >= b.mend)
    <2> DEFINE p == b.mstart
               s == Slice(b.buf, b.mstart - b.start, b.mend - b.mstart)
    <2>1. /\ p \in Nat /\ b.start <= p /\ p < b.mend /\ b.mend <= b.start + BlockSize /\ b.mend \in Nat
          /\ p - b.start \in Nat /\ b.mend - p \in Int
      BY <1>3, <1>5
    <2>2. /\ s \in Strings /\ Length(s) = b.mend - p
          /\ \A i \in 0 .. Length(s) - 1 : s[i] = At(b.buf, (p - b.start) + i)
      <3>1. /\ s \in Strings
            /\ Length(s) = IF b.mend - p <= 0 \/ Length(b.buf) <= p - b.start THEN 0
                           ELSE IF (p - b.start) + (b.mend - p) <= Length(b.buf) THEN b.mend - p
                           ELSE Length(b.buf) - (p - b.start)
            /\ \A i \in 0 .. Length(s) - 1 : s[i] = At(b.buf, (p - b.start) + i)
        <4>1. PICK x, y, f : x = p - b.start /\ y = b.mend - p /\ f = b.buf
          OBVIOUS
        <4>2. x \in Nat /\ y \in Int /\ f \in Strings
          BY <1>3, <2>1, <4>1
        <4>3. /\ Slice(f, x, y) \in Strings
              /\ Length(Slice(f, x, y)) = IF y <= 0 \/ Length(f) <= x THEN 0
                                         ELSE IF x + y <= Length(f) THEN y ELSE Length(f) - x
              /\ \A i \in 0 .. Length(Slice(f, x, y)) - 1 : Slice(f, x, y)[i] = At(f, x + i)
          BY <4>2, SliceIs
        <4> QED  BY <4>1, <4>3, Zenon
      <3>2. /\ ~ (b.mend - p <= 0) /\ ~ (Length(b.buf) <= p - b.start)
            /\ (p - b.start) + (b.mend - p) <= Length(b.buf)
        BY <1>3, <2>1, BlockWriteStreamAssumption
      <3>3. Length(s) = b.mend - p
        BY <3>1, <3>2
      <3> QED  BY <3>1, <3>3
    <2>3. ~(b.mend > c.size) /\ Max({c.size, b.mend}) = c.size
      <3>1. b.mend \in Int /\ c.size \in Int /\ b.mend <= c.size
        BY <1>1, <1>2, <2>1
      <3>2. Max({c.size, b.mend}) = IF c.size >= b.mend THEN c.size ELSE b.mend
        BY <3>1, LargerOf
      <3> QED  BY <3>1, <3>2
    <2> HIDE DEF s
    <2>4. /\ Put(c.data, p, s) \in Strings
          /\ Length(Put(c.data, p, s)) = IF Length(c.data) >= b.mend THEN Length(c.data) ELSE b.mend
          /\ \A i \in Nat : At(Put(c.data, p, s), i) =
                 IF p <= i /\ i < b.mend THEN s[i - p] ELSE At(c.data, i)
      <3>1. p + Length(s) = b.mend
        BY <2>1, <2>2
      <3> DEFINE g == Put(c.data, p, s)
      <3>2. /\ g \in Strings
            /\ Length(g) = IF Length(c.data) >= p + Length(s) THEN Length(c.data) ELSE p + Length(s)
            /\ \A i \in Nat : At(g, i) =
                   IF p <= i /\ i < p + Length(s) THEN s[i - p] ELSE At(c.data, i)
        <4>1. c.data \in Strings /\ s \in Strings /\ p \in Nat
          BY <1>2, <2>1, <2>2
        <4> HIDE DEF p
        <4> QED  BY <4>1, PutIs
      <3> HIDE DEF g
      <3>3. /\ g \in Strings
            /\ Length(g) = IF Length(c.data) >= b.mend THEN Length(c.data) ELSE b.mend
            /\ \A i \in Nat : At(g, i) = IF p <= i /\ i < b.mend THEN s[i - p] ELSE At(c.data, i)
        BY <3>1, <3>2
      <3> QED  BY <3>3 DEF g
    <2> DEFINE fs == IF c.fsize >= b.mend THEN c.fsize ELSE b.mend
    <2>5. /\ p + Length(s) = b.mend /\ Max({c.fsize, b.mend}) = fs /\ fs \in Nat /\ fs <= c.size
          /\ Length(Put(c.data, p, s)) <= fs
      <3>1. Max({c.fsize, b.mend}) = fs
        BY <1>2, <2>1, LargerOf
      <3>2. p + Length(s) = b.mend /\ fs \in Nat /\ fs <= c.size
        BY <1>1, <1>2, <2>1, <2>2
      <3>3. Length(Put(c.data, p, s)) <= fs
        BY <1>1, <1>2, <2>1, <2>4
      <3> QED  BY <3>1, <3>2, <3>3
    <2> DEFINE f == FileWrite(c, p, s)
    <2>6. f = [c EXCEPT !.data = Put(c.data, p, s), !.fpos = b.mend, !.fsize = fs]
      BY <2>5, Zenon DEF FileWrite
    <2>7. d = [f EXCEPT !.size = c.size]
      <3>1. f.size = c.size
        BY <1>1, <2>6 DEF CacheSet
      <3>2. d = [f EXCEPT !.size = Max({f.size, b.mend})]
        BY <1>5, <2>3, Zenon DEF WriteBlock, s
      <3> QED  BY <2>3, <3>1, <3>2
    <2> HIDE DEF f, d, fs, p
    <2>8. /\ d.data = Put(c.data, p, s) /\ d.fpos = b.mend /\ d.fsize = fs /\ d.size = c.size
          /\ d.blocks = c.blocks /\ d.count = c.count /\ d \in CacheSet
      BY <1>1, <1>2, <2>1, <2>4, <2>5, <2>6, <2>7 DEF CacheSet
    <2>9. ASSUME NEW i \in Nat
          PROVE  At(d.data, i) = IF Modified(b, i) THEN b.buf[i - b.start] ELSE At(c.data, i)
      <3>1. Modified(b, i) <=> p <= i /\ i < b.mend
        BY DEF Modified, p
      <3>2. CASE Modified(b, i)
        <4>1. /\ i - p \in 0 .. Length(s) - 1 /\ i - b.start \in Nat /\ i - b.start < Length(b.buf)
              /\ (p - b.start) + (i - p) = i - b.start
          BY <1>3, <2>1, <2>2, <3>1, <3>2, BlockWriteStreamAssumption
        <4>2. s[i - p] = At(b.buf, i - b.start)
          BY <2>2, <4>1
        <4> QED  BY <1>3, <2>4, <2>8, <3>1, <3>2, <4>1, <4>2, AtIs
      <3> QED  BY <2>4, <2>8, <3>1, <3>2
    <2>10. b.mend = c.size => Length(d.data) = c.size
      BY <1>1, <1>2, <2>4, <2>8
    <2>11. Length(c.data) <= Length(d.data) /\ Length(d.data) <= d.fsize /\ d.fsize <= c.size
           /\ d.fpos <= c.size
      BY <1>1, <1>2, <2>1, <2>4, <2>5, <2>8
    <2> QED  BY <2>8, <2>9, <2>10, <2>11 DEF d
  <1> QED  BY <1>4, <1>5
LEMMA ModifiedInBlock ==
    ASSUME NEW b \in BlockSet, NEW i \in Nat, Modified(b, i)
    PROVE  b.start = Base(i)
  <1>1. /\ b.start \in Nat /\ b.start % BlockSize = 0 /\ b.mstart \in Int /\ b.mend \in Int
        /\ \/ b.mstart = -1 /\ b.mend = -1
           \/ b.start <= b.mstart /\ b.mstart < b.mend /\ b.mend <= b.start + BlockSize
    BY BlockIs DEF Unmodified
  <1>2. b.start <= i /\ i < b.start + BlockSize
    BY <1>1, BlockWriteStreamAssumption DEF Modified
  <1> QED  BY <1>1, <1>2, BaseOf

\* A block that is written and gone changes nothing of what the stream has.
LEMMA DroppedIs ==
    ASSUME NEW c, Sound(c), NEW k \in DOMAIN c.blocks
    PROVE  LET d == Dropped(c, k) IN
           /\ Sound(d) /\ d.size = c.size /\ d.count = c.count
           /\ d.blocks = RemoveAt(c.blocks, k) /\ Len(d.blocks) = Len(c.blocks) - 1
           /\ \A i \in Nat : ByteAt(d, i) = ByteAt(c, i)
           /\ d.fpos <= c.size \/ d.fpos = c.fpos
  <1> DEFINE b == c.blocks[k]
             t == RemoveAt(c.blocks, k)
             w == WriteBlock(c, b)
             d == Dropped(c, k)
  <1>1. /\ c \in CacheSet /\ Apart(c.blocks) /\ c.size % SectorSize = 0
        /\ \A x \in Range(c.blocks) : AsInFile(c, x)
    BY DEF Sound
  <1>2. c.size \in Nat /\ c.blocks \in Seq(BlockSet) /\ \A x \in Range(c.blocks) : x \in BlockSet
    BY <1>1, CacheIs
  <1>3. /\ t \in Seq(BlockSet) /\ Len(t) = Len(c.blocks) - 1 /\ Apart(t)
        /\ b \in Range(c.blocks) /\ b \in BlockSet
        /\ \A x \in Range(t) : x \in Range(c.blocks) /\ x.start # b.start
        /\ \A x \in Range(c.blocks) : x = b \/ x \in Range(t)
    BY <1>1, <1>2, OneLess
  <1>4. /\ w \in CacheSet
        /\ w.blocks = c.blocks /\ w.count = c.count /\ w.size = c.size
        /\ Length(c.data) <= Length(w.data) /\ Length(w.data) <= w.fsize /\ w.fsize <= c.size
        /\ w.fpos <= c.size \/ w.fpos = c.fpos
        /\ \A i \in Nat : At(w.data, i) = IF Modified(b, i) THEN b.buf[i - b.start]
                                          ELSE At(c.data, i)
        /\ b.mend = c.size => Length(w.data) = c.size
    BY <1>3, WriteBlockIs
  <1>5. d = [w EXCEPT !.blocks = t]
    BY DEF Dropped
  <1> HIDE DEF w, t, d
  <1>6. /\ d \in CacheSet /\ d.blocks = t /\ d.data = w.data /\ d.fsize = w.fsize /\ d.fpos = w.fpos
        /\ d.size = c.size /\ d.count = c.count
    BY <1>3, <1>4, <1>5 DEF CacheSet
  <1>7. ASSUME NEW x \in Range(t)  PROVE AsInFile(d, x)
    <2>1. x.mend <= d.size
      BY <1>1, <1>3, <1>6 DEF AsInFile
    <2>2. ASSUME NEW i \in Nat, Base(i) = x.start, ~ Modified(x, i)
          PROVE  x.buf[i - x.start] = At(d.data, i)
      <3>1. x.buf[i - x.start] = At(c.data, i)
        BY <1>1, <1>3, <2>2 DEF AsInFile
      <3>2. ~ Modified(b, i)
        BY <1>3, <2>2, ModifiedInBlock
      <3> QED  BY <1>4, <1>6, <3>1, <3>2
    <2> QED  BY <2>1, <2>2 DEF AsInFile
  <1>8. Sound(d)
    BY <1>1, <1>3, <1>4, <1>6, <1>7 DEF Sound
  <1>9. ASSUME NEW i \in Nat  PROVE ByteAt(d, i) = ByteAt(c, i)
    <2> HIDE DEF b
    <2>1. CASE b.start = Base(i)
      <3>1. ByteAt(c, i) = b.buf[i - b.start]
        BY <1>1, <1>3, <2>1, ByteAtIs
      <3>2. ByteAt(d, i) = At(d.data, i)
        BY <1>3, <1>6, <2>1, ByteAtIs
      <3>3. ~ Modified(b, i) => b.buf[i - b.start] = At(c.data, i)
        BY <1>1, <1>3, <2>1 DEF AsInFile
      <3> QED  BY <1>4, <1>6, <3>1, <3>2, <3>3
    <2>2. CASE b.start # Base(i)
      <3>1. At(d.data, i) = At(c.data, i)
        BY <1>3, <1>4, <1>6, <2>2, ModifiedInBlock
      <3>2. CASE \E x \in Range(t) : x.start = Base(i)
        <4>1. PICK x \in Range(t) : x.start = Base(i)
          BY <3>2
        <4>2. ByteAt(c, i) = x.buf[i - x.start]
          BY <1>1, <1>3, <4>1, ByteAtIs
        <4>3. ByteAt(d, i) = x.buf[i - x.start]
          BY <1>3, <1>6, <4>1, ByteAtIs
        <4> QED  BY <4>2, <4>3
      <3>3. CASE \A x \in Range(t) : x.start # Base(i)
        <4>1. ByteAt(c, i) = At(c.data, i)
          BY <1>1, <1>3, <2>2, <3>3, ByteAtIs
        <4>2. ByteAt(d, i) = At(d.data, i)
          BY <1>3, <1>6, <3>3, ByteAtIs
        <4> QED  BY <3>1, <4>1, <4>2
      <3> QED  BY <3>2, <3>3
    <2> QED  BY <2>1, <2>2
  <1>11. d.fpos <= c.size \/ d.fpos = c.fpos
    BY <1>4, <1>6
  <1>12. d.blocks = RemoveAt(c.blocks, k) /\ Len(d.blocks) = Len(c.blocks) - 1
    BY <1>3, <1>6 DEF t
  <1> HIDE DEF b
  <1> QED  BY <1>6, <1>8, <1>9, <1>11, <1>12 DEF d

LEMMA SizedIs ==
    ASSUME NEW c, Sound(c), c.fpos <= c.size
    PROVE  LET d == Sized(c) IN
           /\ Sound(d) /\ d.data = c.data /\ d.size = c.size /\ d.count = c.count
           /\ d.blocks = c.blocks /\ d.fpos = c.fpos
           /\ \A i \in Nat : ByteAt(d, i) = ByteAt(c, i)
  <1> DEFINE d == Sized(c)
             n == IF c.fsize >= c.fpos THEN c.fsize ELSE c.fpos
  <1>1. /\ c \in CacheSet /\ Length(c.data) <= c.fsize /\ c.fsize <= c.size
        /\ Length(c.data) \in Nat /\ c.fsize \in Nat /\ c.fpos \in Nat /\ c.size \in Nat
    BY CacheIs DEF Sound
  <1>2. n \in Nat /\ Max({c.fsize, c.fpos}) = n /\ Length(c.data) <= n /\ n <= c.size
    BY <1>1, LargerOf
  <1>3. d = [c EXCEPT !.fsize = n]
    BY <1>2, Zenon DEF Sized
  <1> HIDE DEF d, n
  <1>4. /\ d \in CacheSet /\ d.data = c.data /\ d.fsize = n /\ d.fpos = c.fpos /\ d.size = c.size
        /\ d.blocks = c.blocks /\ d.count = c.count
    BY <1>1, <1>2, <1>3 DEF CacheSet
  <1>5. \A x : AsInFile(c, x) => AsInFile(d, x)
    BY <1>4 DEF AsInFile
  <1>6. Sound(d)
    BY <1>2, <1>4, <1>5 DEF Sound
  <1>7. \A i \in Nat : ByteAt(d, i) = ByteAt(c, i)
    BY <1>4 DEF ByteAt, Hits
  <1> QED  BY <1>4, <1>6, <1>7 DEF d

\* The list does not outgrow its bound.
Counted(c) == Len(c.blocks) <= c.count /\ (Len(c.blocks) <= 2 \/ Len(c.blocks) <= BlockCount - 1)

LEMMA MakeRoomIs ==
    ASSUME NEW c, Sound(c), c.fpos <= c.size, Counted(c)
    PROVE  LET d == MakeRoom(c) IN
           /\ Sound(d) /\ d.size = c.size
           /\ \A i \in Nat : ByteAt(d, i) = ByteAt(c, i)
           /\ d.fpos <= c.size
           /\ Len(d.blocks) + 1 <= d.count + 1 /\ (d.count + 1 > BlockCount => Len(d.blocks) + 1 <= BlockCount)
           /\ Len(d.blocks) + 1 <= 2 \/ Len(d.blocks) + 1 <= BlockCount - 1
           /\ \A x \in Range(d.blocks) : x \in Range(c.blocks)
  <1>1. /\ c \in CacheSet /\ Apart(c.blocks) /\ c.count \in Nat /\ c.blocks \in Seq(BlockSet)
        /\ Len(c.blocks) \in Nat /\ DOMAIN c.blocks = 1 .. Len(c.blocks)
    BY CacheIs DEF Sound
  <1>2. CASE ~(c.count >= BlockCount - 1 /\ Len(c.blocks) >= 2)
    <2>1. MakeRoom(c) = c
      BY <1>2, Zenon DEF MakeRoom
    <2>2. /\ Len(c.blocks) + 1 <= c.count + 1 /\ (c.count + 1 > BlockCount => Len(c.blocks) + 1 <= BlockCount)
          /\ Len(c.blocks) + 1 <= 2 \/ Len(c.blocks) + 1 <= BlockCount - 1
      BY <1>1, <1>2, BlockWriteStreamAssumption DEF Counted
    <2> QED  BY <2>1, <2>2
  <1>3. CASE c.count >= BlockCount - 1 /\ Len(c.blocks) >= 2
    <2> DEFINE k == Len(c.blocks)
               e == Dropped(c, k)
               d == MakeRoom(c)
    <2>1. k \in DOMAIN c.blocks
      BY <1>1, <1>3
    <2>2. /\ Sound(e) /\ e.size = c.size /\ e.count = c.count
          /\ e.blocks = RemoveAt(c.blocks, k) /\ Len(e.blocks) = Len(c.blocks) - 1
          /\ \A i \in Nat : ByteAt(e, i) = ByteAt(c, i)
          /\ e.fpos <= c.size \/ e.fpos = c.fpos
      BY <2>1, DroppedIs
    <2>3. d = [e EXCEPT !.count = e.count - 1]
      BY <1>3, Zenon DEF MakeRoom
    <2>4. \A x \in Range(e.blocks) : x \in Range(c.blocks)
      BY <1>1, <2>1, <2>2, OneLess
    <2> HIDE DEF d, e
    <2>5. e \in CacheSet
      BY <2>2 DEF Sound
    <2>6. /\ d \in CacheSet /\ d.data = e.data /\ d.fsize = e.fsize /\ d.fpos = e.fpos /\ d.size = c.size
          /\ d.blocks = e.blocks /\ d.count = c.count - 1
      <3> DEFINE n == e.count - 1
      <3>1. n \in Nat /\ n = c.count - 1
        BY <1>1, <1>3, <2>2, BlockWriteStreamAssumption
      <3> HIDE DEF n
      <3>2. d = [e EXCEPT !.count = n]
        BY <2>3 DEF n
      <3>3. /\ d \in CacheSet /\ d.data = e.data /\ d.fsize = e.fsize /\ d.fpos = e.fpos
            /\ d.size = e.size /\ d.blocks = e.blocks /\ d.count = n
        BY <2>5, <3>1, <3>2 DEF CacheSet
      <3> QED  BY <2>2, <3>1, <3>3
    <2>7. Sound(d)
      <3>1. \A x : AsInFile(e, x) => AsInFile(d, x)
        BY <2>2, <2>6 DEF AsInFile
      <3> QED  BY <2>2, <2>6, <3>1 DEF Sound
    <2>8. \A i \in Nat : ByteAt(d, i) = ByteAt(c, i)
      BY <2>2, <2>6 DEF ByteAt, Hits
    <2>10. /\ Len(d.blocks) + 1 <= d.count + 1 /\ (d.count + 1 > BlockCount => Len(d.blocks) + 1 <= BlockCount)
           /\ Len(d.blocks) + 1 <= 2 \/ Len(d.blocks) + 1 <= BlockCount - 1
      BY <1>1, <1>3, <2>2, <2>6, BlockWriteStreamAssumption DEF Counted
    <2>11. d.fpos <= c.size
      BY <2>2, <2>6
    <2> QED  BY <2>4, <2>6, <2>7, <2>8, <2>10, <2>11 DEF d
  <1> QED  BY <1>2, <1>3
-----------------------------------------------------------------------------
(* Saving bytes in a block. *)

LEMMA SaveByteIs ==
    ASSUME NEW x \in BlockSet, NEW i \in Nat, x.start <= i, i < x.start + BlockSize, NEW v \in Bytes
    PROVE  LET y == SaveByte(x, i, v) IN
           /\ y \in BlockSet /\ y.start = x.start
           /\ \A o \in 0 .. BlockSize - 1 : y.buf[o] = IF o = i - x.start THEN v ELSE x.buf[o]
           /\ \/ y = x /\ i <= x.end
              \/ /\ x.mstart = Unmodified /\ y.mstart = i /\ y.mend = i + 1 /\ y.end = x.end
              \/ /\ x.mstart # Unmodified
                 /\ y.mstart = IF x.mstart <= i THEN x.mstart ELSE i
                 /\ y.mend = IF x.mend >= i + 1 THEN x.mend ELSE i + 1
                 /\ y.end = IF x.end >= i + 1 THEN x.end ELSE i + 1
  <1> DEFINE y == SaveByte(x, i, v)
             q == i - x.start
             f == [x.buf EXCEPT ![q] = v]
             m == IF x.mstart <= i THEN x.mstart ELSE i
             n == IF x.mend >= i + 1 THEN x.mend ELSE i + 1
             e == IF x.end >= i + 1 THEN x.end ELSE i + 1
  <1>1. /\ x.start \in Nat /\ x.start % BlockSize = 0
        /\ x.end \in Nat /\ x.start <= x.end /\ x.end <= x.start + BlockSize
        /\ x.mstart \in Int /\ x.mend \in Int
        /\ \/ x.mstart = Unmodified /\ x.mend = Unmodified
           \/ x.start <= x.mstart /\ x.mstart < x.mend /\ x.mend <= x.start + BlockSize
        /\ x.buf \in [0 .. BlockSize - 1 -> Bytes]
    BY BlockIs
  <1>2. q \in 0 .. BlockSize - 1
    BY <1>1, BlockWriteStreamAssumption
  <1>3. /\ f \in [0 .. BlockSize - 1 -> Bytes]
        /\ \A o \in 0 .. BlockSize - 1 : f[o] = IF o = q THEN v ELSE x.buf[o]
    BY <1>1, <1>2
  <1>4. Min({x.mstart, i}) = m /\ Max({x.mend, i + 1}) = n /\ Max({x.end, i + 1}) = e
    BY <1>1, SmallerOf, LargerOf
  <1>5. CASE i <= x.end /\ x.buf[q] = v
    <2>1. y = x
      BY <1>5, Zenon DEF SaveByte
    <2> QED  BY <1>5, <2>1
  <1>6. CASE ~(i <= x.end /\ x.buf[q] = v) /\ x.mstart = Unmodified
    <2>1. y = [x EXCEPT !.buf = f, !.mstart = i, !.mend = i + 1]
      <3>1. y = [x EXCEPT !.buf[q] = v, !.mstart = i, !.mend = i + 1]
        BY <1>6, Zenon DEF SaveByte
      <3> QED  BY <3>1
    <2> DEFINE h == i + 1
    <2>2. i \in Int /\ h \in Int /\ x.start <= i /\ i < h /\ h <= x.start + BlockSize
      BY <1>1, BlockWriteStreamAssumption
    <2> HIDE DEF y, f, h
    <2>3. y = [x EXCEPT !.buf = f, !.mstart = i, !.mend = h]
      BY <2>1 DEF h
    <2>4. y \in BlockSet /\ y.start = x.start /\ y.buf = f /\ y.mstart = i /\ y.mend = h /\ y.end = x.end
      BY <1>1, <1>3, <2>2, <2>3 DEF BlockSet, OfLength
    <2> QED  BY <1>3, <1>6, <2>4 DEF y, h
  <1>7. CASE ~(i <= x.end /\ x.buf[q] = v) /\ x.mstart # Unmodified
    <2>1. y = [x EXCEPT !.buf = f, !.mstart = m, !.mend = n, !.end = e]
      <3>1. y = [x EXCEPT !.buf[q] = v, !.mstart = Min({x.mstart, i}), !.mend = Max({x.mend, i + 1}),
                          !.end = Max({x.end, i + 1})]
        BY <1>7, Zenon DEF SaveByte
      <3>2. y = [x EXCEPT !.buf[q] = v, !.mstart = m, !.mend = n, !.end = e]
        BY <1>4, <3>1, Zenon
      <3> QED  BY <3>2
    <2>2. /\ m \in Int /\ n \in Int /\ e \in Nat
          /\ x.start <= m /\ m < n /\ n <= x.start + BlockSize
          /\ x.start <= e /\ e <= x.start + BlockSize
      BY <1>1, <1>7, BlockWriteStreamAssumption
    <2> HIDE DEF y, f, m, n, e
    <2>3. y \in BlockSet /\ y.start = x.start /\ y.buf = f /\ y.mstart = m /\ y.mend = n /\ y.end = e
      BY <1>1, <1>3, <2>1, <2>2 DEF BlockSet, OfLength
    <2> QED  BY <1>3, <1>7, <2>3 DEF y, m, n, e
  <1> QED  BY <1>5, <1>6, <1>7

\* Save byte for byte.
LEMMA SaveRuns ==
    ASSUME NEW b \in BlockSet, NEW p \in Nat, NEW s \in Strings,
           b.start <= p, p + Length(s) <= b.start + BlockSize
    PROVE  \E r : /\ r[0] = b /\ r[Length(s)] = Save(b, p, s)
                  /\ \A k \in 0 .. Length(s) : r[k] \in BlockSet /\ r[k].start = b.start
                  /\ \A k \in 1 .. Length(s) : r[k] = SaveByte(r[k - 1], p + k - 1, s[k - 1])
  <1> DEFINE n == Length(s)
             q == [i \in 1 .. n |-> i]
             X == {x \in BlockSet : x.start = b.start}
             Step(x, i) == SaveByte(x, p + q[i] - 1, s[q[i] - 1])
             it == CHOOSE f : f = [S \in SUBSET (1 .. n) |->
                                      IF S = {} THEN b ELSE Step(f[S \ {Max(S)}], Max(S))]
             G == [k \in 1 .. n |-> [x \in X |-> Step(x, k)]]
  <1>1. /\ n \in Nat /\ DOMAIN q = 1 .. n /\ b \in X
        /\ \A k \in 1 .. n : q[k] = k /\ s[k - 1] \in Bytes
    BY StringIs
  <1>2. ASSUME NEW k \in 1 .. n, NEW x \in X  PROVE Step(x, k) \in X
    <2>1. x \in BlockSet /\ x.start = b.start /\ b.start \in Nat
      BY BlockIs
    <2>2. p + k - 1 \in Nat /\ x.start <= p + k - 1 /\ p + k - 1 < x.start + BlockSize
      BY <1>1, <2>1, BlockWriteStreamAssumption
    <2>3. SaveByte(x, p + k - 1, s[k - 1]) \in BlockSet /\ SaveByte(x, p + k - 1, s[k - 1]).start = x.start
      BY <1>1, <2>1, <2>2, SaveByteIs
    <2> QED  BY <1>1, <2>1, <2>3
  <1> HIDE DEF X
  <1>3. G \in [1 .. n -> [X -> X]]
    BY <1>2
  <1>4. Save(b, p, s) = it[1 .. n]
    BY <1>1, Zenon DEF Save, FoldLeft, MapThenFoldSet
  <1>5. \E f : f = [S \in SUBSET (1 .. n) |->
                       IF S = {} THEN b ELSE Step(f[S \ {Max(S)}], Max(S))]
    <2> HIDE DEF G, n, Step
    <2>1. PICK f : FoldsOver(f, X, b, n, G)
      BY <1>1, <1>3, FoldExists, Zenon
    <2>2. ASSUME NEW S \in SUBSET (1 .. n), S # {}
          PROVE  G[Max(S)][f[S \ {Max(S)}]] = Step(f[S \ {Max(S)}], Max(S))
      <3>1. Max(S) \in 1 .. n /\ f[S \ {Max(S)}] \in X
        BY <1>1, <2>1, <2>2, LargestIn DEF FoldsOver
      <3> QED BY <3>1 DEF G
    <2>3. [S \in SUBSET (1 .. n) |->
              IF S = {} THEN b ELSE G[Max(S)][f[S \ {Max(S)}]]]
          = [S \in SUBSET (1 .. n) |-> IF S = {} THEN b ELSE Step(f[S \ {Max(S)}], Max(S))]
      BY <2>2, Zenon
    <2>4. f = [S \in SUBSET (1 .. n) |-> IF S = {} THEN b ELSE Step(f[S \ {Max(S)}], Max(S))]
      BY <2>1, <2>3, Zenon DEF FoldsOver
    <2> QED BY <2>4, Zenon
  <1>6. it = [S \in SUBSET (1 .. n) |-> IF S = {} THEN b ELSE Step(it[S \ {Max(S)}], Max(S))]
    BY <1>5, Zenon
  <1> DEFINE r == [k \in 0 .. n |-> it[1 .. k]]
  <1> HIDE DEF it, Step, n
  <1>7. r[0] = b /\ r[n] = Save(b, p, s)
    <2>1. 1 .. 0 = {} /\ {} \in SUBSET (1 .. n) /\ 0 \in 0 .. n /\ n \in 0 .. n
      BY <1>1
    <2>2. it[{}] = b
      BY <1>6, <2>1, Zenon
    <2> QED  BY <1>4, <2>1, <2>2, Zenon
  <1>8. ASSUME NEW k \in 1 .. n  PROVE r[k] = Step(r[k - 1], k)
    <2>1. k \in 0 .. n /\ k - 1 \in 0 .. n
      BY <1>1
    <2>2. /\ 1 .. k \in SUBSET (1 .. n) /\ 1 .. k # {} /\ Max(1 .. k) = k
          /\ (1 .. k) \ {k} = 1 .. k - 1
      BY <1>1, FoldPlaces
    <2>3. it[1 .. k] = IF 1 .. k = {} THEN b
                       ELSE Step(it[(1 .. k) \ {Max(1 .. k)}], Max(1 .. k))
      BY <1>6, <2>2, Zenon
    <2>4. it[1 .. k] = Step(it[1 .. k - 1], k)
      BY <2>2, <2>3, Zenon
    <2> QED  BY <2>1, <2>4
  <1> HIDE DEF r
  <1>9. \A k \in 0 .. n : r[k] \in X
    <2> DEFINE P == [k \in 0 .. n |-> X]
    <2>1. r[0] \in P[0]
      BY <1>1, <1>7
    <2>2. ASSUME NEW k \in 1 .. n, r[k - 1] \in P[k - 1]  PROVE r[k] \in P[k]
      <3>1. k \in 0 .. n /\ k - 1 \in 0 .. n
        BY <1>1
      <3> QED  BY <1>2, <1>8, <2>2, <3>1
    <2> HIDE DEF P
    <2>3. \A k \in 0 .. n : r[k] \in P[k]
      BY <1>1, <2>1, <2>2, FoldKeeps
    <2> QED  BY <2>3 DEF P
  <1>10. \A k \in 1 .. n : r[k] = SaveByte(r[k - 1], p + k - 1, s[k - 1])
    BY <1>1, <1>8 DEF Step
  <1>11. \A k \in 0 .. n : r[k] \in BlockSet /\ r[k].start = b.start
    BY <1>9 DEF X
  <1> QED  BY <1>7, <1>10, <1>11 DEF n

\* y is b with the first k bytes of s at p: what they changed is to be written, and the end is
\* behind it, but for a first modification by the last of them.
Saved(b, p, s, k, y) ==
    /\ y \in BlockSet /\ y.start = b.start
    /\ \A i \in b.start .. b.start + BlockSize - 1 :
           /\ y.buf[i - b.start] = IF p <= i /\ i < p + k THEN s[i - p] ELSE b.buf[i - b.start]
           /\ y.buf[i - b.start] # b.buf[i - b.start] => Modified(y, i)
    /\ \A i \in Nat : Modified(b, i) => Modified(y, i)
    /\ b.mend <= y.mend /\ (y.mend <= b.mend \/ y.mend <= p + k)
    /\ b.end <= y.end /\ (y.end <= b.end \/ y.end <= p + k)
    /\ b.mstart = Unmodified =>
           \/ y.mstart = Unmodified /\ y.end = b.end /\ (k = 0 \/ p + k <= b.end + 1)
           \/ y.mstart # Unmodified /\ y.mend <= y.end
           \/ y.mstart # Unmodified /\ y.mend = p + k /\ (k = 1 \/ p + k <= b.end + 2)

LEMMA SavedStep ==
    ASSUME NEW b \in BlockSet, NEW p \in Nat, NEW s \in Strings,
           b.start <= p, p + Length(s) <= b.start + BlockSize,
           NEW k \in 1 .. Length(s), NEW x, Saved(b, p, s, k - 1, x)
    PROVE  Saved(b, p, s, k, SaveByte(x, p + k - 1, s[k - 1]))
  <1> DEFINE i == p + k - 1
             v == s[k - 1]
             y == SaveByte(x, i, v)
  <1>1. /\ x \in BlockSet /\ x.start = b.start
        /\ \A j \in b.start .. b.start + BlockSize - 1 :
               /\ x.buf[j - b.start] = IF p <= j /\ j < p + (k - 1) THEN s[j - p] ELSE b.buf[j - b.start]
               /\ x.buf[j - b.start] # b.buf[j - b.start] => Modified(x, j)
        /\ \A j \in Nat : Modified(b, j) => Modified(x, j)
        /\ b.mend <= x.mend /\ (x.mend <= b.mend \/ x.mend <= p + (k - 1))
        /\ b.end <= x.end /\ (x.end <= b.end \/ x.end <= p + (k - 1))
        /\ b.mstart = Unmodified =>
               \/ x.mstart = Unmodified /\ x.end = b.end /\ (k - 1 = 0 \/ p + (k - 1) <= b.end + 1)
               \/ x.mstart # Unmodified /\ x.mend <= x.end
               \/ x.mstart # Unmodified /\ x.mend = p + (k - 1) /\ (k - 1 = 1 \/ p + (k - 1) <= b.end + 2)
    BY Zenon DEF Saved
  <1>2. /\ x.start \in Nat /\ x.end \in Nat /\ x.mstart \in Int /\ x.mend \in Int
        /\ \/ x.mstart = -1 /\ x.mend = -1
           \/ x.start <= x.mstart /\ x.mstart < x.mend /\ x.mend <= x.start + BlockSize
    BY <1>1, BlockIs DEF Unmodified
  <1>3. /\ b.start \in Nat /\ b.end \in Nat /\ b.mend \in Int /\ b.mstart \in Int
        /\ \/ b.mstart = -1 /\ b.mend = -1
           \/ b.start <= b.mstart /\ b.mstart < b.mend /\ b.mend <= b.start + BlockSize
    BY BlockIs DEF Unmodified
  <1>4. /\ Length(s) \in Nat /\ k \in Nat /\ k >= 1 /\ v \in Bytes
        /\ i \in Nat /\ i = p + k - 1 /\ x.start <= i /\ i < x.start + BlockSize
    BY <1>1, <1>3, StringIs, BlockWriteStreamAssumption
  <1>5. /\ y \in BlockSet /\ y.start = x.start
        /\ \A o \in 0 .. BlockSize - 1 : y.buf[o] = IF o = i - x.start THEN v ELSE x.buf[o]
        /\ \/ y = x /\ i <= x.end
           \/ /\ x.mstart = Unmodified /\ y.mstart = i /\ y.mend = i + 1 /\ y.end = x.end
           \/ /\ x.mstart # Unmodified
              /\ y.mstart = IF x.mstart <= i THEN x.mstart ELSE i
              /\ y.mend = IF x.mend >= i + 1 THEN x.mend ELSE i + 1
              /\ y.end = IF x.end >= i + 1 THEN x.end ELSE i + 1
    <2> HIDE DEF i, v
    <2> QED  BY <1>1, <1>4, SaveByteIs
  <1>6. i - p = k - 1
    BY <1>4
  <1> HIDE DEF y, i, v
  <1>7. \A j \in Nat : Modified(x, j) => Modified(y, j)
    BY <1>2, <1>4, <1>5 DEF Modified, Unmodified
  <1>8. y = x \/ Modified(y, i)
    BY <1>2, <1>4, <1>5 DEF Modified, Unmodified
  <1>9. ASSUME NEW j \in b.start .. b.start + BlockSize - 1
        PROVE  /\ y.buf[j - b.start] = IF p <= j /\ j < p + k THEN s[j - p] ELSE b.buf[j - b.start]
               /\ y.buf[j - b.start] # b.buf[j - b.start] => Modified(y, j)
    <2>1. j \in Nat /\ j - b.start \in 0 .. BlockSize - 1
          /\ (j - b.start = i - x.start <=> j = i) /\ (p <= j /\ j < p + k <=> j = i \/ (p <= j /\ j < p + (k - 1)))
          /\ ~(i < p + (k - 1))
      BY <1>1, <1>3, <1>4, BlockWriteStreamAssumption
    <2>2. CASE j = i
      <3>1. y.buf[j - b.start] = v /\ v = s[j - p]
        BY <1>5, <1>6, <2>1, <2>2 DEF v
      <3>2. y = x => x.buf[j - b.start] = b.buf[j - b.start]
        BY <1>1, <2>1, <2>2
      <3> QED  BY <1>8, <2>1, <2>2, <3>1, <3>2
    <2>3. CASE j # i
      <3>1. y.buf[j - b.start] = x.buf[j - b.start]
        BY <1>5, <2>1, <2>3
      <3>2. /\ x.buf[j - b.start] = IF p <= j /\ j < p + (k - 1) THEN s[j - p] ELSE b.buf[j - b.start]
            /\ x.buf[j - b.start] # b.buf[j - b.start] => Modified(x, j)
        BY <1>1
      <3> QED  BY <1>7, <2>1, <2>3, <3>1, <3>2
    <2> QED  BY <2>2, <2>3
  <1>10. /\ b.mend <= y.mend /\ (y.mend <= b.mend \/ y.mend <= p + k)
         /\ b.end <= y.end /\ (y.end <= b.end \/ y.end <= p + k)
    BY <1>1, <1>2, <1>3, <1>4, <1>5 DEF Unmodified
  <1>11. ASSUME b.mstart = Unmodified
         PROVE  \/ y.mstart = Unmodified /\ y.end = b.end /\ (k = 0 \/ p + k <= b.end + 1)
                \/ y.mstart # Unmodified /\ y.mend <= y.end
                \/ y.mstart # Unmodified /\ y.mend = p + k /\ (k = 1 \/ p + k <= b.end + 2)
    BY <1>1, <1>2, <1>3, <1>4, <1>5, <1>11 DEF Unmodified
  <1>12. \A j \in Nat : Modified(b, j) => Modified(y, j)
    BY <1>1, <1>7
  <1>13. Saved(b, p, s, k, y)
    BY <1>1, <1>5, <1>9, <1>10, <1>11, <1>12, Zenon DEF Saved
  <1> QED  BY <1>13 DEF y, i, v

LEMMA SaveIs ==
    ASSUME NEW b \in BlockSet, NEW p \in Nat, NEW s \in Strings,
           b.start <= p, p + Length(s) <= b.start + BlockSize
    PROVE  Saved(b, p, s, Length(s), Save(b, p, s))
  <1> DEFINE n == Length(s)
             P == [k \in 0 .. n |-> {y \in BlockSet : Saved(b, p, s, k, y)}]
  <1>1. PICK r : /\ r[0] = b /\ r[n] = Save(b, p, s)
                 /\ \A k \in 0 .. n : r[k] \in BlockSet
                 /\ \A k \in 1 .. n : r[k] = SaveByte(r[k - 1], p + k - 1, s[k - 1])
    <2> HIDE DEF n
    <2>1. \E r : /\ r[0] = b /\ r[Length(s)] = Save(b, p, s)
                 /\ \A k \in 0 .. Length(s) : r[k] \in BlockSet /\ r[k].start = b.start
                 /\ \A k \in 1 .. Length(s) : r[k] = SaveByte(r[k - 1], p + k - 1, s[k - 1])
      BY SaveRuns
    <2> QED  BY <2>1 DEF n
  <1>2. n \in Nat
    BY StringIs
  <1>3. r[0] \in P[0]
    <2>1. /\ b.start \in Nat /\ b.end \in Nat /\ b.mstart \in Int /\ b.mend \in Int
      BY BlockIs
    <2>2. \A i \in b.start .. b.start + BlockSize - 1 : ~(p <= i /\ i < p + 0)
      BY <2>1
    <2>3. Saved(b, p, s, 0, b)
      BY <2>1, <2>2 DEF Saved
    <2> QED  BY <1>1, <1>2, <2>3
  <1>4. ASSUME NEW k \in 1 .. n, r[k - 1] \in P[k - 1]  PROVE r[k] \in P[k]
    <2>1. k \in 0 .. n /\ k - 1 \in 0 .. n
      BY <1>2
    <2>2. Saved(b, p, s, k - 1, r[k - 1])
      BY <1>4, <2>1
    <2>3. Saved(b, p, s, k, SaveByte(r[k - 1], p + k - 1, s[k - 1]))
      BY <2>2, SavedStep
    <2> QED  BY <1>1, <2>1, <2>3
  <1> HIDE DEF P
  <1>5. \A k \in 0 .. n : r[k] \in P[k]
    <2> HIDE DEF n
    <2> QED  BY <1>2, <1>3, <1>4, FoldKeeps
  <1>6. n \in 0 .. n
    BY <1>2
  <1> QED  BY <1>1, <1>5, <1>6 DEF P

\* The block that is read for n bytes at p.
LEMMA NewBlockIs ==
    ASSUME NEW c, Sound(c), NEW p \in Nat, NEW n \in Nat, p + n <= Base(p) + BlockSize
    PROVE  LET b == NewBlock(c, p, n) IN
           /\ b \in BlockSet /\ b.start = Base(p) /\ b.mstart = Unmodified /\ b.mend = Unmodified
           /\ b.end = IF Base(p) < c.fsize
                      THEN IF Base(p) + BlockSize <= c.fsize THEN Base(p) + BlockSize ELSE c.fsize
                      ELSE p + n
           /\ \A i \in b.start .. b.start + BlockSize - 1 : b.buf[i - b.start] = At(c.data, i)
  <1> DEFINE start == Base(p)
             end == IF Base(p) + BlockSize <= c.fsize THEN Base(p) + BlockSize ELSE c.fsize
             e == IF end > start THEN end ELSE p + n
             f == [i \in 0 .. BlockSize - 1 |->
                      IF start + i \in DOMAIN c.data /\ start + i < end THEN c.data[start + i] ELSE 0]
             b == NewBlock(c, p, n)
  <1>1. /\ c \in CacheSet /\ Length(c.data) <= c.fsize
        /\ c.data \in Strings /\ Length(c.data) \in Nat /\ DOMAIN c.data = 0 .. Length(c.data) - 1
        /\ \A i \in 0 .. Length(c.data) - 1 : c.data[i] \in Bytes
        /\ c.fsize \in Nat
    BY CacheIs, StringIs DEF Sound
  <1>2. start \in Nat /\ start % BlockSize = 0 /\ start <= p /\ p < start + BlockSize
    BY BaseIs
  <1>3. Min({start + BlockSize, c.fsize}) = end /\ end \in Nat
    BY <1>1, <1>2, SmallerOf, BlockWriteStreamAssumption
  <1>4. b = [start |-> start, end |-> e, mstart |-> Unmodified, mend |-> Unmodified, buf |-> f]
    BY <1>3, Zenon DEF NewBlock, Base
  <1>5. e \in Nat /\ start <= e /\ e <= start + BlockSize
        /\ e = IF start < c.fsize THEN end ELSE p + n
    BY <1>1, <1>2, BlockWriteStreamAssumption
  <1>6. ASSUME NEW i \in 0 .. BlockSize - 1
        PROVE  f[i] \in Bytes /\ f[i] = At(c.data, start + i)
    <2>1. start + i \in Nat
      BY <1>2, BlockWriteStreamAssumption
    <2>2. start + i \in DOMAIN c.data => start + i < end
      BY <1>1, <1>2, BlockWriteStreamAssumption
    <2> HIDE DEF end, start
    <2> QED  BY <1>1, <2>1, <2>2, AtIs DEF At
  <1>7. f \in [0 .. BlockSize - 1 -> Bytes]
    <2>1. \A i \in 0 .. BlockSize - 1 : f[i] \in Bytes
      BY <1>6
    <2> QED  BY <2>1
  <1> HIDE DEF f, e, b
  <1>8. b \in BlockSet
    <2> HIDE DEF start
    <2> QED  BY <1>2, <1>4, <1>5, <1>7, IsBlock DEF Unmodified
  <1>9. b.start = start /\ b.mstart = Unmodified /\ b.mend = Unmodified /\ b.end = e /\ b.buf = f
    BY <1>4
  <1>10. ASSUME NEW i \in start .. start + BlockSize - 1  PROVE b.buf[i - start] = At(c.data, i)
    <2>1. i - start \in 0 .. BlockSize - 1 /\ start + (i - start) = i
      BY <1>2, BlockWriteStreamAssumption
    <2> HIDE DEF start
    <2> QED  BY <1>6, <1>9, <2>1
  <1> QED  BY <1>5, <1>8, <1>9, <1>10 DEF b

\* d is c with the block y in front of the others: y has the bytes s at p, and what c has elsewhere.
InFront(c, d, p, s, y, t) ==
    /\ y.start = Base(p) /\ p + Length(s) <= y.start + BlockSize /\ Apart(t)
    /\ \A b \in Range(t) : b \in Range(c.blocks) /\ b.start # y.start
    /\ \A b \in Range(c.blocks) : b \in Range(t) \/ b.start = y.start
    /\ \A i \in y.start .. y.start + BlockSize - 1 :
           /\ y.buf[i - y.start] = IF p <= i /\ i < p + Length(s) THEN s[i - p] ELSE ByteAt(c, i)
           /\ Modified(y, i) \/ y.buf[i - y.start] = At(c.data, i)
    /\ y.mend <= d.size /\ c.size <= d.size /\ d.size % SectorSize = 0
    /\ d.data = c.data /\ d.fsize = c.fsize /\ d.blocks = <<y>> \o t

LEMMA FrontIs ==
    ASSUME NEW c, Sound(c), NEW d \in CacheSet, NEW p \in Nat, NEW s \in Strings,
           NEW y \in BlockSet, NEW t \in Seq(BlockSet), InFront(c, d, p, s, y, t)
    PROVE  /\ Sound(d) /\ Len(d.blocks) = Len(t) + 1
           /\ \A i \in Nat : ByteAt(d, i) = IF p <= i /\ i < p + Length(s) THEN s[i - p]
                                            ELSE ByteAt(c, i)
  <1> USE DEF InFront
  <1>1. /\ c \in CacheSet /\ Apart(c.blocks) /\ Length(c.data) <= c.fsize /\ c.fsize <= c.size
        /\ \A b \in Range(c.blocks) : AsInFile(c, b)
    BY DEF Sound
  <1>2. /\ c.fsize \in Nat /\ c.size \in Nat /\ d.size \in Nat
        /\ \A b \in Range(c.blocks) : b \in BlockSet
    BY <1>1, CacheIs
  <1>3. /\ Len(d.blocks) = Len(t) + 1 /\ Apart(d.blocks) /\ Range(d.blocks) = {y} \cup Range(t)
    <2>1. \A b \in Range(t) : b.start # y.start
      OBVIOUS
    <2>2. /\ Len(<<y>> \o t) = Len(t) + 1 /\ Apart(<<y>> \o t) /\ Range(<<y>> \o t) = {y} \cup Range(t)
      BY <2>1, OneMore, Zenon
    <2> QED  BY <2>2, Zenon
  <1>4. \A i \in Nat : Base(i) = y.start <=> y.start <= i /\ i < y.start + BlockSize
    BY BaseOf, BlockIs
  <1>5. y.start \in Nat /\ y.mend \in Int
    BY BlockIs
  <1>6. \A i \in Nat : Base(i) = y.start => i \in y.start .. y.start + BlockSize - 1
    BY <1>4, <1>5, BlockWriteStreamAssumption
  <1>7. ASSUME NEW b \in Range(d.blocks)  PROVE AsInFile(d, b)
    <2>1. CASE b = y
      BY <1>6, <2>1, Zenon DEF AsInFile
    <2>2. CASE b \in Range(t)
      <3>1. b \in BlockSet /\ b.mend \in Int
        BY <1>2, <2>2, BlockIs
      <3>2. AsInFile(c, b)
        BY <1>1, <2>2
      <3>3. b.mend <= d.size
        BY <1>2, <3>1, <3>2 DEF AsInFile
      <3> QED  BY <3>2, <3>3 DEF AsInFile
    <2> QED  BY <1>3, <2>1, <2>2
  <1>8. Sound(d)
    <2>1. d.fsize <= d.size
      BY <1>1, <1>2
    <2> QED  BY <1>1, <1>3, <1>7, <2>1 DEF Sound
  <1>9. ASSUME NEW i \in Nat
        PROVE  ByteAt(d, i) = IF p <= i /\ i < p + Length(s) THEN s[i - p] ELSE ByteAt(c, i)
    <2>1. CASE Base(i) = y.start
      <3>1. ByteAt(d, i) = y.buf[i - y.start]
        BY <1>3, <2>1, ByteAtIs
      <3> QED  BY <1>6, <2>1, <3>1
    <2>2. CASE Base(i) # y.start
      <3>1. ~(p <= i /\ i < p + Length(s))
        <4>1. y.start <= p
          BY BaseIs
        <4>2. Length(s) \in Nat
          BY StringIs
        <4> QED  BY <1>4, <1>5, <2>2, <4>1, <4>2, BlockWriteStreamAssumption
      <3>2. CASE \E b \in Range(t) : b.start = Base(i)
        <4>1. PICK b \in Range(t) : b.start = Base(i)
          BY <3>2
        <4>2. b \in Range(c.blocks) /\ b \in Range(d.blocks)
          BY <1>3, <4>1
        <4>3. ByteAt(c, i) = b.buf[i - b.start]
          BY <1>1, <4>1, <4>2, ByteAtIs
        <4>4. ByteAt(d, i) = b.buf[i - b.start]
          BY <1>3, <4>1, <4>2, ByteAtIs
        <4> QED  BY <3>1, <4>3, <4>4
      <3>3. CASE \A b \in Range(t) : b.start # Base(i)
        <4>1. \A b \in Range(c.blocks) : b.start # Base(i)
          BY <2>2, <3>3
        <4>2. \A b \in Range(d.blocks) : b.start # Base(i)
          BY <1>3, <2>2, <3>3
        <4>3. ByteAt(c, i) = At(c.data, i)
          BY <1>1, <4>1, ByteAtIs
        <4>4. ByteAt(d, i) = At(d.data, i)
          BY <1>3, <4>2, ByteAtIs
        <4> QED  BY <3>1, <4>3, <4>4
      <3> QED  BY <3>2, <3>3
    <2> QED  BY <2>1, <2>2
  <1> QED  BY <1>3, <1>8, <1>9

-----------------------------------------------------------------------------
(* Writing a piece of a word, within a block. *)

LEMMA WholeSectors ==
    ASSUME NEW a \in Nat, NEW b \in Nat, a % SectorSize = 0, b % SectorSize = 0
    PROVE  /\ (a + b) % SectorSize = 0 /\ (a <= b => (b - a) % SectorSize = 0)
           /\ a < b => a + SectorSize <= b
  <1> DEFINE j == a \div SectorSize
             k == b \div SectorSize
  <1>1. /\ j \in Nat /\ k \in Nat /\ a = j * SectorSize /\ b = k * SectorSize
        /\ SectorSize \in Nat /\ SectorSize > 0
    BY BlockWriteStreamAssumption
  <1> HIDE DEF j, k
  <1>2. \A m \in Int : (m * SectorSize) % SectorSize = 0
    BY <1>1
  <1>3. a + b = (j + k) * SectorSize /\ b - a = (k - j) * SectorSize /\ j + k \in Int /\ k - j \in Int
    BY <1>1
  <1>4. (a + b) % SectorSize = 0 /\ (b - a) % SectorSize = 0
    BY <1>2, <1>3
  <1>5. ASSUME a < b  PROVE a + SectorSize <= b
    <2>1. k > j
      <3> SUFFICES ASSUME k <= j  PROVE FALSE
        BY <1>1
      <3>1. k * SectorSize <= j * SectorSize
        BY <1>1
      <3> QED  BY <1>1, <1>5, <3>1
    <2>2. (j + 1) * SectorSize <= k * SectorSize /\ (j + 1) * SectorSize = j * SectorSize + SectorSize
      BY <1>1, <2>1
    <2> QED  BY <1>1, <2>2
  <1> QED  BY <1>4, <1>5

\* Whole sectors of a block.
Piece(p, s) ==
    /\ p \in Nat /\ s \in Strings /\ Length(s) >= 1
    /\ p % SectorSize = 0 /\ p + Length(s) <= Base(p) + BlockSize

\* It makes the stream no longer, or by whole sectors.
AtEndWhole(c, p, s) == p + Length(s) <= c.size \/ Length(s) % SectorSize = 0

\* d is c with the bytes s at p.
PieceWritten(c, p, s, d) ==
    /\ Sound(d) /\ d.fpos <= d.size /\ Counted(d)
    /\ d.size = IF c.size >= p + Length(s) THEN c.size ELSE p + Length(s)
    /\ \A i \in Nat : ByteAt(d, i) = IF p <= i /\ i < p + Length(s) THEN s[i - p] ELSE ByteAt(c, i)

\* The block that a position is found in, and the others.
LEMMA FoundIs ==
    ASSUME NEW c, Sound(c), NEW p \in Nat, Hits(c, p) # {}
    PROVE  \E k \in DOMAIN c.blocks :
               /\ c.blocks[k].start = Base(p) /\ c.blocks[k] \in BlockSet
               /\ Found(c, p) = <<c.blocks[k]>> \o RemoveAt(c.blocks, k)
  <1>1. c.blocks \in Seq(BlockSet) /\ DOMAIN c.blocks = 1 .. Len(c.blocks) /\ Len(c.blocks) \in Nat
    BY CacheIs DEF Sound
  <1>2. Hits(c, p) \subseteq Nat
    BY <1>1 DEF Hits
  <1>3. PICK k \in Hits(c, p) : \A j \in Hits(c, p) : k <= j
    BY <1>2, SmallestIn
  <1>4. Min(Hits(c, p)) = k
    <2>1. \A x \in Hits(c, p) : (\A y \in Hits(c, p) : x <= y) => x = k
      BY <1>2, <1>3
    <2> QED  BY <1>3, <2>1 DEF Min
  <1>5. k \in DOMAIN c.blocks /\ Covers(c.blocks[k], p) /\ c.blocks[k] \in BlockSet
    BY <1>1 DEF Hits
  <1>6. c.blocks[k].start = Base(p)
    BY <1>5, BlockIs
  <1>7. Found(c, p) = <<c.blocks[k]>> \o RemoveAt(c.blocks, k)
    BY <1>4, Zenon DEF Found
  <1> QED  BY <1>5, <1>6, <1>7

\* The longer of two.
Longer(m, n) == IF m >= n THEN m ELSE n

LEMMA WriteToFoundIs ==
    ASSUME NEW c, Sound(c), c.fpos <= c.size, Counted(c), NEW p, NEW s, Piece(p, s), AtEndWhole(c, p, s), Hits(c, p) # {}
    PROVE  PieceWritten(c, p, s, WriteToFound(c, p, s))
  <1> DEFINE n == Length(s)
             z == Longer(c.size, p + n)
             d == WriteToFound(c, p, s)
  <1>1. /\ c \in CacheSet /\ Apart(c.blocks) /\ Length(c.data) <= c.fsize /\ c.fsize <= c.size
        /\ c.size % SectorSize = 0 /\ \A x \in Range(c.blocks) : AsInFile(c, x)
    BY DEF Sound
  <1>2. /\ c.fsize \in Nat /\ c.size \in Nat /\ c.blocks \in Seq(BlockSet)
        /\ c.data \in Strings /\ Length(c.data) \in Nat /\ c.fpos \in Nat
    BY <1>1, CacheIs
  <1>3. /\ p \in Nat /\ s \in Strings /\ n >= 1 /\ n \in Nat /\ p % SectorSize = 0 /\ (p + n <= c.size \/ n % SectorSize = 0)
        /\ p + n <= Base(p) + BlockSize /\ Base(p) \in Nat /\ Base(p) <= p
    BY BaseIs, StringIs DEF Piece, AtEndWhole
  <1>4. PICK k \in DOMAIN c.blocks :
            /\ c.blocks[k].start = Base(p) /\ c.blocks[k] \in BlockSet
            /\ Found(c, p) = <<c.blocks[k]>> \o RemoveAt(c.blocks, k)
    BY <1>3, FoundIs
  <1> DEFINE b == c.blocks[k]
             t == RemoveAt(c.blocks, k)
             y == Save(b, p, s)
  <1>5. /\ t \in Seq(BlockSet) /\ Len(t) = Len(c.blocks) - 1 /\ Apart(t) /\ b \in Range(c.blocks)
        /\ \A x \in Range(t) : x \in Range(c.blocks) /\ x.start # b.start
        /\ \A x \in Range(c.blocks) : x = b \/ x \in Range(t)
    BY <1>1, <1>2, OneLess
  <1>6. Saved(b, p, s, n, y)
    <2> HIDE DEF b
    <2>1. b \in BlockSet /\ b.start <= p /\ p + Length(s) <= b.start + BlockSize
      BY <1>3, <1>4 DEF b
    <2> QED  BY <1>3, <2>1, SaveIs
  <1>7. /\ y \in BlockSet /\ y.start = b.start
        /\ \A i \in b.start .. b.start + BlockSize - 1 :
               /\ y.buf[i - b.start] = IF p <= i /\ i < p + n THEN s[i - p] ELSE b.buf[i - b.start]
               /\ y.buf[i - b.start] # b.buf[i - b.start] => Modified(y, i)
        /\ \A i \in Nat : Modified(b, i) => Modified(y, i)
        /\ b.mend <= y.mend /\ (y.mend <= b.mend \/ y.mend <= p + n)
    BY <1>6, Zenon DEF Saved
  <1>8. /\ d = [c EXCEPT !.blocks = <<y>> \o t, !.size = z]
        /\ <<y>> \o t \in Seq(BlockSet) /\ Len(<<y>> \o t) = Len(t) + 1
    <2>1. \A x \in Range(t) : x.start # b.start
      BY <1>5
    <2>6. \A x \in Range(t) : x.start # y.start
      BY <1>5, <1>7
    <2>7. b \in BlockSet /\ y \in BlockSet /\ t \in Seq(BlockSet) /\ Apart(t)
      BY <1>4, <1>5, <1>7
    <2>2. Max({c.size, p + n}) = z
      BY <1>2, <1>3, LargerOf DEF Longer
    <2>3. (<<b>> \o t)[1] = b /\ [<<b>> \o t EXCEPT ![1] = y] = <<y>> \o t
      <3> HIDE DEF b, t, y
      <3> QED  BY <2>1, <2>7, OneMore, Zenon
    <2>4. d = [c EXCEPT !.blocks = [<<b>> \o t EXCEPT ![1] = Save((<<b>> \o t)[1], p, s)],
                        !.size = Max({c.size, p + n})]
      BY <1>4, Zenon DEF WriteToFound
    <2>5. <<y>> \o t \in Seq(BlockSet) /\ Len(<<y>> \o t) = Len(t) + 1
      <3> HIDE DEF b, t, y
      <3> QED  BY <2>6, <2>7, OneMore, Zenon
    <2> QED  BY <2>2, <2>3, <2>4, <2>5, Zenon
  <1> HIDE DEF y, d, b, t
  <1>9. z \in Nat /\ z % SectorSize = 0 /\ c.size <= z /\ p + n <= z
        /\ (z = c.size \/ (z = p + n /\ c.size < p + n))
    <2>1. p + n \in Nat /\ (p + n <= c.size \/ (p + n) % SectorSize = 0)
      BY <1>3, WholeSectors
    <2> DEFINE m == p + n
    <2> HIDE DEF m, n
    <2>2. m \in Nat /\ (m <= c.size \/ m % SectorSize = 0) /\ z = IF c.size >= m THEN c.size ELSE m
      BY <2>1 DEF m, Longer
    <2> HIDE DEF z
    <2>3. z \in Nat /\ z % SectorSize = 0 /\ c.size <= z /\ m <= z
          /\ (z = c.size \/ (z = m /\ c.size < m))
      BY <1>1, <1>2, <2>2
    <2> QED  BY <2>3 DEF m
  <1> HIDE DEF z, n
  <1> DEFINE u == <<y>> \o t
  <1>10. u \in Seq(BlockSet) /\ d = [c EXCEPT !.blocks = u, !.size = z]
    BY <1>8
  <1> HIDE DEF u
  <1>11. /\ d \in CacheSet /\ d.data = c.data /\ d.fsize = c.fsize /\ d.fpos = c.fpos /\ d.size = z
         /\ d.blocks = u /\ d.count = c.count
    BY <1>1, <1>9, <1>10 DEF CacheSet
  <1>12. /\ b.start \in Nat /\ b.mend \in Int /\ y.mend \in Int /\ b.mend <= c.size /\ b.start = Base(p)
         /\ b \in BlockSet
    BY <1>1, <1>4, <1>5, <1>7, BlockIs DEF AsInFile, b
  <1>13. \A i \in b.start .. b.start + BlockSize - 1 : i \in Nat /\ Base(i) = b.start
    <2>1. \A i \in b.start .. b.start + BlockSize - 1 : i \in Nat /\ b.start <= i /\ i < b.start + BlockSize
      BY <1>12, BlockWriteStreamAssumption
    <2> QED  BY <1>12, <2>1, BaseOf, BlockIs
  <1>14. ASSUME NEW i \in b.start .. b.start + BlockSize - 1
         PROVE  /\ ByteAt(c, i) = b.buf[i - b.start]
                /\ Modified(b, i) \/ b.buf[i - b.start] = At(c.data, i)
    <2>1. i \in Nat /\ Base(i) = b.start
      BY <1>13
    <2>2. ByteAt(c, i) = b.buf[i - b.start]
      BY <1>1, <1>5, <2>1, ByteAtIs
    <2>3. Modified(b, i) \/ b.buf[i - b.start] = At(c.data, i)
      BY <1>1, <1>5, <2>1 DEF AsInFile
    <2> QED  BY <2>2, <2>3
  <1>15. /\ Sound(d) /\ Len(d.blocks) = Len(t) + 1
         /\ \A i \in Nat : ByteAt(d, i) = IF p <= i /\ i < p + Length(s) THEN s[i - p]
                                          ELSE ByteAt(c, i)
    <2>1. \A x \in Range(t) : x \in Range(c.blocks) /\ x.start # y.start
      BY <1>5, <1>7
    <2>2. \A x \in Range(c.blocks) : x \in Range(t) \/ x.start = y.start
      BY <1>5, <1>7
    <2>3. \A i \in y.start .. y.start + BlockSize - 1 :
               /\ y.buf[i - y.start] = IF p <= i /\ i < p + Length(s) THEN s[i - p] ELSE ByteAt(c, i)
               /\ Modified(y, i) \/ y.buf[i - y.start] = At(c.data, i)
      <3> SUFFICES ASSUME NEW i \in b.start .. b.start + BlockSize - 1
                   PROVE  /\ y.buf[i - b.start] = IF p <= i /\ i < p + Length(s) THEN s[i - p] ELSE ByteAt(c, i)
                          /\ Modified(y, i) \/ y.buf[i - b.start] = At(c.data, i)
        BY <1>7
      <3>1. /\ y.buf[i - b.start] = IF p <= i /\ i < p + n THEN s[i - p] ELSE b.buf[i - b.start]
            /\ y.buf[i - b.start] # b.buf[i - b.start] => Modified(y, i)
            /\ Modified(b, i) => Modified(y, i)
        BY <1>7, <1>13
      <3> QED  BY <1>14, <3>1 DEF n
    <2>4. y.mend <= d.size /\ c.size <= d.size /\ d.size % SectorSize = 0
      BY <1>2, <1>3, <1>7, <1>9, <1>11, <1>12
    <2>5. y.start = Base(p) /\ p + Length(s) <= y.start + BlockSize
      BY <1>3, <1>7, <1>12 DEF n
    <2>6. d.blocks = <<y>> \o t
      BY <1>11 DEF u
    <2>7. InFront(c, d, p, s, y, t)
      BY <1>5, <1>11, <2>1, <2>2, <2>3, <2>4, <2>5, <2>6, Zenon DEF InFront
    <2> QED  BY <1>3, <1>5, <1>7, <1>11, <2>7, FrontIs
  <1>16. Counted(d)
    <2>1. Len(t) \in Nat /\ Len(c.blocks) \in Nat
      BY <1>2, <1>5
    <2>2. Len(d.blocks) = Len(c.blocks)
      BY <1>5, <1>15, <2>1
    <2> QED  BY <1>11, <2>2 DEF Counted
  <1>18. d.fpos <= d.size
    BY <1>2, <1>9, <1>11
  <1>19. d.size = IF c.size >= p + Length(s) THEN c.size ELSE p + Length(s)
    BY <1>11 DEF z, n, Longer
  <1>20. PieceWritten(c, p, s, d)
    BY <1>15, <1>16, <1>18, <1>19, Zenon DEF PieceWritten, n
  <1> QED  BY <1>20 DEF d

LEMMA BlockReadIs ==
    ASSUME NEW c, Sound(c), c.fpos <= c.size, NEW p \in Nat
    PROVE  LET d == BlockRead(c, p) IN
           /\ d \in CacheSet /\ d.data = c.data /\ d.fsize = c.fsize /\ d.size = c.size
           /\ d.blocks = c.blocks /\ d.count = c.count /\ d.fpos <= c.size
  <1> DEFINE start == Base(p)
             end == IF start + BlockSize <= c.fsize THEN start + BlockSize ELSE c.fsize
             s == Slice(c.data, start, end - start)
             m == start + Length(s)
             d == BlockRead(c, p)
  <1>1. /\ c \in CacheSet /\ Length(c.data) <= c.fsize /\ c.fsize <= c.size
        /\ c.data \in Strings /\ Length(c.data) \in Nat /\ c.fsize \in Nat /\ c.size \in Nat
    BY CacheIs DEF Sound
  <1>2. start \in Nat
    BY BaseIs
  <1>3. Min({start + BlockSize, c.fsize}) = end /\ end \in Nat
    BY <1>1, <1>2, SmallerOf, BlockWriteStreamAssumption
  <1>4. d = IF end > start THEN [c EXCEPT !.fpos = m] ELSE c
    BY <1>3, Zenon DEF BlockRead, FileRead, Base
  <1>5. CASE ~(end > start)
    <2>1. d = c
      BY <1>4, <1>5
    <2> QED  BY <1>1, <2>1
  <1>6. CASE end > start
    <2>1. m \in Nat /\ m <= c.size
      <3>1. /\ Length(s) \in Nat
            /\ Length(s) = IF end - start <= 0 \/ Length(c.data) <= start THEN 0
                           ELSE IF start + (end - start) <= Length(c.data) THEN end - start
                           ELSE Length(c.data) - start
        <4> HIDE DEF start, end
        <4>1. end - start \in Int
          BY <1>2, <1>3
        <4> QED  BY <1>1, <1>2, <4>1, SliceIs, StringIs
      <3>2. start < c.fsize
        BY <1>1, <1>2, <1>6, BlockWriteStreamAssumption
      <3> HIDE DEF start, end, s
      <3> QED  BY <1>1, <1>2, <1>3, <3>1, <3>2
    <2>2. d = [c EXCEPT !.fpos = m]
      BY <1>4, <1>6, Zenon
    <2> HIDE DEF m, d
    <2>3. /\ d \in CacheSet /\ d.data = c.data /\ d.fsize = c.fsize /\ d.size = c.size
          /\ d.blocks = c.blocks /\ d.count = c.count /\ d.fpos = m
      BY <1>1, <2>1, <2>2 DEF CacheSet
    <2> QED  BY <2>1, <2>3 DEF d
  <1> QED  BY <1>5, <1>6

\* A new block, once the bytes s are in it: written whole if it makes the file longer.
Fresh(c, p, s) ==
    LET b == Save(NewBlock(c, p, Length(s)), p, s) IN
    IF p + Length(s) > c.size THEN [b EXCEPT !.mstart = b.start, !.mend = b.end] ELSE b

LEMMA FreshIs ==
    ASSUME NEW c, Sound(c), NEW p, NEW s, Piece(p, s), AtEndWhole(c, p, s), SectorSize >= 3
    PROVE  LET y == Fresh(c, p, s) IN
           /\ y \in BlockSet /\ y.start = Base(p)
           /\ \A i \in y.start .. y.start + BlockSize - 1 :
                  /\ y.buf[i - y.start] = IF p <= i /\ i < p + Length(s) THEN s[i - p] ELSE At(c.data, i)
                  /\ Modified(y, i) \/ y.buf[i - y.start] = At(c.data, i)
           /\ y.mend <= Longer(c.size, p + Length(s))
  <1> DEFINE n == Length(s)
             b == NewBlock(c, p, n)
             x == Save(b, p, s)
             y == Fresh(c, p, s)
  <1>1. /\ c \in CacheSet /\ Length(c.data) <= c.fsize /\ c.fsize <= c.size /\ c.size % SectorSize = 0
        /\ c.data \in Strings /\ Length(c.data) \in Nat /\ c.fsize \in Nat /\ c.size \in Nat
    BY CacheIs DEF Sound
  <1>2. /\ p \in Nat /\ s \in Strings /\ n >= 1 /\ n \in Nat /\ p % SectorSize = 0 /\ (p + n <= c.size \/ n % SectorSize = 0)
        /\ p + n <= Base(p) + BlockSize /\ Base(p) \in Nat /\ Base(p) <= p
    BY BaseIs, StringIs DEF Piece, AtEndWhole
  <1>3. /\ b \in BlockSet /\ b.start = Base(p) /\ b.mstart = Unmodified /\ b.mend = Unmodified
        /\ b.end = IF Base(p) < c.fsize
                   THEN IF Base(p) + BlockSize <= c.fsize THEN Base(p) + BlockSize ELSE c.fsize
                   ELSE p + n
        /\ \A i \in b.start .. b.start + BlockSize - 1 : b.buf[i - b.start] = At(c.data, i)
    <2> HIDE DEF n
    <2> QED  BY <1>2, NewBlockIs
  <1> HIDE DEF b
  <1>4. Saved(b, p, s, n, x)
    <2>1. b.start <= p /\ p + Length(s) <= b.start + BlockSize
      BY <1>2, <1>3
    <2> QED  BY <1>2, <1>3, <2>1, SaveIs
  <1>5. /\ x \in BlockSet /\ x.start = b.start
        /\ \A i \in b.start .. b.start + BlockSize - 1 :
               /\ x.buf[i - b.start] = IF p <= i /\ i < p + n THEN s[i - p] ELSE b.buf[i - b.start]
               /\ x.buf[i - b.start] # b.buf[i - b.start] => Modified(x, i)
    BY <1>4, Zenon DEF Saved
  <1>6. /\ x.mend <= b.mend \/ x.mend <= p + n
        /\ b.end <= x.end /\ (x.end <= b.end \/ x.end <= p + n)
        /\ \/ x.mstart = Unmodified /\ x.end = b.end /\ (n = 0 \/ p + n <= b.end + 1)
           \/ x.mstart # Unmodified /\ x.mend <= x.end
           \/ x.mstart # Unmodified /\ x.mend = p + n /\ (n = 1 \/ p + n <= b.end + 2)
    BY <1>3, <1>4, Zenon DEF Saved
  <1> HIDE DEF x
  <1>7. /\ x.start \in Nat /\ x.start % BlockSize = 0 /\ x.end \in Nat
        /\ x.start <= x.end /\ x.end <= x.start + BlockSize
        /\ x.mstart \in Int /\ x.mend \in Int /\ x.buf \in [0 .. BlockSize - 1 -> Bytes]
        /\ \/ x.mstart = -1 /\ x.mend = -1
           \/ x.start <= x.mstart /\ x.mstart < x.mend /\ x.mend <= x.start + BlockSize
    BY <1>5, BlockIs DEF Unmodified
  <1>8. ASSUME NEW i \in x.start .. x.start + BlockSize - 1
        PROVE  /\ x.buf[i - x.start] = IF p <= i /\ i < p + n THEN s[i - p] ELSE At(c.data, i)
               /\ Modified(x, i) \/ x.buf[i - x.start] = At(c.data, i)
    BY <1>3, <1>5
  <1>9. CASE ~(p + n > c.size)
    <2>1. y = x
      BY <1>9, Zenon DEF Fresh, x, b
    <2>2. x.mend <= Longer(c.size, p + n)
      BY <1>1, <1>2, <1>3, <1>6, <1>7, <1>9 DEF Longer, Unmodified
    <2> QED  BY <1>3, <1>5, <1>8, <1>9, <2>1, <2>2
  <1>10. CASE p + n > c.size
    <2>1. y = [x EXCEPT !.mstart = x.start, !.mend = x.end]
      BY <1>10, Zenon DEF Fresh, x, b
    <2>2. p + n >= c.size + 3 /\ n >= 3
      <3>0. n % SectorSize = 0
        BY <1>1, <1>2, <1>10
      <3>1. c.size + SectorSize <= p + n
        <4>1. (p + n) % SectorSize = 0 /\ p + n \in Nat
          BY <1>2, <3>0, WholeSectors
        <4> DEFINE z == p + n
        <4> HIDE DEF z
        <4>2. z \in Nat /\ z % SectorSize = 0 /\ c.size < z
          BY <1>1, <1>2, <1>10, <4>1 DEF z
        <4>3. c.size + SectorSize <= z
          BY <1>1, <4>2, WholeSectors
        <4> QED  BY <4>3 DEF z
      <3>2. 0 + SectorSize <= n
        <4>1. 0 % SectorSize = 0
          BY BlockWriteStreamAssumption
        <4> HIDE DEF n
        <4> QED  BY <1>2, <3>0, <4>1, WholeSectors
      <3> QED  BY <1>1, <1>2, <3>1, <3>2, BlockWriteStreamAssumption
    <2>3. b.end = p + n \/ (b.end <= c.size /\ b.end \in Nat)
      BY <1>1, <1>2, <1>3, <1>10, BlockWriteStreamAssumption
    <2>4. x.mend <= x.end /\ x.end <= p + n /\ x.start < x.end
      <3> DEFINE z == p + n
      <3>1. /\ z \in Nat /\ z >= c.size + 3 /\ n >= 3 /\ c.size \in Nat /\ x.start < z
            /\ b.end \in Nat /\ (b.end = z \/ b.end <= c.size)
        BY <1>1, <1>2, <1>3, <1>5, <2>2, <2>3
      <3>2. /\ b.end <= x.end /\ (x.end <= b.end \/ x.end <= z)
            /\ \/ x.mstart = -1 /\ x.end = b.end /\ (n = 0 \/ z <= b.end + 1)
               \/ x.mstart # -1 /\ x.mend <= x.end
               \/ x.mstart # -1 /\ x.mend = z /\ (n = 1 \/ z <= b.end + 2)
        BY <1>6 DEF Unmodified
      <3>3. /\ x.start \in Nat /\ x.end \in Nat /\ x.mstart \in Int /\ x.mend \in Int
            /\ \/ x.mstart = -1 /\ x.mend = -1
               \/ x.start <= x.mstart /\ x.mstart < x.mend
        BY <1>7
      <3> HIDE DEF z, n
      <3>4. x.mend <= x.end /\ x.end <= z /\ x.start < x.end
        BY <3>1, <3>2, <3>3
      <3> QED  BY <3>4 DEF z
    <2> HIDE DEF y
    <2>5. /\ y \in BlockSet /\ y.start = x.start /\ y.mstart = x.start /\ y.mend = x.end /\ y.buf = x.buf
      <3> DEFINE a == x.start
                 e == x.end
      <3>1. a \in Int /\ e \in Int /\ x.start <= a /\ a < e /\ e <= x.start + BlockSize
        BY <1>7, <2>4
      <3> HIDE DEF a, e
      <3>2. y = [x EXCEPT !.mstart = a, !.mend = e]
        BY <2>1 DEF a, e
      <3>3. y \in BlockSet /\ y.start = x.start /\ y.mstart = a /\ y.mend = e /\ y.buf = x.buf
        BY <1>5, <3>1, <3>2 DEF BlockSet
      <3> QED  BY <3>3 DEF a, e
    <2>6. ASSUME NEW i \in y.start .. y.start + BlockSize - 1
          PROVE  Modified(x, i) => Modified(y, i)
      BY <1>7, <2>4, <2>5, <2>6 DEF Modified
    <2>7. \A i \in y.start .. y.start + BlockSize - 1 :
             /\ y.buf[i - y.start] = IF p <= i /\ i < p + n THEN s[i - p] ELSE At(c.data, i)
             /\ Modified(y, i) \/ y.buf[i - y.start] = At(c.data, i)
      BY <1>8, <2>5, <2>6
    <2>8. y.mend <= Longer(c.size, p + n)
      <3>1. Longer(c.size, p + n) = p + n
        BY <1>1, <1>2, <1>10 DEF Longer
      <3> QED  BY <2>4, <2>5, <3>1
    <2> QED  BY <1>3, <1>5, <2>5, <2>7, <2>8 DEF y
  <1> QED  BY <1>9, <1>10

LEMMA WriteToNewIs ==
    ASSUME NEW c, Sound(c), c.fpos <= c.size, Counted(c), NEW p, NEW s, Piece(p, s), AtEndWhole(c, p, s), Hits(c, p) = {},
           SectorSize >= 3
    PROVE  PieceWritten(c, p, s, WriteToNew(c, p, s))
  <1> DEFINE n == Length(s)
             z == Longer(c.size, p + n)
             r == MakeRoom(c)
             e == Sized(r)
             f == BlockRead(e, p)
             y == Fresh(e, p, s)
             t == e.blocks
             u == <<y>> \o t
             m == IF e.count + 1 <= BlockCount THEN e.count + 1 ELSE BlockCount
             d == WriteToNew(c, p, s)
  <1>1. /\ c \in CacheSet /\ c.fsize <= c.size /\ c.size % SectorSize = 0 /\ c.size \in Nat
        /\ Apart(c.blocks)
    BY CacheIs DEF Sound
  <1>2. /\ p \in Nat /\ s \in Strings /\ n >= 1 /\ n \in Nat /\ p % SectorSize = 0 /\ (p + n <= c.size \/ n % SectorSize = 0)
        /\ p + n <= Base(p) + BlockSize
    BY StringIs DEF Piece, AtEndWhole
  <1>3. /\ Sound(r) /\ r.size = c.size
        /\ \A i \in Nat : ByteAt(r, i) = ByteAt(c, i)
        /\ r.fpos <= c.size
        /\ Len(r.blocks) + 1 <= r.count + 1
        /\ r.count + 1 > BlockCount => Len(r.blocks) + 1 <= BlockCount
        /\ Len(r.blocks) + 1 <= 2 \/ Len(r.blocks) + 1 <= BlockCount - 1
        /\ \A x \in Range(r.blocks) : x \in Range(c.blocks)
    BY MakeRoomIs
  <1> HIDE DEF r
  <1>4. /\ Sound(e) /\ e.size = c.size /\ e.count = r.count
        /\ e.blocks = r.blocks /\ e.fpos = r.fpos
        /\ \A i \in Nat : ByteAt(e, i) = ByteAt(r, i)
    BY <1>3, SizedIs
  <1> HIDE DEF e
  <1>5. /\ f \in CacheSet /\ f.data = e.data /\ f.fsize = e.fsize /\ f.size = e.size
        /\ f.blocks = e.blocks /\ f.count = e.count /\ f.fpos <= e.size
    BY <1>2, <1>3, <1>4, BlockReadIs
  <1> HIDE DEF f
  <1>6. /\ y \in BlockSet /\ y.start = Base(p)
        /\ \A i \in y.start .. y.start + BlockSize - 1 :
               /\ y.buf[i - y.start] = IF p <= i /\ i < p + Length(s) THEN s[i - p] ELSE At(e.data, i)
               /\ Modified(y, i) \/ y.buf[i - y.start] = At(e.data, i)
        /\ y.mend <= Longer(e.size, p + Length(s))
    BY <1>3, <1>4, FreshIs DEF AtEndWhole
  <1>7. /\ e \in CacheSet /\ Apart(t) /\ t \in Seq(BlockSet) /\ Len(t) \in Nat /\ e.count \in Nat /\ e.size \in Nat
    BY <1>4, CacheIs DEF Sound
  <1>8. \A x \in Range(t) : x \in Range(e.blocks) /\ x.start # y.start
    <2>1. \A x \in Range(c.blocks) : x.start # Base(p)
      BY <1>1, <1>2, ByteAtIs
    <2> QED  BY <1>3, <1>4, <1>6, <2>1
  <1>9. /\ z \in Nat /\ z % SectorSize = 0 /\ c.size <= z /\ p + n <= z
        /\ (z = c.size \/ (z = p + n /\ c.size < p + n))
    <2>1. p + n \in Nat /\ (p + n <= c.size \/ (p + n) % SectorSize = 0)
      BY <1>2, WholeSectors
    <2> DEFINE h == p + n
    <2> HIDE DEF h, n
    <2>2. h \in Nat /\ (h <= c.size \/ h % SectorSize = 0) /\ z = IF c.size >= h THEN c.size ELSE h
      BY <2>1 DEF h, Longer
    <2> HIDE DEF z
    <2>3. z \in Nat /\ z % SectorSize = 0 /\ c.size <= z /\ h <= z
          /\ (z = c.size \/ (z = h /\ c.size < h))
      BY <1>1, <2>2
    <2> QED  BY <2>3 DEF h
  <1>10. m \in Nat /\ Min({e.count + 1, BlockCount}) = m
    BY <1>7, SmallerOf, BlockWriteStreamAssumption
  <1>11. d = [f EXCEPT !.blocks = u, !.count = m, !.size = z]
    <2>1. d = [f EXCEPT !.blocks = u, !.count = Min({f.count + 1, BlockCount}),
                        !.size = Max({f.size, p + n})]
      BY Zenon DEF WriteToNew, Fresh, f, e, r
    <2>2. Max({f.size, p + n}) = z
      <3>1. f.size = c.size
        BY <1>4, <1>5
      <3>2. Max({c.size, p + n}) = z
        BY <1>1, <1>2, LargerOf DEF Longer
      <3> QED  BY <3>1, <3>2, Zenon
    <2>3. Min({f.count + 1, BlockCount}) = m
      BY <1>5, <1>10, Zenon
    <2> QED  BY <2>1, <2>2, <2>3, Zenon
  <1> HIDE DEF y, t
  <1>12. u \in Seq(BlockSet)
    <2>1. \A x \in Range(t) : x.start # y.start
      BY <1>8
    <2> QED  BY <1>6, <1>7, <2>1, OneMore, Zenon
  <1> HIDE DEF d, u, z, m
  <1>13. /\ d \in CacheSet /\ d.data = e.data /\ d.fsize = e.fsize /\ d.fpos = f.fpos /\ d.size = z
         /\ d.blocks = u /\ d.count = m
    BY <1>5, <1>9, <1>10, <1>11, <1>12 DEF CacheSet
  <1>14. ASSUME NEW i \in y.start .. y.start + BlockSize - 1
         PROVE  ByteAt(e, i) = At(e.data, i)
    <2>1. y.start \in Nat
      BY <1>6, BlockIs
    <2>2. i \in Nat /\ y.start <= i /\ i < y.start + BlockSize
      BY <2>1, BlockWriteStreamAssumption
    <2>3. Base(i) = y.start
      BY <1>6, <2>1, <2>2, BaseOf, BlockIs
    <2>4. \A x \in Range(e.blocks) : x.start # Base(i)
      BY <1>8, <2>3 DEF t
    <2>5. Apart(e.blocks)
      BY <1>7 DEF t
    <2> QED  BY <1>7, <2>2, <2>4, <2>5, ByteAtIs
  <1>15. InFront(e, d, p, s, y, t)
    <2>1. y.start = Base(p) /\ p + Length(s) <= y.start + BlockSize
      BY <1>2, <1>6
    <2>2. \A b \in Range(e.blocks) : b \in Range(t) \/ b.start = y.start
      BY DEF t
    <2>3. \A i \in y.start .. y.start + BlockSize - 1 :
               /\ y.buf[i - y.start] = IF p <= i /\ i < p + Length(s) THEN s[i - p] ELSE ByteAt(e, i)
               /\ Modified(y, i) \/ y.buf[i - y.start] = At(e.data, i)
      BY <1>6, <1>14
    <2>4. y.mend <= d.size /\ e.size <= d.size /\ d.size % SectorSize = 0
      BY <1>4, <1>6, <1>9, <1>13 DEF z
    <2>5. d.blocks = <<y>> \o t
      BY <1>13 DEF u
    <2> QED  BY <1>7, <1>8, <1>13, <2>1, <2>2, <2>3, <2>4, <2>5, Zenon DEF InFront
  <1>16. /\ Sound(d) /\ Len(d.blocks) = Len(t) + 1
         /\ \A i \in Nat : ByteAt(d, i) = IF p <= i /\ i < p + Length(s) THEN s[i - p]
                                          ELSE ByteAt(e, i)
    BY <1>2, <1>4, <1>6, <1>7, <1>13, <1>15, FrontIs
  <1>17. Counted(d)
    <2>1. /\ Len(t) + 1 <= e.count + 1 /\ (e.count + 1 > BlockCount => Len(t) + 1 <= BlockCount)
          /\ Len(t) + 1 <= 2 \/ Len(t) + 1 <= BlockCount - 1
      BY <1>3, <1>4 DEF t
    <2>2. Len(t) + 1 <= m
      BY <1>7, <2>1, BlockWriteStreamAssumption DEF m
    <2> QED  BY <1>13, <1>16, <2>1, <2>2 DEF Counted
  <1>18. d.fpos <= d.size
    <2>1. f.fpos \in Nat
      BY <1>5, CacheIs
    <2> QED  BY <1>1, <1>4, <1>5, <1>9, <1>13, <2>1
  <1>19. d.size = IF c.size >= p + Length(s) THEN c.size ELSE p + Length(s)
    BY <1>13 DEF z, Longer
  <1>22. \A i \in Nat : ByteAt(d, i) = IF p <= i /\ i < p + Length(s) THEN s[i - p] ELSE ByteAt(c, i)
    BY <1>3, <1>4, <1>16
  <1>23. PieceWritten(c, p, s, d)
    BY <1>16, <1>17, <1>18, <1>19, <1>22, Zenon DEF PieceWritten
  <1> QED  BY <1>23 DEF d

LEMMA WriteToCacheIs ==
    ASSUME NEW c, Sound(c), c.fpos <= c.size, Counted(c), NEW p, NEW s, Piece(p, s), AtEndWhole(c, p, s), SectorSize >= 3
    PROVE  PieceWritten(c, p, s, WriteToCache(c, p, s))
  <1>1. CASE Hits(c, p) = {}
    BY <1>1, WriteToNewIs DEF WriteToCache
  <1>2. CASE Hits(c, p) # {}
    BY <1>2, WriteToFoundIs DEF WriteToCache
  <1> QED  BY <1>1, <1>2

-----------------------------------------------------------------------------
(* The pieces of a read or a write. *)

\* Where n bytes at p are cut into m pieces.
Cuts(p, n, m, cut) ==
    /\ m \in Nat /\ cut \in [0 .. m -> Nat] /\ cut[0] = p /\ cut[m] = p + n
    /\ \A k \in 1 .. m :
           /\ Pieces(p, n)[k] = [at |-> cut[k - 1], len |-> cut[k] - cut[k - 1]]
           /\ p <= cut[k - 1] /\ cut[k - 1] < cut[k] /\ cut[k] <= p + n
           /\ cut[k] <= Base(cut[k - 1]) + BlockSize
    /\ DOMAIN Pieces(p, n) = 1 .. m
    /\ p % SectorSize = 0 /\ BlockSize % SectorSize = 0 =>
           \A k \in 0 .. m : (k = m => n % SectorSize = 0) => cut[k] % SectorSize = 0

LEMMA PiecesAre ==
    ASSUME NEW p \in Nat, NEW n \in Nat
    PROVE  \E m, cut : Cuts(p, n, m, cut)
  <1>1. CASE n = 0
    <2> DEFINE cut == [k \in 0 .. 0 |-> p]
    <2>1. DOMAIN Pieces(p, n) = 1 .. 0
      BY <1>1 DEF Pieces
    <2>2. cut \in [0 .. 0 -> Nat] /\ cut[0] = p /\ cut[0] = p + n
      BY <1>1
    <2>3. p % SectorSize = 0 => \A k \in 0 .. 0 : cut[k] % SectorSize = 0
      OBVIOUS
    <2> HIDE DEF cut
    <2>4. 0 \in Nat /\ \A k \in 1 .. 0 : FALSE
      OBVIOUS
    <2>5. Cuts(p, n, 0, cut)
      BY <2>1, <2>2, <2>3, <2>4 DEF Cuts
    <2> QED  BY <2>5
  <1>2. CASE n # 0
    <2> DEFINE first == p \div BlockSize
               last == (p + n - 1) \div BlockSize
               m == last - first + 1
               A(k) == (first + k) * BlockSize
               from(k) == Max({p, k * BlockSize})
               to(k) == Min({p + n, (k + 1) * BlockSize})
               cut == [k \in 0 .. m |-> IF k = 0 THEN p ELSE IF k = m THEN p + n ELSE A(k)]
    <2>1. /\ BlockSize \in Nat /\ BlockSize > 0
          /\ first \in Nat /\ first * BlockSize <= p /\ p < first * BlockSize + BlockSize
          /\ last \in Nat /\ last * BlockSize <= p + n - 1 /\ p + n - 1 < last * BlockSize + BlockSize
          /\ p + n \in Nat /\ p < p + n
      BY <1>2, BlockWriteStreamAssumption
    <2>2. Pieces(p, n) = [i \in 1 .. m |-> [at |-> from(first + i - 1),
                                            len |-> to(first + i - 1) - from(first + i - 1)]]
      BY <1>2, Zenon DEF Pieces
    <2> HIDE DEF first, last
    <2>3. first <= last
      <3> SUFFICES ASSUME last + 1 <= first  PROVE FALSE
        BY <2>1
      <3>1. (last + 1) * BlockSize <= first * BlockSize /\ (last + 1) * BlockSize = last * BlockSize + BlockSize
        BY <2>1
      <3> QED  BY <1>2, <2>1, <3>1
    <2>4. m \in Nat /\ m >= 1 /\ first + m = last + 1
      BY <2>1, <2>3
    <2>5. ASSUME NEW k \in 0 .. m
          PROVE  /\ A(k) \in Nat /\ A(k) % BlockSize = 0 /\ A(k + 1) = A(k) + BlockSize
                 /\ BlockSize % SectorSize = 0 => A(k) % SectorSize = 0
                 /\ k >= 1 => A(k) > p
                 /\ k < m => A(k) < p + n
                 /\ k = m => A(k) >= p + n
      <3> DEFINE j == first + k
      <3>1. j \in Nat /\ first <= j /\ (k >= 1 => first + 1 <= j) /\ (k < m => j <= last)
            /\ (k = m => j = last + 1)
        BY <2>1, <2>4
      <3>2. j + 1 = first + (k + 1)
        BY <2>1, <2>4
      <3> HIDE DEF j, m
      <3>3. j * BlockSize \in Nat /\ (j * BlockSize) % BlockSize = 0
            /\ (j + 1) * BlockSize = j * BlockSize + BlockSize
        BY <2>1, <3>1
      <3>4. BlockSize % SectorSize = 0 => (j * BlockSize) % SectorSize = 0
        <4> SUFFICES ASSUME BlockSize % SectorSize = 0  PROVE (j * BlockSize) % SectorSize = 0
          OBVIOUS
        <4> DEFINE q == BlockSize \div SectorSize
        <4>1. q \in Nat /\ BlockSize = q * SectorSize /\ SectorSize \in Nat /\ SectorSize > 0
          BY BlockWriteStreamAssumption
        <4> HIDE DEF q
        <4>2. j * BlockSize = (j * q) * SectorSize /\ j * q \in Int
          BY <3>1, <4>1
        <4>3. \A x \in Int : (x * SectorSize) % SectorSize = 0
          BY <4>1
        <4> QED  BY <4>2, <4>3
      <3>5. k >= 1 => j * BlockSize > p
        <4> SUFFICES ASSUME first + 1 <= j  PROVE j * BlockSize > p
          BY <3>1
        <4>1. (first + 1) * BlockSize <= j * BlockSize /\ (first + 1) * BlockSize = first * BlockSize + BlockSize
          BY <2>1, <3>1
        <4> QED  BY <2>1, <3>3, <4>1
      <3>6. k < m => j * BlockSize < p + n
        <4> SUFFICES ASSUME j <= last  PROVE j * BlockSize < p + n
          BY <3>1
        <4>1. j * BlockSize <= last * BlockSize
          BY <2>1, <3>1
        <4> QED  BY <2>1, <3>3, <4>1
      <3>7. k = m => j * BlockSize >= p + n
        <4> SUFFICES ASSUME j = last + 1  PROVE j * BlockSize >= p + n
          BY <3>1
        <4>1. (last + 1) * BlockSize = last * BlockSize + BlockSize
          BY <2>1
        <4> QED  BY <2>1, <4>1
      <3> QED  BY <3>2, <3>3, <3>4, <3>5, <3>6, <3>7 DEF j
    <2>6. ASSUME NEW i \in 1 .. m
          PROVE  from(first + i - 1) = cut[i - 1] /\ to(first + i - 1) = cut[i]
      <3>1. /\ first + i - 1 = first + (i - 1) /\ first + i - 1 + 1 = first + i
            /\ i - 1 \in 0 .. m /\ i \in 0 .. m
        BY <2>1, <2>4
      <3>2. from(first + i - 1) = Max({p, A(i - 1)}) /\ to(first + i - 1) = Min({p + n, A(i)})
        BY <3>1, Zenon
      <3>3. /\ A(i - 1) \in Nat /\ A(i) \in Nat /\ A(0) <= p
            /\ i - 1 >= 1 => A(i - 1) > p
            /\ i < m => A(i) < p + n
            /\ i = m => A(i) >= p + n
        <4>1. A(0) <= p
          BY <2>1
        <4> QED  BY <2>5, <3>1, <4>1
      <3> HIDE DEF A
      <3>4. Max({p, A(i - 1)}) = IF p >= A(i - 1) THEN p ELSE A(i - 1)
        BY <3>3, LargerOf
      <3>5. Min({p + n, A(i)}) = IF p + n <= A(i) THEN p + n ELSE A(i)
        BY <2>1, <3>3, SmallerOf
      <3>6. cut[i - 1] = (IF i - 1 = 0 THEN p ELSE A(i - 1)) /\ cut[i] = (IF i = m THEN p + n ELSE A(i))
        BY <2>4, <3>1
      <3>7. (IF p >= A(i - 1) THEN p ELSE A(i - 1)) = (IF i - 1 = 0 THEN p ELSE A(i - 1))
        <4> HIDE DEF m
        <4> QED  BY <2>4, <3>3
      <3>8. (IF p + n <= A(i) THEN p + n ELSE A(i)) = (IF i = m THEN p + n ELSE A(i))
        <4> HIDE DEF m
        <4> QED  BY <2>1, <2>4, <3>3
      <3> HIDE DEF from, to, cut
      <3> QED  BY <3>2, <3>4, <3>5, <3>6, <3>7, <3>8
    <2> HIDE DEF from, to
    <2>7. ASSUME NEW k \in 1 .. m
          PROVE  /\ Pieces(p, n)[k] = [at |-> cut[k - 1], len |-> cut[k] - cut[k - 1]]
                 /\ p <= cut[k - 1] /\ cut[k - 1] < cut[k] /\ cut[k] <= p + n
                 /\ cut[k] <= Base(cut[k - 1]) + BlockSize
      <3>1. k - 1 \in 0 .. m /\ k \in 0 .. m /\ (k - 1) + 1 = k
        BY <2>4
      <3>2. Pieces(p, n)[k] = [at |-> cut[k - 1], len |-> cut[k] - cut[k - 1]]
        <4> HIDE DEF cut
        <4> QED  BY <2>2, <2>6
      <3>3. /\ A(k - 1) \in Nat /\ A(k - 1) % BlockSize = 0 /\ A(k) = A(k - 1) + BlockSize
            /\ k - 1 >= 1 => A(k - 1) > p
            /\ A(k - 1) < p + n /\ A(k) > p
            /\ k = m => A(k) >= p + n
            /\ k < m => A(k) < p + n
        <4>1. k - 1 < m /\ k >= 1
          BY <2>4
        <4> HIDE DEF A, m
        <4> QED  BY <2>5, <3>1, <4>1
      <3>4. cut[k - 1] = (IF k - 1 = 0 THEN p ELSE A(k - 1)) /\ cut[k] = (IF k = m THEN p + n ELSE A(k))
        BY <2>4, <3>1
      <3>5. k - 1 = 0 => A(k - 1) = Base(p)
        <4>1. Base(p) = first * BlockSize
          BY DEF Base, first
        <4>2. first + 0 = first
          BY <2>1
        <4>3. A(0) = Base(p)
          BY <4>1, <4>2, Zenon
        <4> QED  BY <4>3, Zenon
      <3>6. k - 1 # 0 => Base(A(k - 1)) = A(k - 1)
        <4>1. A(k - 1) < A(k - 1) + BlockSize
          BY <2>1, <3>3
        <4> HIDE DEF A
        <4> QED  BY <3>3, <4>1, BaseOf
      <3> HIDE DEF A, cut, m
      <3>7. Base(p) \in Nat /\ Base(p) <= p
        BY BaseIs
      <3>8. p <= cut[k - 1] /\ cut[k - 1] < cut[k] /\ cut[k] <= p + n
        BY <2>1, <2>4, <3>3, <3>4
      <3>9. cut[k] <= Base(cut[k - 1]) + BlockSize
        <4>1. cut[k] <= A(k)
          BY <2>1, <2>4, <3>3, <3>4
        <4>2. A(k - 1) = Base(cut[k - 1])
          BY <3>4, <3>5, <3>6
        <4> QED  BY <3>3, <4>1, <4>2
      <3> QED  BY <3>2, <3>8, <3>9
    <2>8. ASSUME p % SectorSize = 0, BlockSize % SectorSize = 0, NEW k \in 0 .. m,
                 k = m => n % SectorSize = 0
          PROVE  cut[k] % SectorSize = 0
      <3>1. cut[k] = IF k = 0 THEN p ELSE IF k = m THEN p + n ELSE A(k)
        OBVIOUS
      <3>2. k = m => (p + n) % SectorSize = 0
        BY <2>8, WholeSectors
      <3>3. A(k) % SectorSize = 0
        <4> HIDE DEF A, m
        <4> QED  BY <2>5, <2>8
      <3> HIDE DEF A, cut, m
      <3> QED  BY <2>8, <3>1, <3>2, <3>3
    <2>9. cut \in [0 .. m -> Nat] /\ cut[0] = p /\ cut[m] = p + n
      <3>1. \A k \in 0 .. m : A(k) \in Nat
        BY <2>5
      <3>2. 0 \in 0 .. m /\ m \in 0 .. m /\ m # 0
        BY <2>4
      <3> HIDE DEF A, m
      <3> QED  BY <2>1, <3>1, <3>2
    <2>10. DOMAIN Pieces(p, n) = 1 .. m
      BY <2>2
    <2> HIDE DEF cut, m
    <2>11. Cuts(p, n, m, cut)
      BY <2>4, <2>7, <2>8, <2>9, <2>10 DEF Cuts
    <2> QED  BY <2>11
  <1> QED  BY <1>1, <1>2

-----------------------------------------------------------------------------
(* The operations. *)

\* Streams between two operations on a block.
Streams == {c \in CacheSet : Sound(c) /\ c.fpos <= c.size /\ Counted(c)}

\* What a Write of s at p makes of the stream.
AfterWrite(c, p, s) ==
    FoldLeft(LAMBDA d, w : WriteToCache(d, w.at, Slice(s, w.at - p, w.len)), c, Pieces(p, Length(s)))

\* A word, piece for piece.
LEMMA WriteRuns ==
    ASSUME NEW c \in Streams, NEW p \in Nat, NEW s \in Strings, NEW m, NEW cut, Cuts(p, Length(s), m, cut),
           p % SectorSize = 0, AtEndWhole(c, p, s), BlockSize % SectorSize = 0, SectorSize >= 3
    PROVE  \E r : /\ r[0] = c
                  /\ r[m] = AfterWrite(c, p, s)
                  /\ \A k \in 0 .. m : r[k] \in Streams
                  /\ \A k \in 1 .. m :
                         /\ Piece(cut[k - 1], Slice(s, cut[k - 1] - p, cut[k] - cut[k - 1]))
                         /\ AtEndWhole(r[k - 1], cut[k - 1], Slice(s, cut[k - 1] - p, cut[k] - cut[k - 1]))
                         /\ r[k] = WriteToCache(r[k - 1], cut[k - 1],
                                                Slice(s, cut[k - 1] - p, cut[k] - cut[k - 1]))
  <1> DEFINE q == Pieces(p, Length(s))
             part(k) == Slice(s, cut[k - 1] - p, cut[k] - cut[k - 1])
             Step(d, k) == WriteToCache(d, q[k].at, Slice(s, q[k].at - p, q[k].len))
             it == CHOOSE f : f = [S \in SUBSET (1 .. m) |->
                                      IF S = {} THEN c ELSE Step(f[S \ {Max(S)}], Max(S))]
             X == {d \in Streams : c.size <= d.size}
             G == [k \in 1 .. m |-> [d \in X |-> Step(d, k)]]
  <1>0. c \in X /\ Length(s) \in Nat
    BY CacheIs, StringIs DEF Streams
  <1>1. /\ m \in Nat /\ cut \in [0 .. m -> Nat] /\ cut[0] = p /\ cut[m] = p + Length(s)
        /\ \A k \in 1 .. m :
               /\ q[k] = [at |-> cut[k - 1], len |-> cut[k] - cut[k - 1]]
               /\ p <= cut[k - 1] /\ cut[k - 1] < cut[k] /\ cut[k] <= p + Length(s)
               /\ cut[k] <= Base(cut[k - 1]) + BlockSize
        /\ DOMAIN q = 1 .. m
        /\ \A k \in 0 .. m : (k = m => Length(s) % SectorSize = 0) => cut[k] % SectorSize = 0
    BY Zenon DEF Cuts
  <1> HIDE DEF q
  <1>2. ASSUME NEW k \in 1 .. m
        PROVE  /\ Piece(cut[k - 1], part(k))
               /\ \A d \in X : AtEndWhole(d, cut[k - 1], part(k))
               /\ \A d : Step(d, k) = WriteToCache(d, cut[k - 1], part(k))
    <2>1. \A d : Step(d, k) = WriteToCache(d, cut[k - 1], part(k))
      <3>1. q[k].at = cut[k - 1] /\ q[k].len = cut[k] - cut[k - 1]
        BY <1>1
      <3> QED  BY <3>1, Zenon
    <2>2. k - 1 \in 0 .. m /\ k \in 0 .. m
      BY <1>1
    <2> DEFINE a == cut[k - 1]
               b == cut[k]
    <2>3. /\ a \in Nat /\ b \in Nat /\ p <= a /\ a < b /\ b <= p + Length(s) /\ b <= Base(a) + BlockSize
          /\ a % SectorSize = 0
          /\ b % SectorSize = 0 \/ (b = p + Length(s) /\ ~(Length(s) % SectorSize = 0))
      BY <1>1, <2>2
    <2> HIDE DEF a, b
    <2>4. Slice(s, a - p, b - a) \in Strings /\ Length(Slice(s, a - p, b - a)) = b - a
      <3>1. Length(s) \in Nat
        BY StringIs
      <3>2. a - p \in Nat /\ b - a \in Int
        BY <2>3
      <3> DEFINE x == a - p
                 n == b - a
      <3>3. ~(n <= 0) /\ ~(Length(s) <= x) /\ x + n <= Length(s)
        BY <2>3, <3>1
      <3> HIDE DEF x, n
      <3>4. Slice(s, x, n) \in Strings /\ Length(Slice(s, x, n)) = n
        <4>1. x \in Nat /\ n \in Int
          BY <3>2 DEF x, n
        <4> QED  BY <3>3, <4>1, SliceIs
      <3> QED  BY <3>4 DEF x, n
    <2>5. ASSUME NEW d \in X  PROVE AtEndWhole(d, a, Slice(s, a - p, b - a))
      <3>1. CASE b % SectorSize = 0
        <4>1. (b - a) % SectorSize = 0
          BY <2>3, <3>1, WholeSectors
        <4> QED  BY <2>4, <4>1 DEF AtEndWhole
      <3>2. CASE b = p + Length(s) /\ ~(Length(s) % SectorSize = 0)
        <4>1. b <= c.size /\ c.size <= d.size
          BY <3>2 DEF AtEndWhole
        <4>2. c.size \in Nat /\ d.size \in Nat
          BY CacheIs DEF Streams
        <4>3. a + Length(Slice(s, a - p, b - a)) <= d.size
          BY <2>3, <2>4, <4>1, <4>2
        <4> QED  BY <4>3 DEF AtEndWhole
      <3> QED  BY <2>3, <3>1, <3>2
    <2>6. Piece(a, Slice(s, a - p, b - a))
      <3>1. Length(Slice(s, a - p, b - a)) >= 1
        BY <2>3, <2>4
      <3>2. a + Length(Slice(s, a - p, b - a)) <= Base(a) + BlockSize
        BY <2>3, <2>4
      <3> QED  BY <2>3, <2>4, <3>1, <3>2 DEF Piece
    <2> QED  BY <2>1, <2>5, <2>6 DEF a, b
  <1> HIDE DEF part
  <1>3. ASSUME NEW k \in 1 .. m, NEW d \in X  PROVE Step(d, k) \in X
    <2>1. Sound(d) /\ d.fpos <= d.size /\ Counted(d) /\ AtEndWhole(d, cut[k - 1], part(k))
          /\ c.size <= d.size /\ c.size \in Nat /\ d.size \in Nat
      BY <1>2, CacheIs DEF Streams
    <2>2. PieceWritten(d, cut[k - 1], part(k), WriteToCache(d, cut[k - 1], part(k)))
      BY <1>2, <2>1, WriteToCacheIs
    <2>3. \A e : Sound(e) /\ e.fpos <= e.size /\ Counted(e) => e \in Streams
      BY DEF Streams, Sound
    <2> DEFINE e == WriteToCache(d, cut[k - 1], part(k))
               h == cut[k - 1] + Length(part(k))
    <2>4. e \in Streams /\ e.size = (IF d.size >= h THEN d.size ELSE h) /\ e.size \in Nat
      <3> HIDE DEF e
      <3>1. e \in Streams /\ e.size = (IF d.size >= h THEN d.size ELSE h)
        BY <2>2, <2>3 DEF PieceWritten, e
      <3> QED  BY <3>1, CacheIs DEF Streams
    <2> HIDE DEF e, h
    <2>5. c.size <= e.size
      <3>1. CASE d.size >= h
        BY <2>1, <2>4, <3>1
      <3>2. CASE ~(d.size >= h)
        <4>1. h \in Nat
          BY <2>4, <3>2
        <4> QED  BY <2>1, <2>4, <3>2, <4>1
      <3> QED  BY <3>1, <3>2
    <2>6. Step(d, k) = e
      BY <1>2, Zenon DEF e
    <2> HIDE DEF Step
    <2> QED  BY <2>4, <2>5, <2>6
  <1>4. G \in [1 .. m -> [X -> X]]
    BY <1>3
  <1>5. FoldLeft(LAMBDA d, w : WriteToCache(d, w.at, Slice(s, w.at - p, w.len)), c, q) = it[1 .. m]
    BY <1>1, Zenon DEF FoldLeft, MapThenFoldSet
  <1>6. \E f : f = [S \in SUBSET (1 .. m) |->
                       IF S = {} THEN c ELSE Step(f[S \ {Max(S)}], Max(S))]
    <2> HIDE DEF G, Step
    <2>1. PICK f : FoldsOver(f, X, c, m, G)
      BY <1>0, <1>1, <1>4, FoldExists, Zenon
    <2>2. ASSUME NEW S \in SUBSET (1 .. m), S # {}
          PROVE  G[Max(S)][f[S \ {Max(S)}]] = Step(f[S \ {Max(S)}], Max(S))
      <3>1. Max(S) \in 1 .. m /\ f[S \ {Max(S)}] \in X
        BY <1>1, <2>1, <2>2, LargestIn DEF FoldsOver
      <3> QED BY <3>1 DEF G
    <2>3. [S \in SUBSET (1 .. m) |->
              IF S = {} THEN c ELSE G[Max(S)][f[S \ {Max(S)}]]]
          = [S \in SUBSET (1 .. m) |-> IF S = {} THEN c ELSE Step(f[S \ {Max(S)}], Max(S))]
      BY <2>2, Zenon
    <2>4. f = [S \in SUBSET (1 .. m) |-> IF S = {} THEN c ELSE Step(f[S \ {Max(S)}], Max(S))]
      BY <2>1, <2>3, Zenon DEF FoldsOver
    <2> QED BY <2>4, Zenon
  <1>7. it = [S \in SUBSET (1 .. m) |-> IF S = {} THEN c ELSE Step(it[S \ {Max(S)}], Max(S))]
    BY <1>6, Zenon
  <1> DEFINE r == [k \in 0 .. m |-> it[1 .. k]]
  <1> HIDE DEF it, Step
  <1>8. r[0] = c /\ r[m] = it[1 .. m]
    <2>1. 1 .. 0 = {} /\ {} \in SUBSET (1 .. m) /\ 0 \in 0 .. m /\ m \in 0 .. m
      BY <1>1
    <2>2. it[{}] = c
      BY <1>7, <2>1, Zenon
    <2> QED  BY <2>1, <2>2, Zenon
  <1>9. ASSUME NEW k \in 1 .. m  PROVE r[k] = Step(r[k - 1], k)
    <2>1. k \in 0 .. m /\ k - 1 \in 0 .. m
      BY <1>1
    <2>2. /\ 1 .. k \in SUBSET (1 .. m) /\ 1 .. k # {} /\ Max(1 .. k) = k
          /\ (1 .. k) \ {k} = 1 .. k - 1
      BY <1>1, FoldPlaces
    <2>3. it[1 .. k] = IF 1 .. k = {} THEN c
                       ELSE Step(it[(1 .. k) \ {Max(1 .. k)}], Max(1 .. k))
      BY <1>7, <2>2, Zenon
    <2>4. it[1 .. k] = Step(it[1 .. k - 1], k)
      BY <2>2, <2>3, Zenon
    <2> QED  BY <2>1, <2>4
  <1> HIDE DEF r
  <1>10. \A k \in 0 .. m : r[k] \in X
    <2> DEFINE P == [k \in 0 .. m |-> X]
    <2>1. r[0] \in P[0]
      BY <1>0, <1>1, <1>8
    <2>2. ASSUME NEW k \in 1 .. m, r[k - 1] \in P[k - 1]  PROVE r[k] \in P[k]
      <3>1. k \in 0 .. m /\ k - 1 \in 0 .. m
        BY <1>1
      <3> QED  BY <1>3, <1>9, <2>2, <3>1
    <2> HIDE DEF P
    <2>3. \A k \in 0 .. m : r[k] \in P[k]
      BY <1>1, <2>1, <2>2, FoldKeeps
    <2> QED  BY <2>3 DEF P
  <1>11. \A k \in 1 .. m : /\ Piece(cut[k - 1], part(k)) /\ AtEndWhole(r[k - 1], cut[k - 1], part(k))
                           /\ r[k] = WriteToCache(r[k - 1], cut[k - 1], part(k))
    <2>1. \A k \in 1 .. m : k - 1 \in 0 .. m
      BY <1>1
    <2> HIDE DEF X
    <2> QED  BY <1>2, <1>9, <1>10, <2>1
  <1>12. r[m] = AfterWrite(c, p, s)
    BY <1>5, <1>8, Zenon DEF q, AfterWrite
  <1>13. \A k \in 0 .. m : r[k] \in Streams
    BY <1>10
  <1> QED  BY <1>8, <1>11, <1>12, <1>13, Zenon DEF part

LEMMA WriteIs ==
    ASSUME NEW c \in Streams, NEW p \in Nat, NEW s \in Strings, p <= c.size,
           Length(s) >= 1,
           p % SectorSize = 0, AtEndWhole(c, p, s), BlockSize % SectorSize = 0, SectorSize >= 3
    PROVE  LET d == AfterWrite(c, p, s) IN
           /\ d \in Streams /\ d.size = Longer(c.size, p + Length(s))
           /\ \A i \in Nat : ByteAt(d, i) = IF p <= i /\ i < p + Length(s) THEN s[i - p]
                                            ELSE ByteAt(c, i)
  <1> DEFINE n == Length(s)
             d == AfterWrite(c, p, s)
  <1>1. n \in Nat /\ n >= 1 /\ c \in CacheSet /\ c.size \in Nat
    BY StringIs, CacheIs DEF Streams
  <1>2. PICK m, cut : Cuts(p, n, m, cut)
    BY <1>1, PiecesAre
  <1> DEFINE part(k) == Slice(s, cut[k - 1] - p, cut[k] - cut[k - 1])
  <1>3. /\ m \in Nat /\ cut \in [0 .. m -> Nat] /\ cut[0] = p /\ cut[m] = p + n
        /\ \A k \in 1 .. m : p <= cut[k - 1] /\ cut[k - 1] < cut[k] /\ cut[k] <= p + n
    BY <1>2, Zenon DEF Cuts
  <1>4. PICK r : /\ r[0] = c
                 /\ r[m] = d
                 /\ \A k \in 0 .. m : r[k] \in Streams
                 /\ \A k \in 1 .. m :
                        /\ Piece(cut[k - 1], part(k)) /\ AtEndWhole(r[k - 1], cut[k - 1], part(k))
                        /\ r[k] = WriteToCache(r[k - 1], cut[k - 1], part(k))
    <2>1. Cuts(p, Length(s), m, cut)
      BY <1>2
    <2> HIDE DEF n, d
    <2>2. \E r : /\ r[0] = c
                 /\ r[m] = AfterWrite(c, p, s)
                 /\ \A k \in 0 .. m : r[k] \in Streams
                 /\ \A k \in 1 .. m :
                        /\ Piece(cut[k - 1], part(k)) /\ AtEndWhole(r[k - 1], cut[k - 1], part(k))
                        /\ r[k] = WriteToCache(r[k - 1], cut[k - 1], part(k))
      BY <2>1, WriteRuns
    <2> QED  BY <2>2 DEF d
  <1> HIDE DEF d
  <1>5. ASSUME NEW k \in 1 .. m
        PROVE  /\ Length(part(k)) = cut[k] - cut[k - 1]
               /\ \A j \in 0 .. cut[k] - cut[k - 1] - 1 : part(k)[j] = s[cut[k - 1] - p + j]
               /\ cut[k - 1] \in Nat /\ cut[k] \in Nat
    <2>1. k - 1 \in 0 .. m /\ k \in 0 .. m
      BY <1>3
    <2> DEFINE a == cut[k - 1]
               b == cut[k]
               x == a - p
               l == b - a
    <2>2. a \in Nat /\ b \in Nat /\ p <= a /\ a < b /\ b <= p + n
      BY <1>3, <2>1
    <2> HIDE DEF a, b
    <2>3. x \in Nat /\ l \in Int /\ ~(l <= 0) /\ ~(n <= x) /\ x + l <= n
      BY <1>1, <2>2
    <2> HIDE DEF x, l
    <2>4. /\ Length(Slice(s, x, l)) = IF l <= 0 \/ n <= x THEN 0
                                      ELSE IF x + l <= n THEN l ELSE n - x
          /\ \A j \in 0 .. Length(Slice(s, x, l)) - 1 : Slice(s, x, l)[j] = At(s, x + j)
      BY <2>3, SliceIs
    <2>5. Length(Slice(s, x, l)) = l
      BY <2>3, <2>4
    <2>6. \A j \in 0 .. l - 1 : Slice(s, x, l)[j] = s[x + j]
      <3> SUFFICES ASSUME NEW j \in 0 .. l - 1  PROVE Slice(s, x, l)[j] = s[x + j]
        OBVIOUS
      <3>1. x + j \in Nat /\ x + j < n
        BY <1>1, <2>3
      <3>2. At(s, x + j) = s[x + j]
        BY <3>1, AtIs
      <3> QED  BY <2>4, <2>5, <3>2
    <2>7. Slice(s, x, l) = part(k)
      BY DEF x, l, a, b
    <2> QED  BY <2>2, <2>5, <2>6, <2>7 DEF x, l, a, b
  <1>6. ASSUME NEW k \in 1 .. m
        PROVE  PieceWritten(r[k - 1], cut[k - 1], part(k), r[k])
    <2>1. k - 1 \in 0 .. m
      BY <1>3
    <2>2. Sound(r[k - 1]) /\ r[k - 1].fpos <= r[k - 1].size /\ Counted(r[k - 1])
      BY <1>4, <2>1 DEF Streams
    <2> HIDE DEF part
    <2> QED  BY <1>4, <2>2, WriteToCacheIs
  <1> HIDE DEF part
  <1>7. ASSUME NEW k \in 1 .. m
        PROVE  /\ r[k].size = IF r[k - 1].size >= cut[k] THEN r[k - 1].size ELSE cut[k]
               /\ \A i \in Nat : ByteAt(r[k], i) = IF cut[k - 1] <= i /\ i < cut[k] THEN s[i - p]
                                                   ELSE ByteAt(r[k - 1], i)
    <2> DEFINE a == cut[k - 1]
               b == cut[k]
               w == part(k)
    <2>1. /\ r[k].size = IF r[k - 1].size >= a + Length(w) THEN r[k - 1].size ELSE a + Length(w)
          /\ \A i \in Nat : ByteAt(r[k], i) = IF a <= i /\ i < a + Length(w) THEN w[i - a]
                                              ELSE ByteAt(r[k - 1], i)
      BY <1>6 DEF PieceWritten
    <2>2. /\ a \in Nat /\ b \in Nat /\ Length(w) = b - a /\ p <= a /\ a < b
          /\ \A j \in 0 .. b - a - 1 : w[j] = s[a - p + j]
          /\ k = m => b = p + n
      BY <1>3, <1>5
    <2> HIDE DEF a, b, w
    <2>3. a + Length(w) = b
      BY <2>2
    <2>4. ASSUME NEW i \in Nat, a <= i, i < b  PROVE w[i - a] = s[i - p]
      <3>1. i - a \in 0 .. b - a - 1 /\ a - p + (i - a) = i - p
        BY <2>2, <2>4
      <3> QED  BY <2>2, <3>1
    <2>5. \A i \in Nat : ByteAt(r[k], i) = IF a <= i /\ i < b THEN s[i - p] ELSE ByteAt(r[k - 1], i)
      BY <2>1, <2>3, <2>4
    <2>7. r[k].size = IF r[k - 1].size >= b THEN r[k - 1].size ELSE b
      BY <2>1, <2>3
    <2> QED  BY <2>5, <2>7 DEF a, b
  <1> DEFINE P == [k \in 0 .. m |->
                      {x \in Streams :
                          /\ x.size = Longer(c.size, cut[k])
                          /\ \A i \in Nat : ByteAt(x, i) = IF p <= i /\ i < cut[k] THEN s[i - p]
                                                           ELSE ByteAt(c, i)}]
  <1>8. r[0] \in P[0]
    <2>1. 0 \in 0 .. m /\ c.size = Longer(c.size, p)
      BY <1>1, <1>3 DEF Longer
    <2>2. \A i \in Nat : ~(p <= i /\ i < p)
      OBVIOUS
    <2>3. r[0] = c /\ cut[0] = p /\ r[0] \in Streams
      BY <1>3, <1>4
    <2> QED  BY <2>1, <2>2, <2>3
  <1>9. ASSUME NEW k \in 1 .. m, r[k - 1] \in P[k - 1]  PROVE r[k] \in P[k]
    <2>1. k \in 0 .. m /\ k - 1 \in 0 .. m
      BY <1>3
    <2> DEFINE x == r[k - 1]
               y == r[k]
               a == cut[k - 1]
               b == cut[k]
    <2>2. /\ x.size = Longer(c.size, a)
          /\ \A i \in Nat : ByteAt(x, i) = IF p <= i /\ i < a THEN s[i - p] ELSE ByteAt(c, i)
      BY <1>9, <2>1
    <2>3. /\ y.size = IF x.size >= b THEN x.size ELSE b
          /\ \A i \in Nat : ByteAt(y, i) = IF a <= i /\ i < b THEN s[i - p] ELSE ByteAt(x, i)
      BY <1>7
    <2>4. /\ a \in Nat /\ b \in Nat /\ p <= a /\ a < b /\ b <= p + n /\ (k = m => b = p + n)
          /\ y \in Streams
      BY <1>3, <1>4, <2>1
    <2> HIDE DEF x, y, a, b, n, P
    <2>6. y.size = Longer(c.size, b)
      BY <1>1, <2>2, <2>3, <2>4 DEF Longer
    <2>7. \A i \in Nat : ByteAt(y, i) = IF p <= i /\ i < b THEN s[i - p] ELSE ByteAt(c, i)
      <3> SUFFICES ASSUME NEW i \in Nat
                   PROVE  ByteAt(y, i) = IF p <= i /\ i < b THEN s[i - p] ELSE ByteAt(c, i)
        OBVIOUS
      <3>1. ByteAt(y, i) = IF a <= i /\ i < b THEN s[i - p] ELSE ByteAt(x, i)
        BY <2>3
      <3>2. ByteAt(x, i) = IF p <= i /\ i < a THEN s[i - p] ELSE ByteAt(c, i)
        BY <2>2
      <3> QED  BY <2>4, <3>1, <3>2
    <2> QED  BY <2>1, <2>4, <2>6, <2>7 DEF P, y, b
  <1> HIDE DEF P
  <1>10. \A k \in 0 .. m : r[k] \in P[k]
    BY <1>3, <1>8, <1>9, FoldKeeps
  <1>11. d \in P[m] /\ m \in 0 .. m
    BY <1>3, <1>4, <1>10
  <1>12. /\ d \in Streams /\ d.size = Longer(c.size, cut[m])
         /\ \A i \in Nat : ByteAt(d, i) = IF p <= i /\ i < cut[m] THEN s[i - p] ELSE ByteAt(c, i)
    BY <1>11 DEF P
  <1>14. /\ d \in Streams /\ d.size = Longer(c.size, p + n)
         /\ \A i \in Nat : ByteAt(d, i) = IF p <= i /\ i < p + n THEN s[i - p] ELSE ByteAt(c, i)
    BY <1>3, <1>12, Zenon
  <1> QED  BY <1>14, Zenon DEF d

\* Flushing writes what there is to write, and frees as many blocks as it is told.
LEMMA FlushedIs ==
    ASSUME NEW c, Sound(c), NEW n \in 0 .. Len(c.blocks)
    PROVE  LET d == Flushed(c, n) IN
           /\ Sound(d) /\ d.size = c.size /\ d.count = c.count
           /\ Len(d.blocks) = Len(c.blocks) - n
           /\ \A i \in Nat : ByteAt(d, i) = ByteAt(c, i)
           /\ d.fpos <= c.size \/ d.fpos = c.fpos
  <1> DEFINE q == [i \in 1 .. n |-> i]
             X == {d \in CacheSet : Sound(d)}
             Step(d, k) == IF d.blocks = <<>> THEN d ELSE Dropped(d, 1)
             it == CHOOSE f : f = [S \in SUBSET (1 .. n) |->
                                      IF S = {} THEN c ELSE Step(f[S \ {Max(S)}], q[Max(S)])]
             G == [k \in 1 .. n |-> [d \in X |-> Step(d, k)]]
  <1>1. /\ n \in Nat /\ DOMAIN q = 1 .. n /\ c \in X /\ Len(c.blocks) \in Nat /\ n <= Len(c.blocks)
        /\ c.fpos \in Nat /\ c.size \in Nat
    BY CacheIs DEF Sound
  <1>2. ASSUME NEW d \in X, Len(d.blocks) >= 1
        PROVE  LET e == Dropped(d, 1) IN
               /\ e \in X /\ d.blocks # <<>>
               /\ e.size = d.size /\ e.count = d.count /\ Len(e.blocks) = Len(d.blocks) - 1
               /\ \A i \in Nat : ByteAt(e, i) = ByteAt(d, i)
               /\ e.fpos <= d.size \/ e.fpos = d.fpos
    <2>1. Sound(d) /\ d \in CacheSet /\ d.blocks \in Seq(BlockSet) /\ Len(d.blocks) \in Nat
      BY CacheIs
    <2>2. 1 \in DOMAIN d.blocks /\ d.blocks # <<>>
      BY <1>2, <2>1
    <2> DEFINE e == Dropped(d, 1)
    <2>3. /\ Sound(e) /\ e.size = d.size /\ e.count = d.count /\ Len(e.blocks) = Len(d.blocks) - 1
          /\ \A i \in Nat : ByteAt(e, i) = ByteAt(d, i)
          /\ e.fpos <= d.size \/ e.fpos = d.fpos
      BY <2>1, <2>2, DroppedIs
    <2> HIDE DEF e
    <2>4. e \in X
      BY <2>3 DEF Sound
    <2> QED  BY <2>2, <2>3, <2>4 DEF e
  <1>3. ASSUME NEW k \in 1 .. n, NEW d \in X  PROVE Step(d, k) \in X
    <2>1. CASE d.blocks = <<>>
      BY <2>1
    <2>2. CASE d.blocks # <<>>
      <3>1. d.blocks \in Seq(BlockSet)
        BY CacheIs
      <3>2. Len(d.blocks) >= 1
        BY <2>2, <3>1
      <3>3. Dropped(d, 1) \in X
        BY <1>2, <3>2
      <3> QED  BY <2>2, <3>3
    <2> QED  BY <2>1, <2>2
  <1> HIDE DEF X
  <1>4. G \in [1 .. n -> [X -> X]]
    BY <1>3
  <1>5. Flushed(c, n) = it[1 .. n]
    BY <1>1, Zenon DEF Flushed, FoldLeft, MapThenFoldSet
  <1>6. \E f : f = [S \in SUBSET (1 .. n) |->
                       IF S = {} THEN c ELSE Step(f[S \ {Max(S)}], q[Max(S)])]
    <2> HIDE DEF G, Step, q
    <2>1. PICK f : FoldsOver(f, X, c, n, G)
      BY <1>1, <1>4, FoldExists, Zenon
    <2>2. ASSUME NEW S \in SUBSET (1 .. n), S # {}
          PROVE  G[Max(S)][f[S \ {Max(S)}]] = Step(f[S \ {Max(S)}], q[Max(S)])
      <3>1. Max(S) \in 1 .. n /\ f[S \ {Max(S)}] \in X
        BY <1>1, <2>1, <2>2, LargestIn DEF FoldsOver
      <3> QED BY <3>1 DEF G, q, Step
    <2>3. [S \in SUBSET (1 .. n) |->
              IF S = {} THEN c ELSE G[Max(S)][f[S \ {Max(S)}]]]
          = [S \in SUBSET (1 .. n) |-> IF S = {} THEN c ELSE Step(f[S \ {Max(S)}], q[Max(S)])]
      BY <2>2, Zenon
    <2>4. f = [S \in SUBSET (1 .. n) |-> IF S = {} THEN c ELSE Step(f[S \ {Max(S)}], q[Max(S)])]
      BY <2>1, <2>3, Zenon DEF FoldsOver
    <2> QED BY <2>4, Zenon
  <1>7. it = [S \in SUBSET (1 .. n) |-> IF S = {} THEN c ELSE Step(it[S \ {Max(S)}], q[Max(S)])]
    BY <1>6, Zenon
  <1> DEFINE r == [k \in 0 .. n |-> it[1 .. k]]
  <1> HIDE DEF it
  <1>8. r[0] = c /\ r[n] = Flushed(c, n)
    <2>1. 1 .. 0 = {} /\ {} \in SUBSET (1 .. n) /\ 0 \in 0 .. n /\ n \in 0 .. n
      BY <1>1
    <2>2. it[{}] = c
      BY <1>7, <2>1, Zenon
    <2> QED  BY <1>5, <2>1, <2>2, Zenon
  <1>9. ASSUME NEW k \in 1 .. n
        PROVE  r[k] = IF r[k - 1].blocks = <<>> THEN r[k - 1] ELSE Dropped(r[k - 1], 1)
    <2>1. k \in 0 .. n /\ k - 1 \in 0 .. n
      BY <1>1
    <2>2. /\ 1 .. k \in SUBSET (1 .. n) /\ 1 .. k # {} /\ Max(1 .. k) = k
          /\ (1 .. k) \ {k} = 1 .. k - 1
      BY <1>1, FoldPlaces
    <2> HIDE DEF Step
    <2>3. it[1 .. k] = IF 1 .. k = {} THEN c
                       ELSE Step(it[(1 .. k) \ {Max(1 .. k)}], q[Max(1 .. k)])
      BY <1>7, <2>2, Zenon
    <2>4. it[1 .. k] = Step(it[1 .. k - 1], q[k])
      BY <2>2, <2>3, Zenon
    <2>5. r[k] = Step(r[k - 1], q[k])
      BY <2>1, <2>4
    <2> QED  BY <2>5, Zenon DEF Step
  <1> HIDE DEF r
  <1> DEFINE P == [k \in 0 .. n |->
                      {d \in X : /\ d.size = c.size /\ d.count = c.count /\ Len(d.blocks) = Len(c.blocks) - k
                                 /\ \A i \in Nat : ByteAt(d, i) = ByteAt(c, i)
                                 /\ d.fpos <= c.size \/ d.fpos = c.fpos}]
  <1>10. r[0] \in P[0]
    <2>1. 0 \in 0 .. n /\ Len(c.blocks) = Len(c.blocks) - 0
      BY <1>1
    <2> QED  BY <1>1, <1>8, <2>1
  <1>11. ASSUME NEW k \in 1 .. n, r[k - 1] \in P[k - 1]  PROVE r[k] \in P[k]
    <2> DEFINE d == r[k - 1]
               e == Dropped(d, 1)
    <2>1. k \in 0 .. n /\ k - 1 \in 0 .. n
      BY <1>1
    <2>2. /\ d \in X /\ d.size = c.size /\ d.count = c.count /\ Len(d.blocks) = Len(c.blocks) - (k - 1)
          /\ \A i \in Nat : ByteAt(d, i) = ByteAt(c, i)
          /\ d.fpos <= c.size \/ d.fpos = c.fpos
      BY <1>11, <2>1
    <2> HIDE DEF d
    <2>3. Len(d.blocks) >= 1
      BY <1>1, <2>2
    <2>4. /\ e \in X /\ d.blocks # <<>>
          /\ e.size = d.size /\ e.count = d.count /\ Len(e.blocks) = Len(d.blocks) - 1
          /\ \A i \in Nat : ByteAt(e, i) = ByteAt(d, i)
          /\ e.fpos <= d.size \/ e.fpos = d.fpos
      BY <1>2, <2>2, <2>3
    <2> HIDE DEF e
    <2>5. r[k] = e
      BY <1>9, <2>4 DEF d, e
    <2>6. Len(e.blocks) = Len(c.blocks) - k
      BY <1>1, <2>2, <2>4
    <2>7. /\ e \in X /\ e.size = c.size /\ e.count = c.count
          /\ \A i \in Nat : ByteAt(e, i) = ByteAt(c, i)
          /\ e.fpos <= c.size \/ e.fpos = c.fpos
      BY <2>2, <2>4
    <2> QED  BY <2>1, <2>5, <2>6, <2>7
  <1> HIDE DEF P
  <1>12. \A k \in 0 .. n : r[k] \in P[k]
    BY <1>1, <1>10, <1>11, FoldKeeps
  <1>13. Flushed(c, n) \in P[n] /\ n \in 0 .. n
    BY <1>1, <1>8, <1>12
  <1> DEFINE d == Flushed(c, n)
  <1> HIDE DEF d
  <1>14. /\ d \in X /\ d.size = c.size /\ d.count = c.count /\ Len(d.blocks) = Len(c.blocks) - n
         /\ \A i \in Nat : ByteAt(d, i) = ByteAt(c, i)
         /\ d.fpos <= c.size \/ d.fpos = c.fpos
    BY <1>13 DEF P, d
  <1>15. Sound(d)
    BY <1>14 DEF X
  <1> QED  BY <1>14, <1>15 DEF d

\* Another position in the file changes nothing of what the stream has.
LEMMA MovedIs ==
    ASSUME NEW c, Sound(c), NEW m \in Nat
    PROVE  LET d == [c EXCEPT !.fpos = m] IN
           /\ Sound(d) /\ d.fpos = m /\ d.size = c.size /\ d.data = c.data /\ d.blocks = c.blocks
           /\ d.count = c.count
           /\ \A i \in Nat : ByteAt(d, i) = ByteAt(c, i)
  <1> DEFINE d == [c EXCEPT !.fpos = m]
  <1>1. c \in CacheSet /\ d = [c EXCEPT !.fpos = m]
    BY DEF Sound
  <1> HIDE DEF d
  <1>2. /\ d \in CacheSet /\ d.fpos = m /\ d.size = c.size /\ d.data = c.data /\ d.blocks = c.blocks
        /\ d.fsize = c.fsize /\ d.count = c.count
    BY <1>1 DEF CacheSet
  <1>3. \A x : AsInFile(c, x) => AsInFile(d, x)
    BY <1>2 DEF AsInFile
  <1>4. Sound(d)
    BY <1>2, <1>3 DEF Sound
  <1>5. \A i \in Nat : ByteAt(d, i) = ByteAt(c, i)
    BY <1>2 DEF ByteAt, Hits
  <1> QED  BY <1>2, <1>4, <1>5 DEF d

\* A block that is read goes to the front of the list.
LEMMA FoundStays ==
    ASSUME NEW c, Sound(c), NEW p \in Nat, Hits(c, p) # {}
    PROVE  LET u == Found(c, p)
               d == [c EXCEPT !.blocks = u]
           IN /\ Sound(d) /\ d.size = c.size /\ d.fpos = c.fpos /\ d.count = c.count
              /\ Len(d.blocks) = Len(c.blocks)
              /\ \A i \in Nat : ByteAt(d, i) = ByteAt(c, i)
              /\ u[1] \in BlockSet /\ u[1].start = Base(p)
              /\ \A i \in Nat : Base(i) = Base(p) => ByteAt(c, i) = u[1].buf[i - u[1].start]
  <1>1. /\ c \in CacheSet /\ Apart(c.blocks) /\ c.size % SectorSize = 0
        /\ \A x \in Range(c.blocks) : AsInFile(c, x)
    BY DEF Sound
  <1>2. c.blocks \in Seq(BlockSet) /\ c.size \in Nat /\ Len(c.blocks) \in Nat
    BY <1>1, CacheIs
  <1>3. PICK k \in DOMAIN c.blocks :
            /\ c.blocks[k].start = Base(p) /\ c.blocks[k] \in BlockSet
            /\ Found(c, p) = <<c.blocks[k]>> \o RemoveAt(c.blocks, k)
    BY FoundIs
  <1> DEFINE b == c.blocks[k]
             t == RemoveAt(c.blocks, k)
             u == Found(c, p)
             d == [c EXCEPT !.blocks = u]
             s == Zeros(0)
  <1>4. /\ t \in Seq(BlockSet) /\ Len(t) = Len(c.blocks) - 1 /\ Apart(t) /\ b \in Range(c.blocks)
        /\ \A x \in Range(t) : x \in Range(c.blocks) /\ x.start # b.start
        /\ \A x \in Range(c.blocks) : x = b \/ x \in Range(t)
    BY <1>1, <1>2, OneLess
  <1>5. b \in BlockSet /\ b.start = Base(p) /\ u = <<b>> \o t
    BY <1>3
  <1> HIDE DEF b, t, u
  <1>6. /\ b.start \in Nat /\ b.mend \in Int
        /\ \A i \in Nat : Base(i) = b.start <=> b.start <= i /\ i < b.start + BlockSize
    BY <1>5, BaseOf, BlockIs
  <1>7. u \in Seq(BlockSet) /\ u[1] = b
    <2>1. \A x \in Range(t) : x.start # b.start
      BY <1>4
    <2>2. <<b>> \o t \in Seq(BlockSet) /\ (<<b>> \o t)[1] = b
      BY <1>4, <1>5, <2>1, OneMore, Zenon
    <2> QED  BY <1>5, <2>2, Zenon
  <1>8. d = [c EXCEPT !.blocks = u]
    OBVIOUS
  <1> HIDE DEF d, s
  <1>9. /\ d \in CacheSet /\ d.data = c.data /\ d.fsize = c.fsize /\ d.fpos = c.fpos /\ d.size = c.size
        /\ d.blocks = u /\ d.count = c.count
    BY <1>1, <1>7, <1>8 DEF CacheSet
  <1>10. s \in Strings /\ Length(s) = 0
    BY NoBytes DEF s
  <1>11. \A i \in Nat : Base(i) = Base(p) => ByteAt(c, i) = b.buf[i - b.start]
    BY <1>1, <1>4, <1>5, ByteAtIs
  <1>12. InFront(c, d, p, s, b, t)
    <2>1. b.start = Base(p) /\ p + Length(s) <= b.start + BlockSize
      <3>1. /\ Base(p) \in Nat /\ p < Base(p) + BlockSize
        BY BaseIs
      <3> QED  BY <1>5, <1>10, <3>1, BlockWriteStreamAssumption
    <2>2. \A x \in Range(c.blocks) : x \in Range(t) \/ x.start = b.start
      BY <1>4, <1>6
    <2>3. ASSUME NEW i \in b.start .. b.start + BlockSize - 1
          PROVE  /\ b.buf[i - b.start] = IF p <= i /\ i < p + Length(s) THEN s[i - p] ELSE ByteAt(c, i)
                 /\ Modified(b, i) \/ b.buf[i - b.start] = At(c.data, i)
      <3>1. i \in Nat /\ Base(i) = b.start /\ ~(p <= i /\ i < p + Length(s))
        BY <1>6, <1>10, BlockWriteStreamAssumption
      <3>2. Modified(b, i) \/ b.buf[i - b.start] = At(c.data, i)
        BY <1>1, <1>4, <3>1 DEF AsInFile
      <3> QED  BY <1>5, <1>11, <3>1, <3>2
    <2>4. b.mend <= d.size /\ c.size <= d.size /\ d.size % SectorSize = 0
      BY <1>1, <1>2, <1>4, <1>9 DEF AsInFile
    <2>5. d.blocks = <<b>> \o t
      BY <1>5, <1>9
    <2> QED  BY <1>4, <1>9, <2>1, <2>2, <2>3, <2>4, <2>5, Zenon DEF InFront
  <1>13. /\ Sound(d) /\ Len(d.blocks) = Len(t) + 1
         /\ \A i \in Nat : ByteAt(d, i) = IF p <= i /\ i < p + Length(s) THEN s[i - p]
                                          ELSE ByteAt(c, i)
    <2>1. d \in CacheSet /\ s \in Strings /\ b \in BlockSet /\ t \in Seq(BlockSet)
      BY <1>4, <1>5, <1>9, <1>10
    <2> QED  BY <1>12, <2>1, FrontIs
  <1>14. \A i \in Nat : ByteAt(d, i) = ByteAt(c, i)
    <2>1. \A i \in Nat : ~(p <= i /\ i < p + Length(s))
      BY <1>10
    <2> QED  BY <1>13, <2>1
  <1>15. Len(d.blocks) = Len(c.blocks)
    BY <1>2, <1>4, <1>13
  <1> QED  BY <1>5, <1>7, <1>9, <1>11, <1>13, <1>14, <1>15 DEF d, u

\* What a piece of a Read leaves: the stream as it was, and h more bytes of it.
PieceRead(c, bytes, a, l, y) ==
    /\ y \in [cache : CacheSet, bytes : Strings, ok : BOOLEAN]
    /\ Sound(y.cache) /\ y.cache.fpos <= c.size /\ Counted(y.cache) /\ y.cache.size = c.size
    /\ \A i \in Nat : ByteAt(y.cache, i) = ByteAt(c, i)
    /\ \E h \in 0 .. l :
           /\ Length(y.bytes) = Length(bytes) + h
           /\ \A j \in 0 .. Length(bytes) - 1 : y.bytes[j] = bytes[j]
           /\ \A j \in 0 .. h - 1 : y.bytes[Length(bytes) + j] = ByteAt(c, a + j)
           /\ IF y.ok THEN h = l ELSE ByteAt(c, a + h) = 0

\* More bytes behind those there are.
LEMMA BehindIs ==
    ASSUME NEW f \in Strings, NEW s \in Strings
    PROVE  LET g == Put(f, Length(f), s) IN
           /\ g \in Strings /\ Length(g) = Length(f) + Length(s)
           /\ \A j \in 0 .. Length(f) - 1 : g[j] = f[j]
           /\ \A j \in 0 .. Length(s) - 1 : g[Length(f) + j] = s[j]
  <1> DEFINE g == Put(f, Length(f), s)
  <1>1. Length(f) \in Nat /\ Length(s) \in Nat
    BY StringIs
  <1>2. /\ g \in Strings
        /\ Length(g) = IF Length(f) >= Length(f) + Length(s) THEN Length(f) ELSE Length(f) + Length(s)
        /\ \A i \in Nat : At(g, i) = IF Length(f) <= i /\ i < Length(f) + Length(s) THEN s[i - Length(f)]
                                     ELSE At(f, i)
    BY <1>1, PutIs
  <1> HIDE DEF g
  <1>3. Length(g) = Length(f) + Length(s)
    BY <1>1, <1>2
  <1>4. ASSUME NEW j \in 0 .. Length(f) - 1  PROVE g[j] = f[j]
    <2>1. j \in Nat /\ j < Length(f) /\ j < Length(g) /\ ~(Length(f) <= j)
      BY <1>1, <1>3
    <2>2. At(g, j) = g[j] /\ At(f, j) = f[j]
      BY <1>2, <2>1, AtIs
    <2> QED  BY <1>2, <2>1, <2>2
  <1>5. ASSUME NEW j \in 0 .. Length(s) - 1  PROVE g[Length(f) + j] = s[j]
    <2> DEFINE i == Length(f) + j
    <2>1. i \in Nat /\ i < Length(g) /\ Length(f) <= i /\ i < Length(f) + Length(s) /\ i - Length(f) = j
      BY <1>1, <1>3
    <2> HIDE DEF i
    <2>2. At(g, i) = g[i]
      BY <1>2, <2>1, AtIs
    <2>3. g[i] = s[j]
      BY <1>2, <2>1, <2>2
    <2> QED  BY <2>3 DEF i
  <1> QED  BY <1>2, <1>3, <1>4, <1>5 DEF g

LEMMA ReadPieceIs ==
    ASSUME NEW c, Sound(c), c.fpos <= c.size, Counted(c), NEW bytes \in Strings,
           NEW a \in Nat, NEW l \in Nat, l >= 1, a + l <= c.size, a + l <= Base(a) + BlockSize
    PROVE  PieceRead(c, bytes, a, l,
                     ReadPiece([cache |-> c, bytes |-> bytes, ok |-> TRUE], [at |-> a, len |-> l]))
  <1> DEFINE r == [cache |-> c, bytes |-> bytes, ok |-> TRUE]
             y == ReadPiece(r, [at |-> a, len |-> l])
  <1>1. /\ c \in CacheSet /\ c.size \in Nat /\ c.fpos \in Nat /\ c.count \in Nat
        /\ c.blocks \in Seq(BlockSet) /\ Len(c.blocks) \in Nat /\ Apart(c.blocks)
    BY CacheIs DEF Sound
  <1>2. Base(a) \in Nat /\ Base(a) % BlockSize = 0 /\ Base(a) <= a
    BY BaseIs
  <1>3. \A j \in 0 .. l - 1 : a + j \in Nat /\ Base(a + j) = Base(a)
    <2> SUFFICES ASSUME NEW j \in 0 .. l - 1  PROVE a + j \in Nat /\ Base(a + j) = Base(a)
      OBVIOUS
    <2>1. a + j \in Nat /\ Base(a) <= a + j /\ a + j < Base(a) + BlockSize
      BY <1>2, BlockWriteStreamAssumption
    <2> DEFINE i == a + j
    <2> HIDE DEF i
    <2>2. Base(i) = Base(a)
      <3>1. i \in Nat /\ Base(a) <= i /\ i < Base(a) + BlockSize
        BY <2>1 DEF i
      <3> DEFINE z == Base(a)
      <3> HIDE DEF z
      <3>2. z \in Nat /\ z % BlockSize = 0 /\ z <= i /\ i < z + BlockSize
        BY <1>2, <3>1 DEF z
      <3>3. z = Base(i)
        BY <3>1, <3>2, BaseOf
      <3> QED  BY <3>3 DEF z
    <2> QED  BY <2>1, <2>2 DEF i
  <1>4. CASE Hits(c, a) # {}
    <2> DEFINE u == Found(c, a)
               d == [c EXCEPT !.blocks = u]
               b == u[1]
               s == Slice(b.buf, a - b.start, l)
               g == Put(bytes, Length(bytes), s)
    <2>1. y = [cache |-> d, bytes |-> g, ok |-> TRUE]
      <3>1. r.ok = TRUE /\ r.cache = c /\ r.bytes = bytes
        OBVIOUS
      <3>2. y = [r EXCEPT !.cache.blocks = u, !.bytes = g]
        BY <1>4 DEF ReadPiece
      <3> HIDE DEF u, g
      <3> QED  BY <3>2
    <2>2. /\ Sound(d) /\ d.size = c.size /\ d.fpos = c.fpos /\ d.count = c.count
          /\ Len(d.blocks) = Len(c.blocks)
          /\ \A i \in Nat : ByteAt(d, i) = ByteAt(c, i)
          /\ b \in BlockSet /\ b.start = Base(a)
          /\ \A i \in Nat : Base(i) = Base(a) => ByteAt(c, i) = b.buf[i - b.start]
      BY <1>4, FoundStays
    <2>3. Counted(d) /\ d \in CacheSet
      BY <2>2 DEF Counted, Sound
    <2> HIDE DEF d, b
    <2>4. /\ b.buf \in Strings /\ Length(b.buf) = BlockSize /\ a - b.start \in Nat
          /\ (a - b.start) + l <= BlockSize /\ ~(l <= 0) /\ ~(BlockSize <= a - b.start)
      BY <1>2, <2>2, BlockIs, BlockWriteStreamAssumption
    <2>5. /\ s \in Strings /\ Length(s) = l
          /\ \A j \in 0 .. l - 1 : s[j] = ByteAt(c, a + j)
      <3> DEFINE x == a - b.start
      <3> HIDE DEF x
      <3>1. /\ Slice(b.buf, x, l) \in Strings
            /\ Length(Slice(b.buf, x, l)) = l
            /\ \A j \in 0 .. Length(Slice(b.buf, x, l)) - 1 : Slice(b.buf, x, l)[j] = At(b.buf, x + j)
        <4>1. x \in Nat /\ x + l <= BlockSize /\ ~(l <= 0) /\ ~(BlockSize <= x) /\ l \in Int
          BY <2>4 DEF x
        <4>2. /\ Slice(b.buf, x, l) \in Strings
              /\ Length(Slice(b.buf, x, l)) = IF l <= 0 \/ Length(b.buf) <= x THEN 0
                                              ELSE IF x + l <= Length(b.buf) THEN l ELSE Length(b.buf) - x
              /\ \A j \in 0 .. Length(Slice(b.buf, x, l)) - 1 : Slice(b.buf, x, l)[j] = At(b.buf, x + j)
          BY <2>4, <4>1, SliceIs
        <4>3. Length(Slice(b.buf, x, l)) = l
          BY <2>4, <4>1, <4>2
        <4> QED  BY <4>2, <4>3
      <3>2. ASSUME NEW j \in 0 .. l - 1  PROVE At(b.buf, x + j) = ByteAt(c, a + j)
        <4>0. b.start \in Nat
          BY <1>2, <2>2
        <4>1. x + j \in Nat /\ x + j < Length(b.buf) /\ a + j - b.start = x + j
          <5>1. x \in Nat /\ x + l <= BlockSize /\ x = a - b.start /\ Length(b.buf) = BlockSize
            BY <2>4 DEF x
          <5> QED  BY <4>0, <5>1, BlockWriteStreamAssumption
        <4>2. At(b.buf, x + j) = b.buf[x + j]
          BY <2>4, <4>1, AtIs
        <4>3. ByteAt(c, a + j) = b.buf[x + j]
          <5> DEFINE i == a + j
          <5>1. i \in Nat /\ Base(i) = Base(a) /\ i - b.start = x + j
            BY <1>3, <4>0, <4>1
          <5> HIDE DEF i
          <5>2. ByteAt(c, i) = b.buf[x + j]
            BY <2>2, <5>1
          <5> QED  BY <5>2 DEF i
        <4> QED  BY <4>2, <4>3
      <3> QED  BY <3>1, <3>2 DEF x
    <2> HIDE DEF s
    <2>6. /\ g \in Strings /\ Length(g) = Length(bytes) + l
          /\ \A j \in 0 .. Length(bytes) - 1 : g[j] = bytes[j]
          /\ \A j \in 0 .. l - 1 : g[Length(bytes) + j] = ByteAt(c, a + j)
      BY <2>5, BehindIs
    <2> HIDE DEF g, y, u
    <2>7. y.cache = d /\ y.bytes = g /\ y.ok = TRUE /\ y \in [cache : CacheSet, bytes : Strings, ok : BOOLEAN]
      BY <2>1, <2>3, <2>6
    <2>8. l \in 0 .. l
      OBVIOUS
    <2>9. d.fpos <= c.size
      BY <2>2
    <2>10. PieceRead(c, bytes, a, l, y)
      BY <2>2, <2>3, <2>6, <2>7, <2>8, <2>9 DEF PieceRead
    <2> QED  BY <2>10 DEF y
  <1>5. CASE Hits(c, a) = {}
    <2> DEFINE e == Sized(c)
               d == IF Inconsistent(e, a, l) THEN Flushed(e, Len(e.blocks)) ELSE e
               s == Slice(d.data, a, l)
               g == Put(bytes, Length(bytes), s)
               h == Length(s)
               f == [d EXCEPT !.fpos = a + h]
    <2>1. y = [cache |-> f, bytes |-> g, ok |-> h = l]
      <3>1. r.ok = TRUE /\ r.cache = c /\ r.bytes = bytes
        OBVIOUS
      <3>2. y = [cache |-> FileRead(d, a, l), bytes |-> g, ok |-> h = l]
        <4> HIDE DEF r
        <4> QED  BY <1>5, <3>1 DEF ReadPiece
      <3> QED  BY <3>2, Zenon DEF FileRead
    <2>2. /\ Sound(e) /\ e.size = c.size /\ e.count = c.count /\ e.blocks = c.blocks /\ e.fpos = c.fpos
          /\ \A i \in Nat : ByteAt(e, i) = ByteAt(c, i)
      BY SizedIs
    <2> HIDE DEF e
    <2>3. /\ Sound(d) /\ d.size = c.size /\ d.count = c.count /\ d.fpos <= c.size
          /\ \A i \in Nat : ByteAt(d, i) = ByteAt(c, i)
          /\ Counted(d)
          /\ \A b \in Range(d.blocks) : b.start # Base(a)
      <3>1. CASE ~ Inconsistent(e, a, l)
        <4>1. d = e
          BY <3>1, Zenon
        <4>2. \A b \in Range(c.blocks) : b.start # Base(a)
          BY <1>1, <1>5, ByteAtIs
        <4>3. Counted(e)
          BY <2>2 DEF Counted
        <4> QED  BY <2>2, <4>1, <4>2, <4>3
      <3>2. CASE Inconsistent(e, a, l)
        <4> DEFINE n == Len(e.blocks)
        <4>1. d = Flushed(e, n)
          BY <3>2, Zenon
        <4>2. n \in 0 .. Len(e.blocks) /\ n \in Nat /\ n = Len(e.blocks)
          BY <1>1, <2>2
        <4> HIDE DEF n
        <4>3. /\ Sound(Flushed(e, n)) /\ Flushed(e, n).size = e.size /\ Flushed(e, n).count = e.count
              /\ Len(Flushed(e, n).blocks) = Len(e.blocks) - n
              /\ \A i \in Nat : ByteAt(Flushed(e, n), i) = ByteAt(e, i)
              /\ Flushed(e, n).fpos <= e.size \/ Flushed(e, n).fpos = e.fpos
          BY <2>2, <4>2, FlushedIs
        <4> HIDE DEF d
        <4>4. /\ Sound(d) /\ d.size = c.size /\ d.count = c.count /\ d.fpos <= c.size
              /\ Len(d.blocks) = 0
              /\ \A i \in Nat : ByteAt(d, i) = ByteAt(c, i)
          BY <2>2, <4>1, <4>2, <4>3
        <4>5. Counted(d) /\ \A b \in Range(d.blocks) : b.start # Base(a)
          <5>1. d.blocks \in Seq(BlockSet)
            BY <4>4, CacheIs DEF Sound
          <5>2. Range(d.blocks) = {}
            BY <4>4, <5>1, RangeIs
          <5> QED  BY <1>1, <4>4, <5>2 DEF Counted
        <4> QED  BY <4>4, <4>5
      <3> QED  BY <3>1, <3>2
    <2> HIDE DEF d
    <2>4. /\ d \in CacheSet /\ Apart(d.blocks) /\ d.data \in Strings /\ Length(d.data) \in Nat
      BY <2>3, CacheIs DEF Sound
    <2>5. \A j \in 0 .. l - 1 : ByteAt(c, a + j) = At(d.data, a + j)
      <3> SUFFICES ASSUME NEW j \in 0 .. l - 1  PROVE ByteAt(c, a + j) = At(d.data, a + j)
        OBVIOUS
      <3>1. a + j \in Nat /\ \A b \in Range(d.blocks) : b.start # Base(a + j)
        BY <1>3, <2>3
      <3>2. ByteAt(d, a + j) = At(d.data, a + j)
        BY <2>4, <3>1, ByteAtIs
      <3> QED  BY <2>3, <3>1, <3>2
    <2>6. /\ s \in Strings /\ h \in Nat /\ h \in 0 .. l
          /\ \A j \in 0 .. h - 1 : s[j] = At(d.data, a + j)
          /\ h < l => a + h >= Length(d.data)
      <3>1. /\ s \in Strings
            /\ h = IF l <= 0 \/ Length(d.data) <= a THEN 0
                   ELSE IF a + l <= Length(d.data) THEN l ELSE Length(d.data) - a
            /\ \A j \in 0 .. h - 1 : s[j] = At(d.data, a + j)
        <4>1. l \in Int
          OBVIOUS
        <4> QED  BY <2>4, <4>1, SliceIs
      <3> HIDE DEF h, s
      <3>2. h \in Nat /\ h \in 0 .. l /\ (h < l => a + h >= Length(d.data))
        BY <2>4, <3>1
      <3> QED  BY <3>1, <3>2
    <2> HIDE DEF s
    <2>7. /\ g \in Strings /\ Length(g) = Length(bytes) + h
          /\ \A j \in 0 .. Length(bytes) - 1 : g[j] = bytes[j]
          /\ \A j \in 0 .. h - 1 : g[Length(bytes) + j] = s[j]
      BY <2>6, BehindIs
    <2> HIDE DEF g, h, y
    <2>8. \A j \in 0 .. h - 1 : g[Length(bytes) + j] = ByteAt(c, a + j)
      <3>1. \A j \in 0 .. h - 1 : j \in 0 .. l - 1
        BY <2>6
      <3> QED  BY <2>5, <2>6, <2>7, <3>1
    <2>9. h # l => ByteAt(c, a + h) = 0
      <3> SUFFICES ASSUME h # l  PROVE ByteAt(c, a + h) = 0
        OBVIOUS
      <3>1. h \in 0 .. l - 1 /\ a + h \in Nat /\ a + h >= Length(d.data)
        BY <2>6
      <3> QED  BY <2>4, <2>5, <3>1, AtIs
    <2>10. a + h \in Nat /\ a + h <= c.size
      BY <1>1, <2>6
    <2> DEFINE m == a + h
    <2>11. /\ Sound(f) /\ f.fpos = m /\ f.size = d.size /\ f.blocks = d.blocks /\ f.count = d.count
           /\ \A i \in Nat : ByteAt(f, i) = ByteAt(d, i)
      <3> HIDE DEF m
      <3>1. f = [d EXCEPT !.fpos = m] /\ m \in Nat
        BY <2>10 DEF m
      <3> HIDE DEF f
      <3> DEFINE x == [d EXCEPT !.fpos = m]
      <3>2. /\ Sound(x) /\ x.fpos = m /\ x.size = d.size /\ x.blocks = d.blocks /\ x.count = d.count
            /\ \A i \in Nat : ByteAt(x, i) = ByteAt(d, i)
        BY <2>3, <3>1, MovedIs
      <3> QED  BY <3>1, <3>2
    <2> HIDE DEF f
    <2>12. Counted(f) /\ f \in CacheSet /\ f.fpos <= c.size
      BY <2>3, <2>10, <2>11 DEF Counted, Sound
    <2>13. /\ y.cache = f /\ y.bytes = g /\ y.ok = (h = l)
           /\ y \in [cache : CacheSet, bytes : Strings, ok : BOOLEAN]
      <3> DEFINE o == (h = l)
      <3>1. o \in BOOLEAN /\ y = [cache |-> f, bytes |-> g, ok |-> o]
        BY <2>1
      <3> HIDE DEF o
      <3>2. y.cache = f /\ y.bytes = g /\ y.ok = o
        BY <3>1
      <3>3. y \in [cache : CacheSet, bytes : Strings, ok : BOOLEAN]
        BY <2>7, <2>12, <3>1
      <3> QED  BY <3>2, <3>3 DEF o
    <2>14. PieceRead(c, bytes, a, l, y)
      <3>1. /\ Sound(y.cache) /\ y.cache.fpos <= c.size /\ Counted(y.cache) /\ y.cache.size = c.size
            /\ \A i \in Nat : ByteAt(y.cache, i) = ByteAt(c, i)
        BY <2>3, <2>11, <2>12, <2>13
      <3>2. /\ Length(y.bytes) = Length(bytes) + h
            /\ \A j \in 0 .. Length(bytes) - 1 : y.bytes[j] = bytes[j]
            /\ \A j \in 0 .. h - 1 : y.bytes[Length(bytes) + j] = ByteAt(c, a + j)
        BY <2>7, <2>8, <2>13
      <3>3. IF y.ok THEN h = l ELSE ByteAt(c, a + h) = 0
        BY <2>9, <2>13
      <3> QED  BY <2>6, <2>13, <3>1, <3>2, <3>3 DEF PieceRead
    <2> QED  BY <2>14 DEF y
  <1> QED  BY <1>4, <1>5

\* What a Read of n bytes at p makes of the stream, and the bytes it gives.
AfterRead(c, p, n) == FoldLeft(ReadPiece, [cache |-> c, bytes |-> Zeros(0), ok |-> TRUE], Pieces(p, n))

\* The bytes at p, up to there: all of them, or those in front of a zero.
PartRead(c, p, to, y) ==
    /\ y \in [cache : CacheSet, bytes : Strings, ok : BOOLEAN]
    /\ Sound(y.cache) /\ Counted(y.cache) /\ y.cache.size = c.size
    /\ y.cache.fpos <= c.size \/ y.cache.fpos = c.fpos
    /\ \A i \in Nat : ByteAt(y.cache, i) = ByteAt(c, i)
    /\ p + Length(y.bytes) <= to
    /\ \A j \in 0 .. Length(y.bytes) - 1 : y.bytes[j] = ByteAt(c, p + j)
    /\ IF y.ok THEN p + Length(y.bytes) = to ELSE ByteAt(c, p + Length(y.bytes)) = 0

LEMMA ReadRuns ==
    ASSUME NEW c, Sound(c), Counted(c), NEW p \in Nat, NEW n \in Nat, NEW m, NEW cut, Cuts(p, n, m, cut),
           n = 0 \/ (p + n <= c.size /\ c.fpos <= c.size)
    PROVE  \E r : /\ r[0] = [cache |-> c, bytes |-> Zeros(0), ok |-> TRUE] /\ r[m] = AfterRead(c, p, n)
                  /\ \A k \in 1 .. m :
                         r[k] = ReadPiece(r[k - 1], [at |-> cut[k - 1], len |-> cut[k] - cut[k - 1]])
  <1> DEFINE q == Pieces(p, n)
             b == [cache |-> c, bytes |-> Zeros(0), ok |-> TRUE]
             X == {x \in [cache : CacheSet, bytes : Strings, ok : BOOLEAN] :
                      /\ Sound(x.cache) /\ Counted(x.cache) /\ x.cache.size = c.size
                      /\ n = 0 \/ x.cache.fpos <= c.size}
             it == CHOOSE f : f = [S \in SUBSET (1 .. m) |->
                                      IF S = {} THEN b ELSE ReadPiece(f[S \ {Max(S)}], q[Max(S)])]
             G == [k \in 1 .. m |-> [x \in X |-> ReadPiece(x, q[k])]]
  <1>1. /\ m \in Nat /\ cut \in [0 .. m -> Nat] /\ cut[0] = p /\ cut[m] = p + n
        /\ \A k \in 1 .. m :
               /\ q[k] = [at |-> cut[k - 1], len |-> cut[k] - cut[k - 1]]
               /\ p <= cut[k - 1] /\ cut[k - 1] < cut[k] /\ cut[k] <= p + n
               /\ cut[k] <= Base(cut[k - 1]) + BlockSize
        /\ DOMAIN q = 1 .. m
    BY Zenon DEF Cuts
  <1> HIDE DEF q
  <1>2. b \in X
    <2>1. c \in CacheSet /\ Zeros(0) \in Strings
      BY NoBytes DEF Sound
    <2> DEFINE z == Zeros(0)
    <2> HIDE DEF z
    <2>2. [cache |-> c, bytes |-> z, ok |-> TRUE] \in X
      BY <2>1 DEF z
    <2> QED  BY <2>2 DEF z
  <1>3. ASSUME NEW k \in 1 .. m, NEW x \in X  PROVE ReadPiece(x, q[k]) \in X
    <2>1. /\ x \in [cache : CacheSet, bytes : Strings, ok : BOOLEAN]
          /\ Sound(x.cache) /\ Counted(x.cache) /\ x.cache.size = c.size
          /\ n = 0 \/ x.cache.fpos <= c.size
      OBVIOUS
    <2>2. CASE ~ x.ok
      BY <2>2 DEF ReadPiece
    <2>3. CASE x.ok
      <3> DEFINE e == x.cache
                 s == x.bytes
                 a == cut[k - 1]
                 l == cut[k] - cut[k - 1]
                 y == ReadPiece(x, q[k])
      <3>1. x = [cache |-> e, bytes |-> s, ok |-> TRUE] /\ q[k] = [at |-> a, len |-> l]
        BY <1>1, <2>1, <2>3
      <3>2. k - 1 \in 0 .. m /\ k \in 0 .. m
        BY <1>1
      <3>3. /\ a \in Nat /\ l \in Nat /\ l >= 1 /\ a + l <= p + n /\ a + l <= Base(a) + BlockSize /\ n # 0
        <4> DEFINE z == cut[k]
                   w == cut[k - 1]
        <4>1. /\ z \in Nat /\ w \in Nat /\ p <= w /\ w < z /\ z <= p + n /\ z <= Base(w) + BlockSize
          BY <1>1, <3>2
        <4> HIDE DEF z, w
        <4>2. z - w \in Nat /\ z - w >= 1 /\ w + (z - w) = z /\ n # 0
          BY <4>1
        <4>3. l = z - w /\ a = w
          BY DEF z, w
        <4> HIDE DEF l, a
        <4> QED  BY <4>1, <4>2, <4>3
      <3>4. c.size \in Nat
        BY CacheIs DEF Sound
      <3>5. a + l <= e.size /\ e.fpos <= e.size /\ e.size = c.size /\ Sound(e) /\ Counted(e) /\ s \in Strings
        BY <2>1, <3>3, <3>4
      <3>6. y = ReadPiece([cache |-> e, bytes |-> s, ok |-> TRUE], [at |-> a, len |-> l])
        BY <3>1, Zenon
      <3> HIDE DEF e, s, a, l, y
      <3>7. PieceRead(e, s, a, l, y)
        BY <3>3, <3>5, <3>6, ReadPieceIs
      <3>8. y \in X
        BY <3>5, <3>7 DEF PieceRead
      <3> QED  BY <3>8 DEF y
    <2> QED  BY <2>2, <2>3
  <1> HIDE DEF X, b
  <1>4. G \in [1 .. m -> [X -> X]]
    BY <1>3
  <1>5. AfterRead(c, p, n) = it[1 .. m]
    BY <1>1, Zenon DEF AfterRead, FoldLeft, MapThenFoldSet, q, b
  <1>6. \E f : f = [S \in SUBSET (1 .. m) |->
                       IF S = {} THEN b ELSE ReadPiece(f[S \ {Max(S)}], q[Max(S)])]
    <2> HIDE DEF G
    <2>1. PICK f : FoldsOver(f, X, b, m, G)
      BY <1>1, <1>2, <1>4, FoldExists, Zenon
    <2>2. ASSUME NEW S \in SUBSET (1 .. m), S # {}
          PROVE  G[Max(S)][f[S \ {Max(S)}]] = ReadPiece(f[S \ {Max(S)}], q[Max(S)])
      <3>1. Max(S) \in 1 .. m /\ f[S \ {Max(S)}] \in X
        BY <1>1, <2>1, <2>2, LargestIn DEF FoldsOver
      <3> QED BY <3>1 DEF G
    <2>3. [S \in SUBSET (1 .. m) |->
              IF S = {} THEN b ELSE G[Max(S)][f[S \ {Max(S)}]]]
          = [S \in SUBSET (1 .. m) |-> IF S = {} THEN b ELSE ReadPiece(f[S \ {Max(S)}], q[Max(S)])]
      BY <2>2, Zenon
    <2>4. f = [S \in SUBSET (1 .. m) |-> IF S = {} THEN b ELSE ReadPiece(f[S \ {Max(S)}], q[Max(S)])]
      BY <2>1, <2>3, Zenon DEF FoldsOver
    <2> QED BY <2>4, Zenon
  <1>7. it = [S \in SUBSET (1 .. m) |-> IF S = {} THEN b ELSE ReadPiece(it[S \ {Max(S)}], q[Max(S)])]
    BY <1>6, Zenon
  <1> DEFINE r == [k \in 0 .. m |-> it[1 .. k]]
  <1> HIDE DEF it
  <1>8. r[0] = b /\ r[m] = it[1 .. m]
    <2>1. 1 .. 0 = {} /\ {} \in SUBSET (1 .. m) /\ 0 \in 0 .. m /\ m \in 0 .. m
      BY <1>1
    <2>2. it[{}] = b
      BY <1>7, <2>1, Zenon
    <2> QED  BY <2>1, <2>2, Zenon
  <1>9. ASSUME NEW k \in 1 .. m  PROVE r[k] = ReadPiece(r[k - 1], q[k])
    <2>1. k \in 0 .. m /\ k - 1 \in 0 .. m
      BY <1>1
    <2>2. /\ 1 .. k \in SUBSET (1 .. m) /\ 1 .. k # {} /\ Max(1 .. k) = k
          /\ (1 .. k) \ {k} = 1 .. k - 1
      BY <1>1, FoldPlaces
    <2>3. it[1 .. k] = IF 1 .. k = {} THEN b
                       ELSE ReadPiece(it[(1 .. k) \ {Max(1 .. k)}], q[Max(1 .. k)])
      BY <1>7, <2>2, Zenon
    <2>4. it[1 .. k] = ReadPiece(it[1 .. k - 1], q[k])
      BY <2>2, <2>3, Zenon
    <2> QED  BY <2>1, <2>4
  <1> HIDE DEF r
  <1>10. \A k \in 1 .. m : r[k] = ReadPiece(r[k - 1], [at |-> cut[k - 1], len |-> cut[k] - cut[k - 1]])
    BY <1>1, <1>9
  <1>11. r[m] = AfterRead(c, p, n)
    BY <1>5, <1>8
  <1>12. r[0] = [cache |-> c, bytes |-> Zeros(0), ok |-> TRUE]
    BY <1>8, Zenon DEF b
  <1> QED  BY <1>10, <1>11, <1>12, Zenon

LEMMA ReadIs ==
    ASSUME NEW c, Sound(c), Counted(c), NEW p \in Nat, NEW n \in Nat,
           n = 0 \/ (p + n <= c.size /\ c.fpos <= c.size)
    PROVE  PartRead(c, p, p + n, AfterRead(c, p, n))
  <1>1. PICK m, cut : Cuts(p, n, m, cut)
    BY PiecesAre
  <1>2. /\ m \in Nat /\ cut \in [0 .. m -> Nat] /\ cut[0] = p /\ cut[m] = p + n
        /\ \A k \in 1 .. m :
               /\ p <= cut[k - 1] /\ cut[k - 1] < cut[k] /\ cut[k] <= p + n
               /\ cut[k] <= Base(cut[k - 1]) + BlockSize
    BY <1>1, Zenon DEF Cuts
  <1>3. PICK r : /\ r[0] = [cache |-> c, bytes |-> Zeros(0), ok |-> TRUE] /\ r[m] = AfterRead(c, p, n)
                 /\ \A k \in 1 .. m :
                        r[k] = ReadPiece(r[k - 1], [at |-> cut[k - 1], len |-> cut[k] - cut[k - 1]])
    BY <1>1, ReadRuns
  <1>4. c \in CacheSet /\ c.size \in Nat /\ c.fpos \in Nat
    BY CacheIs DEF Sound
  <1> DEFINE P == [k \in 0 .. m |->
                      {y \in [cache : CacheSet, bytes : Strings, ok : BOOLEAN] : PartRead(c, p, cut[k], y)}]
  <1>5. r[0] \in P[0]
    <2> DEFINE z == Zeros(0)
    <2>1. z \in Strings /\ Length(z) = 0
      BY NoBytes
    <2> HIDE DEF z
    <2>2. r[0] = [cache |-> c, bytes |-> z, ok |-> TRUE] /\ cut[0] = p /\ 0 \in 0 .. m
      BY <1>2, <1>3 DEF z
    <2>3. \A j \in 0 .. 0 - 1 : FALSE
      OBVIOUS
    <2>4. p + 0 = p
      OBVIOUS
    <2>5. PartRead(c, p, p, r[0])
      BY <1>4, <2>1, <2>2, <2>3, <2>4 DEF PartRead
    <2>6. r[0] \in [cache : CacheSet, bytes : Strings, ok : BOOLEAN]
      BY <1>4, <2>1, <2>2
    <2> QED  BY <2>2, <2>5, <2>6
  <1>6. ASSUME NEW k \in 1 .. m, r[k - 1] \in P[k - 1]  PROVE r[k] \in P[k]
    <2>1. k \in 0 .. m /\ k - 1 \in 0 .. m
      BY <1>2
    <2> DEFINE x == r[k - 1]
               a == cut[k - 1]
               b == cut[k]
               l == b - a
               y == r[k]
    <2>2. PartRead(c, p, a, x)
      BY <1>6, <2>1
    <2>3. /\ a \in Nat /\ b \in Nat /\ p <= a /\ a < b /\ b <= p + n /\ b <= Base(a) + BlockSize
          /\ y = ReadPiece(x, [at |-> a, len |-> l])
      BY <1>2, <1>3, <2>1
    <2> HIDE DEF x, y, a, b
    <2>4. /\ l \in Nat /\ l >= 1 /\ a + l = b /\ n # 0
      BY <2>3
    <2>5. /\ x \in [cache : CacheSet, bytes : Strings, ok : BOOLEAN]
          /\ Sound(x.cache) /\ Counted(x.cache) /\ x.cache.size = c.size
          /\ x.cache.fpos <= c.size \/ x.cache.fpos = c.fpos
          /\ \A i \in Nat : ByteAt(x.cache, i) = ByteAt(c, i)
          /\ p + Length(x.bytes) <= a
          /\ \A j \in 0 .. Length(x.bytes) - 1 : x.bytes[j] = ByteAt(c, p + j)
          /\ IF x.ok THEN p + Length(x.bytes) = a ELSE ByteAt(c, p + Length(x.bytes)) = 0
      BY <2>2, Zenon DEF PartRead
    <2>6. Length(x.bytes) \in Nat
      BY <2>5, StringIs
    <2>7. CASE ~ x.ok
      <3>1. y = x
        BY <2>3, <2>7, Zenon DEF ReadPiece
      <3>2. p + Length(x.bytes) <= b
        BY <2>3, <2>5, <2>6
      <3>3. PartRead(c, p, b, y)
        BY <2>5, <2>7, <3>1, <3>2 DEF PartRead
      <3> QED  BY <2>1, <2>5, <3>1, <3>3 DEF b, y
    <2>8. CASE x.ok
      <3> DEFINE e == x.cache
                 s == x.bytes
      <3>1. x = [cache |-> e, bytes |-> s, ok |-> TRUE]
        BY <2>5, <2>8
      <3>2. /\ Sound(e) /\ Counted(e) /\ e.size = c.size /\ e.fpos <= e.size /\ s \in Strings
            /\ a + l <= e.size
        <4>1. c.fpos <= c.size /\ p + n <= c.size
          BY <2>4
        <4>2. e.fpos <= c.size
          BY <2>5, <4>1
        <4>3. a + l <= c.size
          BY <1>4, <2>3, <2>4, <4>1
        <4> QED  BY <2>5, <4>2, <4>3
      <3>3. y = ReadPiece([cache |-> e, bytes |-> s, ok |-> TRUE], [at |-> a, len |-> l])
        BY <2>3, <3>1, Zenon
      <3> HIDE DEF e, s, l
      <3>4. PieceRead(e, s, a, l, y)
        BY <2>3, <2>4, <3>2, <3>3, ReadPieceIs
      <3>5. /\ y \in [cache : CacheSet, bytes : Strings, ok : BOOLEAN]
            /\ Sound(y.cache) /\ y.cache.fpos <= e.size /\ Counted(y.cache) /\ y.cache.size = e.size
            /\ \A i \in Nat : ByteAt(y.cache, i) = ByteAt(e, i)
        BY <3>4, Zenon DEF PieceRead
      <3>6. PICK h \in 0 .. l :
                /\ Length(y.bytes) = Length(s) + h
                /\ \A j \in 0 .. Length(s) - 1 : y.bytes[j] = s[j]
                /\ \A j \in 0 .. h - 1 : y.bytes[Length(s) + j] = ByteAt(e, a + j)
                /\ IF y.ok THEN h = l ELSE ByteAt(e, a + h) = 0
        BY <3>4, Zenon DEF PieceRead
      <3>7. /\ \A i \in Nat : ByteAt(e, i) = ByteAt(c, i)
            /\ \A j \in 0 .. Length(s) - 1 : s[j] = ByteAt(c, p + j)
            /\ p + Length(s) = a /\ Length(s) \in Nat
        BY <2>5, <2>6, <2>8 DEF e, s
      <3>8. h \in Nat /\ h <= l /\ p + Length(y.bytes) = a + h /\ a + h \in Nat
        BY <2>3, <2>4, <3>6, <3>7
      <3>9. p + Length(y.bytes) <= b /\ (h = l => p + Length(y.bytes) = b)
        BY <2>3, <2>4, <3>8
      <3>10. ASSUME NEW j \in 0 .. Length(y.bytes) - 1  PROVE y.bytes[j] = ByteAt(c, p + j)
        <4>1. CASE j < Length(s)
          <5>1. j \in 0 .. Length(s) - 1
            BY <3>7, <4>1
          <5> QED  BY <3>6, <3>7, <5>1
        <4>2. CASE ~(j < Length(s))
          <5> DEFINE i == j - Length(s)
          <5>1. i \in 0 .. h - 1 /\ Length(s) + i = j /\ a + i = p + j /\ a + i \in Nat
            BY <2>3, <3>6, <3>7, <3>8, <4>2
          <5> HIDE DEF i
          <5>2. y.bytes[Length(s) + i] = ByteAt(e, a + i)
            BY <3>6, <5>1
          <5>3. ByteAt(e, a + i) = ByteAt(c, a + i)
            BY <3>7, <5>1
          <5> QED  BY <5>1, <5>2, <5>3
        <4> QED  BY <4>1, <4>2
      <3>11. IF y.ok THEN p + Length(y.bytes) = b ELSE ByteAt(c, p + Length(y.bytes)) = 0
        <4>1. y.ok => h = l
          BY <3>6
        <4>2. ~ y.ok => ByteAt(c, a + h) = 0
          BY <3>6, <3>7, <3>8
        <4> QED  BY <3>8, <3>9, <4>1, <4>2
      <3>12. /\ y.cache.size = c.size /\ y.cache.fpos <= c.size
             /\ \A i \in Nat : ByteAt(y.cache, i) = ByteAt(c, i)
        BY <3>2, <3>5, <3>7
      <3>13. PartRead(c, p, b, y)
        BY <3>5, <3>9, <3>10, <3>11, <3>12, Zenon DEF PartRead
      <3> QED  BY <2>1, <3>5, <3>13 DEF b, y
    <2> QED  BY <2>7, <2>8
  <1> HIDE DEF P
  <1>7. \A k \in 0 .. m : r[k] \in P[k]
    BY <1>2, <1>5, <1>6, FoldKeeps
  <1>8. AfterRead(c, p, n) \in P[m] /\ m \in 0 .. m
    BY <1>2, <1>3, <1>7
  <1>9. PartRead(c, p, cut[m], AfterRead(c, p, n))
    BY <1>8 DEF P
  <1> QED  BY <1>2, <1>9

-----------------------------------------------------------------------------
(* What the stream has, as one string of bytes. *)

Whole(c) == [i \in 0 .. c.size - 1 |-> ByteAt(c, i)]

LEMMA WholeIs ==
    ASSUME NEW c, Sound(c)
    PROVE  /\ Whole(c) \in Strings /\ Length(Whole(c)) = c.size
           /\ \A i \in Nat : At(Whole(c), i) = ByteAt(c, i)
  <1>1. /\ c \in CacheSet /\ Apart(c.blocks) /\ Length(c.data) <= c.fsize /\ c.fsize <= c.size
        /\ \A x \in Range(c.blocks) : AsInFile(c, x)
    BY DEF Sound
  <1>2. /\ c.data \in Strings /\ Length(c.data) \in Nat /\ c.fsize \in Nat /\ c.size \in Nat
        /\ \A x \in Range(c.blocks) : x \in BlockSet
    BY <1>1, CacheIs
  <1>3. ASSUME NEW i \in Nat
        PROVE  ByteAt(c, i) \in Bytes /\ (i >= c.size => ByteAt(c, i) = 0)
    <2>1. At(c.data, i) \in Bytes /\ (i >= c.size => At(c.data, i) = 0)
      BY <1>1, <1>2, AtIs
    <2>2. CASE \E b \in Range(c.blocks) : b.start = Base(i)
      <3>1. PICK b \in Range(c.blocks) : b.start = Base(i)
        BY <2>2
      <3>2. ByteAt(c, i) = b.buf[i - b.start]
        BY <1>1, <3>1, ByteAtIs
      <3>3. i - b.start \in 0 .. BlockSize - 1
        <4> DEFINE z == Base(i)
        <4>1. z \in Nat /\ z <= i /\ i < z + BlockSize
          BY BaseIs
        <4> HIDE DEF z
        <4>2. i - z \in 0 .. BlockSize - 1
          BY <4>1, BlockWriteStreamAssumption
        <4> QED  BY <3>1, <4>2 DEF z
      <3>4. b.buf[i - b.start] \in Bytes
        BY <1>2, <3>3, BlockIs
      <3>5. i >= c.size => b.buf[i - b.start] = At(c.data, i)
        <4>1. AsInFile(c, b) /\ b.mend \in Int
          BY <1>1, <1>2, BlockIs
        <4>2. i >= c.size => ~ Modified(b, i)
          BY <1>2, <4>1 DEF AsInFile, Modified
        <4> QED  BY <3>1, <4>1, <4>2 DEF AsInFile
      <3> QED  BY <2>1, <3>2, <3>4, <3>5
    <2>3. CASE \A b \in Range(c.blocks) : b.start # Base(i)
      <3>1. ByteAt(c, i) = At(c.data, i)
        BY <1>1, <2>3, ByteAtIs
      <3> QED  BY <2>1, <3>1
    <2> QED  BY <2>2, <2>3
  <1> DEFINE f == Whole(c)
  <1>4. f = [i \in 0 .. c.size - 1 |-> ByteAt(c, i)]
    BY DEF Whole
  <1> HIDE DEF f
  <1>5. f \in OfLength(c.size)
    <2>1. \A i \in 0 .. c.size - 1 : ByteAt(c, i) \in Bytes
      BY <1>3
    <2> QED  BY <1>4, <2>1 DEF OfLength
  <1>6. f \in Strings /\ Length(f) = c.size
    BY <1>2, <1>5, IsString
  <1>7. ASSUME NEW i \in Nat  PROVE At(f, i) = ByteAt(c, i)
    <2>1. CASE i < c.size
      <3>1. At(f, i) = f[i] /\ i \in 0 .. c.size - 1
        BY <1>2, <1>6, <2>1, AtIs
      <3> QED  BY <1>4, <3>1
    <2>2. CASE ~(i < c.size)
      <3>1. At(f, i) = 0
        BY <1>2, <1>6, <2>2, AtIs
      <3> QED  BY <1>2, <1>3, <2>2, <3>1
    <2> QED  BY <2>1, <2>2
  <1> QED  BY <1>6, <1>7 DEF f

LEMMA SameWhole ==
    ASSUME NEW c, NEW d, c.size = d.size, c.size \in Nat, \A i \in Nat : ByteAt(d, i) = ByteAt(c, i)
    PROVE  Whole(d) = Whole(c)
  <1>1. \A i \in 0 .. c.size - 1 : ByteAt(d, i) = ByteAt(c, i)
    OBVIOUS
  <1> QED  BY <1>1, Zenon DEF Whole

\* What is in the file when all blocks have been written: nothing is missing but zeros.
LEMMA ClosedIs ==
    ASSUME NEW c, Sound(c)
    PROVE  LET e == Flushed(c, Len(c.blocks)) IN
           /\ Sound(e) /\ e.size = c.size /\ Len(e.blocks) = 0 /\ Range(e.blocks) = {}
           /\ \A i \in Nat : ByteAt(e, i) = ByteAt(c, i) /\ ByteAt(e, i) = At(e.data, i)
           /\ Length(e.data) # c.size => c.size > 0 /\ ByteAt(c, c.size - 1) = 0
  <1> DEFINE n == Len(c.blocks)
             e == Flushed(c, n)
  <1>1. n \in 0 .. Len(c.blocks) /\ n \in Nat /\ n = Len(c.blocks) /\ c.size \in Nat
    BY CacheIs DEF Sound
  <1>2. /\ Sound(e) /\ e.size = c.size /\ Len(e.blocks) = Len(c.blocks) - n
        /\ \A i \in Nat : ByteAt(e, i) = ByteAt(c, i)
    <2> HIDE DEF n
    <2> QED  BY <1>1, FlushedIs
  <1> HIDE DEF e, n
  <1>3. /\ e \in CacheSet /\ Apart(e.blocks) /\ Length(e.data) <= e.fsize /\ e.fsize <= e.size
        /\ e.data \in Strings /\ Length(e.data) \in Nat /\ e.fsize \in Nat
        /\ e.blocks \in Seq(BlockSet) /\ Len(e.blocks) = 0
    BY <1>1, <1>2, CacheIs DEF Sound
  <1>4. Range(e.blocks) = {}
    BY <1>3, RangeIs
  <1>5. \A i \in Nat : ByteAt(e, i) = At(e.data, i)
    BY <1>3, <1>4, ByteAtIs
  <1>6. ASSUME Length(e.data) # c.size  PROVE c.size > 0 /\ ByteAt(c, c.size - 1) = 0
    <2>1. c.size > 0 /\ c.size - 1 \in Nat /\ c.size - 1 >= Length(e.data)
      BY <1>1, <1>2, <1>3, <1>6
    <2>2. At(e.data, c.size - 1) = 0
      BY <1>3, <2>1, AtIs
    <2> QED  BY <1>2, <1>5, <2>1, <2>2
  <1> QED  BY <1>2, <1>3, <1>4, <1>5, <1>6 DEF e, n

\* The stream that is left when another one is opened on a file that has all bytes.
LEMMA ReopenedIs ==
    ASSUME NEW c, Sound(c), Length(Flushed(c, Len(c.blocks)).data) = c.size
    PROVE  LET d == NewStream(Flushed(c, Len(c.blocks)).data) IN
           /\ Sound(d) /\ Counted(d) /\ d.size = c.size /\ d.fpos = 0
           /\ Whole(d) = Whole(c)
  <1> DEFINE n == Len(c.blocks)
             e == Flushed(c, n)
             d == NewStream(e.data)
  <1>1. c.size \in Nat
    BY CacheIs DEF Sound
  <1>2. /\ Sound(e) /\ e.size = c.size
        /\ \A i \in Nat : ByteAt(e, i) = ByteAt(c, i) /\ ByteAt(e, i) = At(e.data, i)
    BY ClosedIs
  <1>5. Length(e.data) = c.size
    OBVIOUS
  <1> HIDE DEF e
  <1>3. e \in CacheSet /\ e.size % SectorSize = 0 /\ e.data \in Strings /\ Length(e.data) \in Nat
    BY <1>2, CacheIs DEF Sound
  <1>6. d = [data |-> e.data, fsize |-> c.size, fpos |-> 0, size |-> c.size, blocks |-> <<>>, count |-> 0]
    BY <1>5, Zenon DEF NewStream
  <1> HIDE DEF d
  <1>7. <<>> \in Seq(BlockSet) /\ Len(<<>>) = 0 /\ Range(<<>>) = {} /\ Apart(<<>>)
    BY EmptyRange DEF Apart
  <1>8. d \in CacheSet
    <2> DEFINE z == <<>>
    <2>1. z \in Seq(BlockSet) /\ d = [data |-> e.data, fsize |-> c.size, fpos |-> 0, size |-> c.size,
                                      blocks |-> z, count |-> 0]
      BY <1>6, <1>7
    <2> HIDE DEF z
    <2> QED  BY <1>1, <1>3, <2>1 DEF CacheSet
  <1>9. /\ d.data = e.data /\ d.fsize = c.size /\ d.fpos = 0 /\ d.size = c.size /\ d.blocks = <<>> /\ d.count = 0
    BY <1>6
  <1>10. Sound(d)
    BY <1>1, <1>2, <1>3, <1>5, <1>7, <1>8, <1>9 DEF Sound
  <1>11. Counted(d)
    BY <1>7, <1>9 DEF Counted
  <1>12. ASSUME NEW i \in Nat  PROVE ByteAt(d, i) = ByteAt(c, i)
    <2>1. ByteAt(d, i) = At(d.data, i)
      BY <1>7, <1>8, <1>9, ByteAtIs
    <2> QED  BY <1>2, <1>9, <2>1
  <1>13. Whole(d) = Whole(c)
    BY <1>1, <1>9, <1>12, SameWhole
  <1> QED  BY <1>9, <1>10, <1>11, <1>13 DEF d, e, n

\* d has what c has, and the bytes s at p.
WordPut(c, p, s, d) ==
    /\ d.size = Longer(c.size, p + Length(s))
    /\ \A i \in Nat : ByteAt(d, i) = IF p <= i /\ i < p + Length(s) THEN s[i - p] ELSE ByteAt(c, i)

\* A write puts its bytes into what the stream has.
LEMMA WrittenWhole ==
    ASSUME NEW c, Sound(c), NEW d, Sound(d), NEW p \in Nat, NEW s \in Strings,
           WordPut(c, p, s, d)
    PROVE  Whole(d) = Put(Whole(c), p, s)
  <1>0. /\ d.size = Longer(c.size, p + Length(s))
        /\ \A i \in Nat : ByteAt(d, i) = IF p <= i /\ i < p + Length(s) THEN s[i - p] ELSE ByteAt(c, i)
    BY DEF WordPut
  <1> DEFINE f == Whole(c)
             g == Whole(d)
             h == Put(f, p, s)
  <1>1. /\ f \in Strings /\ Length(f) = c.size
        /\ \A i \in Nat : At(f, i) = ByteAt(c, i)
    BY WholeIs
  <1>2. /\ g \in Strings /\ Length(g) = d.size
        /\ \A i \in Nat : At(g, i) = ByteAt(d, i)
    BY WholeIs
  <1> HIDE DEF f, g
  <1>3. /\ h \in Strings
        /\ Length(h) = IF Length(f) >= p + Length(s) THEN Length(f) ELSE p + Length(s)
        /\ \A i \in Nat : At(h, i) = IF p <= i /\ i < p + Length(s) THEN s[i - p] ELSE At(f, i)
    BY <1>1, PutIs
  <1> HIDE DEF h
  <1>4. Length(g) = Length(h) /\ Length(g) \in Nat
    BY <1>0, <1>1, <1>2, <1>3, StringIs DEF Longer
  <1>5. \A i \in 0 .. Length(g) - 1 : At(g, i) = At(h, i)
    BY <1>0, <1>1, <1>2, <1>3, <1>4
  <1>6. g = h
    BY <1>2, <1>3, <1>4, <1>5, SameString
  <1> QED  BY <1>6 DEF f, g, h

\* A read gives a part of it.
LEMMA ReadWhole ==
    ASSUME NEW c, Sound(c), NEW p \in Nat, NEW s \in Strings, Length(s) = 0 \/ p + Length(s) <= c.size,
           \A j \in 0 .. Length(s) - 1 : s[j] = ByteAt(c, p + j)
    PROVE  s = Slice(Whole(c), p, Length(s))
  <1> DEFINE f == Whole(c)
             k == Length(s)
             g == Slice(f, p, k)
  <1>1. /\ f \in Strings /\ Length(f) = c.size
        /\ \A i \in Nat : At(f, i) = ByteAt(c, i)
    BY WholeIs
  <1>2. k \in Nat /\ k \in Int
    BY StringIs
  <1> HIDE DEF f, k
  <1>3. /\ g \in Strings
        /\ Length(g) = IF k <= 0 \/ Length(f) <= p THEN 0
                       ELSE IF p + k <= Length(f) THEN k ELSE Length(f) - p
        /\ \A i \in 0 .. Length(g) - 1 : g[i] = At(f, p + i)
    BY <1>1, <1>2, SliceIs
  <1> HIDE DEF g
  <1>4. Length(s) = Length(g) /\ Length(s) = k
    <2>1. Length(f) \in Nat
      BY <1>1, StringIs
    <2>2. k = 0 \/ p + k <= Length(f)
      BY <1>1 DEF k
    <2>3. Length(g) = k
      BY <1>2, <1>3, <2>1, <2>2
    <2> QED  BY <2>3 DEF k
  <1>5. ASSUME NEW i \in 0 .. Length(s) - 1  PROVE At(s, i) = At(g, i)
    <2>1. i \in Nat /\ i < Length(s) /\ i < Length(g) /\ p + i \in Nat
      BY <1>2, <1>4
    <2>2. At(s, i) = s[i] /\ At(g, i) = g[i]
      BY <1>3, <2>1, AtIs
    <2>3. g[i] = At(f, p + i)
      BY <1>3, <1>4
    <2> QED  BY <1>1, <2>1, <2>2, <2>3
  <1>6. s = g
    BY <1>3, <1>4, <1>5, SameString
  <1> QED  BY <1>6 DEF g, f, k

-----------------------------------------------------------------------------
(* The stream, and what it promises. *)

\* No file was left too short: it has nothing that the stream does not know, every block is as the file but for
\* what it has to write, and the file's position is behind its end only while the stream's is.
StreamInv ==
    /\ Sound(cache) /\ Counted(cache) /\ cache.size <= MaxSize
    /\ pos \in Nat /\ (cache.fpos <= cache.size \/ cache.fpos = pos)
    /\ short = FALSE

LEMMA ContentIs == Content = Whole(cache) /\ Content' = Whole(cache')
  BY Zenon DEF Content, Whole, ByteAt, At, Hits

LEMMA InvIs ==
    ASSUME StreamInv
    PROVE  /\ cache \in CacheSet /\ cache.size \in Nat /\ cache.fpos \in Nat /\ cache.fsize \in Nat
           /\ cache.data \in Strings /\ Length(cache.data) \in Nat
           /\ cache.blocks \in Seq(BlockSet) /\ DOMAIN cache.blocks = 1 .. Len(cache.blocks)
           /\ Len(cache.blocks) \in Nat /\ cache.count \in Nat
           /\ Content \in Strings /\ Length(Content) = cache.size
  BY CacheIs, WholeIs, ContentIs DEF StreamInv, Sound

LEMMA SameArrays ==
    /\ Abstract!Zeros(0) = Zeros(0)
    /\ \A f : Abstract!Length(f) = Length(f)
    /\ \A f, p, s : Abstract!Put(f, p, s) = Put(f, p, s)
    /\ \A f, p, n : Abstract!Slice(f, p, n) = Slice(f, p, n)
  <1>1. Abstract!Zeros(0) = Zeros(0) /\ \A f : Abstract!Length(f) = Length(f)
    BY Zenon DEF Abstract!Zeros, Zeros, Abstract!Length, Length, Abstract!Cardinality, Cardinality
  <1>2. ASSUME NEW f, NEW p, NEW s  PROVE Abstract!Put(f, p, s) = Put(f, p, s)
    BY Zenon DEF Abstract!Length, Abstract!Put, Abstract!Max, Abstract!Cardinality,
              Length, Put, Max, Cardinality
  <1>3. ASSUME NEW f, NEW p, NEW n  PROVE Abstract!Slice(f, p, n) = Slice(f, p, n)
    BY Zenon DEF Abstract!Length, Abstract!Slice, Abstract!Max, Abstract!Min, Abstract!Cardinality,
              Length, Slice, Max, Min, Cardinality
  <1> QED  BY <1>1, <1>2, <1>3

LEMMA EndIs ==
    ASSUME NEW c, Sound(c)
    PROVE  Abstract!EndsInZero(Whole(c)) <=> c.size > 0 /\ ByteAt(c, c.size - 1) = 0
  <1> DEFINE f == Whole(c)
  <1>1. /\ f \in Strings /\ Length(f) = c.size /\ c.size \in Nat
        /\ \A i \in Nat : At(f, i) = ByteAt(c, i)
    BY WholeIs, CacheIs DEF Sound
  <1>2. Abstract!EndsInZero(f) <=> f # Zeros(0) /\ f[Length(f) - 1] = 0
    BY SameArrays, Zenon DEF Abstract!EndsInZero
  <1> HIDE DEF f
  <1>3. f = Zeros(0) <=> c.size = 0
    <2>1. Zeros(0) \in Strings /\ Length(Zeros(0)) = 0
      BY NoBytes
    <2>2. ASSUME c.size = 0  PROVE f = Zeros(0)
      <3>1. \A i \in 0 .. Length(f) - 1 : At(f, i) = At(Zeros(0), i)
        BY <1>1, <2>2
      <3> QED  BY <1>1, <2>1, <2>2, <3>1, SameString
    <2> QED  BY <1>1, <2>1, <2>2
  <1>4. ASSUME c.size > 0  PROVE f[Length(f) - 1] = ByteAt(c, c.size - 1)
    <2>1. c.size - 1 \in Nat /\ c.size - 1 < Length(f)
      BY <1>1, <1>4
    <2>2. At(f, c.size - 1) = f[c.size - 1]
      BY <1>1, <2>1, AtIs
    <2> QED  BY <1>1, <2>1, <2>2
  <1> QED  BY <1>1, <1>2, <1>3, <1>4 DEF f

LEMMA StreamStarts ==
    ASSUME StreamInit
    PROVE  StreamInv /\ Content = Zeros(0)
  <1> DEFINE z == Zeros(0)
             e == <<>>
  <1>1. z \in Strings /\ Length(z) = 0 /\ DOMAIN z = {}
    BY NoBytes, StringIs
  <1>2. e \in Seq(BlockSet) /\ Len(e) = 0 /\ Range(e) = {} /\ Apart(e) /\ DOMAIN e = {}
    BY EmptyRange DEF Apart
  <1>3. /\ cache = [data |-> z, fsize |-> 0, fpos |-> 0, size |-> 0, blocks |-> e, count |-> 0]
        /\ pos = 0 /\ short = FALSE
    BY <1>1, Zenon DEF StreamInit, NewStream
  <1> HIDE DEF z, e
  <1>4. 0 % SectorSize = 0 /\ MaxSize \in Nat
    BY BlockWriteStreamAssumption
  <1>5. /\ cache.data = z /\ cache.fsize = 0 /\ cache.fpos = 0 /\ cache.size = 0 /\ cache.blocks = e
        /\ cache.count = 0
    BY <1>3
  <1>6. Sound(cache)
    <2>1. cache \in CacheSet
      BY <1>1, <1>2, <1>3 DEF CacheSet
    <2> QED  BY <1>1, <1>2, <1>4, <1>5, <2>1 DEF Sound
  <1>7. StreamInv
    BY <1>1, <1>2, <1>3, <1>4, <1>5, <1>6 DEF StreamInv, Counted
  <1>8. Content = z
    <2>1. Content \in Strings /\ Length(Content) = 0
      BY <1>5, <1>7, InvIs
    <2> QED  BY <1>1, <2>1, SameString
  <1> QED  BY <1>7, <1>8 DEF z

LEMMA SeekKeeps ==
    ASSUME StreamInv, NEW m \in Positions, Seek(m)
    PROVE  StreamInv' /\ Content' = Content
  <1>1. /\ m \in Nat /\ cache' = [cache EXCEPT !.fpos = m] /\ pos' = m /\ short' = FALSE
        /\ Sound(cache) /\ cache.size \in Nat
    BY InvIs, BlockWriteStreamAssumption DEF Seek, StreamInv
  <1>2. /\ Sound(cache') /\ cache'.fpos = m /\ cache'.size = cache.size /\ cache'.blocks = cache.blocks
        /\ cache'.count = cache.count
        /\ \A i \in Nat : ByteAt(cache', i) = ByteAt(cache, i)
    BY <1>1, MovedIs
  <1>3. StreamInv'
    BY <1>1, <1>2 DEF StreamInv, Counted
  <1>4. Whole(cache') = Whole(cache)
    BY <1>1, <1>2, SameWhole
  <1> QED  BY <1>3, <1>4, ContentIs

LEMMA WriteKeeps ==
    ASSUME WordsAssumption, StreamInv, NEW s \in Words, Write(s)
    PROVE  StreamInv' /\ Content' = Put(Content, pos, s)
  <1> DEFINE n == Length(s)
             d == AfterWrite(cache, pos, s)
  <1>1. /\ Sound(cache) /\ Counted(cache) /\ cache.size \in Nat /\ cache.fpos \in Nat
        /\ cache.size % SectorSize = 0 /\ pos \in Nat /\ MaxSize \in Nat /\ SectorSize \in Nat
        /\ cache.fpos <= cache.size \/ cache.fpos = pos
    BY InvIs, BlockWriteStreamAssumption DEF StreamInv, Sound
  <1>2. n \in Nat \ {0} /\ s \in Strings /\ BlockSize % SectorSize = 0 /\ SectorSize >= 3
    BY DEF WordsAssumption, Strings, OfLength
  <1>3. /\ pos % SectorSize = 0 /\ pos < cache.size + SectorSize /\ pos + n <= MaxSize
        /\ n % SectorSize = 0 \/ pos + n <= cache.size
        /\ cache' = d /\ pos' = pos + n /\ short' = FALSE
    BY Zenon DEF Write, AfterWrite, StreamInv
  <1>4. pos <= cache.size
    <2>1. cache.size < pos => cache.size + SectorSize <= pos
      BY <1>1, <1>3, WholeSectors
    <2> QED  BY <1>1, <1>3, <2>1
  <1>5. cache \in Streams
    BY <1>1, <1>4, InvIs DEF Streams
  <1> HIDE DEF d
  <1>6. /\ d \in Streams /\ d.size = Longer(cache.size, pos + n)
        /\ \A i \in Nat : ByteAt(d, i) = IF pos <= i /\ i < pos + n THEN s[i - pos] ELSE ByteAt(cache, i)
    <2>1. n >= 1 /\ AtEndWhole(cache, pos, s)
      BY <1>2, <1>3 DEF AtEndWhole
    <2> QED  BY <1>1, <1>2, <1>3, <1>4, <1>5, <2>1, WriteIs, Zenon DEF d, n
  <1> HIDE DEF n
  <1>7. Sound(d) /\ d.fpos <= d.size /\ Counted(d)
    BY <1>6 DEF Streams
  <1>8. d.size <= MaxSize
    <2>1. cache.size <= MaxSize
      BY DEF StreamInv
    <2> QED  BY <1>3, <1>6, <2>1 DEF Longer
  <1>9. pos' \in Nat
    BY <1>1, <1>2, <1>3
  <1>10. StreamInv'
    BY <1>1, <1>3, <1>6, <1>7, <1>8, <1>9 DEF StreamInv
  <1>11. Whole(d) = Put(Whole(cache), pos, s)
    <2>1. WordPut(cache, pos, s, d)
      BY <1>6, Zenon DEF WordPut, n
    <2> QED  BY <1>1, <1>2, <1>7, <2>1, WrittenWhole
  <1> QED  BY <1>3, <1>10, <1>11, ContentIs

LEMMA ReadKeeps ==
    ASSUME StreamInv, NEW n \in Counts, Read(n)
    PROVE  /\ StreamInv' /\ Content' = Content
           /\ \E k \in 0 .. n :
                  /\ got' = Slice(Content, pos, k)
                  /\ k < n /\ pos + k \in DOMAIN Content => Content[pos + k] = 0
                  /\ pos' = pos + Length(got')
  <1> DEFINE count == Max({0, Min({n, cache.size - pos})})
             r == AfterRead(cache, pos, count)
             k == Length(r.bytes)
  <1>1. /\ Sound(cache) /\ Counted(cache) /\ cache.size \in Nat /\ cache.fpos \in Nat
        /\ pos \in Nat /\ n \in Nat /\ cache.size <= MaxSize
        /\ cache.fpos <= cache.size \/ cache.fpos = pos
    BY InvIs, BlockWriteStreamAssumption DEF StreamInv, Sound
  <1>2. cache' = r.cache /\ got' = r.bytes /\ pos' = pos + k /\ short' = FALSE
    BY Zenon DEF Read, AfterRead, StreamInv
  <1>3. /\ count \in Nat /\ count <= n /\ (count = 0 \/ pos + count <= cache.size)
        /\ count < n => pos + count >= cache.size
    <2>1. Min({n, cache.size - pos}) = IF n <= cache.size - pos THEN n ELSE cache.size - pos
      BY <1>1, SmallerOf
    <2>2. count = IF 0 >= Min({n, cache.size - pos}) THEN 0 ELSE Min({n, cache.size - pos})
      <3>1. 0 \in Int /\ Min({n, cache.size - pos}) \in Int
        BY <1>1, <2>1
      <3> QED  BY <3>1, LargerOf
    <2> HIDE DEF count
    <2> QED  BY <1>1, <2>1, <2>2
  <1> HIDE DEF count
  <1>4. count = 0 \/ (pos + count <= cache.size /\ cache.fpos <= cache.size)
    BY <1>1, <1>3
  <1>5. PartRead(cache, pos, pos + count, r)
    BY <1>1, <1>3, <1>4, ReadIs
  <1> HIDE DEF r
  <1>6. /\ r.bytes \in Strings
        /\ Sound(r.cache) /\ Counted(r.cache) /\ r.cache.size = cache.size
        /\ r.cache.fpos <= cache.size \/ r.cache.fpos = cache.fpos
        /\ \A i \in Nat : ByteAt(r.cache, i) = ByteAt(cache, i)
        /\ pos + Length(r.bytes) <= pos + count
        /\ \A j \in 0 .. Length(r.bytes) - 1 : r.bytes[j] = ByteAt(cache, pos + j)
        /\ IF r.ok THEN pos + Length(r.bytes) = pos + count ELSE ByteAt(cache, pos + Length(r.bytes)) = 0
    BY <1>5 DEF PartRead
  <1>7. /\ k \in Nat /\ k <= count /\ (r.ok => k = count) /\ (~ r.ok => ByteAt(cache, pos + k) = 0)
        /\ pos + k \in Nat /\ k \in 0 .. n
    <2>1. k \in Nat
      BY <1>6, StringIs
    <2>2. /\ pos + k <= pos + count /\ (r.ok => pos + k = pos + count)
          /\ ~ r.ok => ByteAt(cache, pos + k) = 0
      BY <1>6
    <2> HIDE DEF k
    <2> QED  BY <1>1, <1>3, <2>1, <2>2
  <1>8. StreamInv'
    <2>1. pos' \in Nat
      BY <1>2, <1>7
    <2>2. r.cache.fpos <= cache.size \/ r.cache.fpos = pos'
      <3> HIDE DEF k
      <3>1. CASE cache.fpos <= cache.size
        BY <1>6, <3>1
      <3>2. CASE ~(cache.fpos <= cache.size)
        <4>1. cache.fpos = pos /\ pos > cache.size
          BY <1>1, <3>2
        <4>2. count = 0
          BY <1>1, <1>3, <4>1
        <4>3. pos' = pos
          BY <1>1, <1>2, <1>7, <4>2
        <4> QED  BY <1>6, <4>1, <4>3
      <3> QED  BY <3>1, <3>2
    <2> QED  BY <1>1, <1>2, <1>6, <2>1, <2>2 DEF StreamInv
  <1>9. Content' = Content
    <2>1. Whole(r.cache) = Whole(cache)
      BY <1>1, <1>6, SameWhole
    <2> QED  BY <1>2, <2>1, ContentIs
  <1>10. got' = Slice(Content, pos, k)
    <2>1. Length(r.bytes) = 0 \/ pos + Length(r.bytes) <= cache.size
      <3> HIDE DEF k
      <3>1. k = 0 \/ pos + k <= cache.size
        BY <1>1, <1>3, <1>7
      <3> QED  BY <3>1 DEF k
    <2>2. r.bytes = Slice(Whole(cache), pos, Length(r.bytes))
      BY <1>1, <1>6, <2>1, ReadWhole
    <2> QED  BY <1>2, <2>2, ContentIs
  <1>11. ASSUME k < n, pos + k \in DOMAIN Content  PROVE Content[pos + k] = 0
    <2> HIDE DEF k
    <2>1. /\ DOMAIN Content = 0 .. cache.size - 1 /\ Content[pos + k] = ByteAt(cache, pos + k)
          /\ pos + k < cache.size
      BY <1>1, <1>7, <1>11, ContentIs DEF Whole
    <2>2. ~ r.ok
      BY <1>1, <1>3, <1>7, <1>11, <2>1
    <2> QED  BY <1>7, <2>1, <2>2
  <1>12. pos' = pos + Length(got')
    BY <1>2
  <1> HIDE DEF k
  <1> QED  BY <1>7, <1>8, <1>9, <1>10, <1>11, <1>12

LEMMA FlushKeeps ==
    ASSUME StreamInv, NEW n \in 0 .. BlockCount, Flush(n)
    PROVE  StreamInv' /\ Content' = Content
  <1>1. /\ Sound(cache) /\ Counted(cache) /\ cache.size \in Nat /\ Len(cache.blocks) \in Nat
        /\ cache.size <= MaxSize /\ cache.count \in Nat
        /\ pos \in Nat /\ (cache.fpos <= cache.size \/ cache.fpos = pos)
    BY InvIs DEF StreamInv
  <1>2. /\ n \in Min({1, Len(cache.blocks)}) .. Len(cache.blocks)
        /\ cache' = Flushed(cache, n) /\ pos' = pos /\ short' = FALSE
    BY DEF Flush, StreamInv
  <1>3. n \in 0 .. Len(cache.blocks)
    BY <1>1, <1>2, SmallerOf
  <1>4. /\ Sound(cache') /\ cache'.size = cache.size /\ cache'.count = cache.count
        /\ Len(cache'.blocks) = Len(cache.blocks) - n
        /\ \A i \in Nat : ByteAt(cache', i) = ByteAt(cache, i)
        /\ cache'.fpos <= cache.size \/ cache'.fpos = cache.fpos
    BY <1>1, <1>2, <1>3, FlushedIs
  <1>5. Counted(cache')
    <2>1. cache'.count = cache.count /\ Len(cache'.blocks) = Len(cache.blocks) - n /\ BlockCount \in Nat
      BY <1>4, BlockWriteStreamAssumption
    <2> QED  BY <1>1, <1>3, <2>1 DEF Counted
  <1>6. StreamInv'
    BY <1>1, <1>2, <1>4, <1>5 DEF StreamInv
  <1>7. Whole(cache') = Whole(cache)
    BY <1>1, <1>4, SameWhole
  <1> QED  BY <1>6, <1>7, ContentIs

\* Another stream goes on with what there is, or the file was left too short.
LEMMA ReopenKeeps ==
    ASSUME StreamInv, Reopen
    PROVE  \/ StreamInv' /\ Content' = Content
           \/ short' = TRUE /\ Abstract!EndsInZero(Content)
  <1> DEFINE file == Flushed(cache, Len(cache.blocks)).data
  <1>1. Sound(cache) /\ cache.size \in Nat /\ cache.size <= MaxSize /\ short = FALSE
    BY InvIs DEF StreamInv
  <1>2. /\ cache' = NewStream(file) /\ pos' = 0
        /\ short' = (short \/ Length(file) # cache.size)
    BY DEF Reopen
  <1>3. CASE Length(file) = cache.size
    <2>1. /\ Sound(cache') /\ Counted(cache') /\ cache'.size = cache.size
          /\ cache'.fpos = 0 /\ Whole(cache') = Whole(cache)
      BY <1>1, <1>2, <1>3, ReopenedIs
    <2>2. short' = FALSE
      BY <1>1, <1>2, <1>3, Zenon
    <2> HIDE DEF file
    <2>3. StreamInv'
      BY <1>1, <1>2, <2>1, <2>2 DEF StreamInv
    <2> QED  BY <2>1, <2>3, ContentIs
  <1>4. CASE Length(file) # cache.size
    <2>1. cache.size > 0 /\ ByteAt(cache, cache.size - 1) = 0
      BY <1>1, <1>4, ClosedIs
    <2>2. Abstract!EndsInZero(Content)
      BY <1>1, <2>1, EndIs, ContentIs
    <2>3. short' = TRUE
      BY <1>2, <1>4, Zenon
    <2> QED  BY <2>2, <2>3
  <1> QED  BY <1>3, <1>4

LEMMA StillKeeps ==
    ASSUME StreamInv, UNCHANGED streamVars
    PROVE  StreamInv' /\ Content' = Content
  <1>1. cache' = cache /\ pos' = pos /\ short' = FALSE
    BY DEF streamVars, StreamInv
  <1>2. Content' = Content
    BY <1>1, ContentIs
  <1> QED  BY <1>1, <1>2 DEF StreamInv

\* A word that is filled up keeps the end of what the stream has from being a zero.
LEMMA EndKept ==
    ASSUME PaddedWords, StreamInv, NEW s \in Words, Write(s), ~ Abstract!EndsInZero(Content)
    PROVE  ~ Abstract!EndsInZero(Content')
  <1> DEFINE n == Length(s)
             l == cache'.size - 1
  <1>1. /\ WordsAssumption /\ n \in Nat \ {0} /\ s \in Strings /\ DOMAIN s = 0 .. n - 1
        /\ n % SectorSize = 0 => s[n - 1] # 0
    BY DEF PaddedWords, WordsAssumption, Strings, OfLength
  <1>2. /\ StreamInv' /\ Content' = Put(Content, pos, s) /\ pos \in Nat /\ Sound(cache) /\ Sound(cache')
        /\ Content \in Strings /\ Length(Content) = cache.size /\ cache.size \in Nat
        /\ cache.size % SectorSize = 0 /\ cache'.size \in Nat /\ Length(Content') = cache'.size
        /\ Content' \in Strings
    <2>1. StreamInv' /\ Content' = Put(Content, pos, s)
      BY <1>1, WriteKeeps
    <2>2. Content' = Whole(cache') /\ cache' \in CacheSet /\ Sound(cache')
      BY <2>1, ContentIs DEF StreamInv, Sound
    <2> QED  BY <2>1, <2>2, InvIs, WholeIs, CacheIs DEF StreamInv, Sound
  <1>3. /\ pos % SectorSize = 0
        /\ n % SectorSize = 0 \/ pos + n <= cache.size
    BY Zenon DEF Write
  <1>4. /\ Length(Content') = IF cache.size >= pos + n THEN cache.size ELSE pos + n
        /\ \A i \in Nat : At(Content', i) = IF pos <= i /\ i < pos + n THEN s[i - pos] ELSE At(Content, i)
    <2> DEFINE f == Content
    <2>1. f \in Strings /\ Length(f) = cache.size /\ Content' = Put(f, pos, s)
      BY <1>2
    <2> HIDE DEF f
    <2>2. /\ Length(Put(f, pos, s)) = IF Length(f) >= pos + n THEN Length(f) ELSE pos + n
          /\ \A i \in Nat : At(Put(f, pos, s), i) = IF pos <= i /\ i < pos + n THEN s[i - pos] ELSE At(f, i)
      BY <1>1, <1>2, <2>1, PutIs
    <2> QED  BY <2>1, <2>2 DEF f
  <1>5. \A i \in Nat : At(Content, i) = ByteAt(cache, i)
    BY <1>2, WholeIs, ContentIs
  <1>6. \A i \in Nat : At(Content', i) = ByteAt(cache', i)
    BY <1>2, WholeIs, ContentIs
  <1> HIDE DEF n
  <1>7. n % SectorSize # 0 => pos + n # cache.size
    <2>1. ASSUME pos + n = cache.size  PROVE n % SectorSize = 0
      <3>1. pos <= cache.size /\ cache.size - pos = n
        BY <1>1, <1>2, <2>1
      <3> QED  BY <1>2, <1>3, <3>1, WholeSectors
    <2> QED  BY <2>1
  <1>8. /\ l \in Nat /\ cache'.size > 0
        /\ \/ pos + n > l /\ l = pos + n - 1 /\ n % SectorSize = 0
           \/ pos + n <= l /\ l = cache.size - 1
    BY <1>1, <1>2, <1>3, <1>4, <1>7
  <1>9. ByteAt(cache', l) # 0
    <2>1. CASE pos + n > l
      <3>1. l = pos + n - 1 /\ n % SectorSize = 0 /\ pos <= l /\ l < pos + n /\ l - pos = n - 1
        BY <1>1, <1>2, <1>8, <2>1
      <3> QED  BY <1>1, <1>4, <1>6, <1>8, <3>1 DEF n
    <2>2. CASE pos + n <= l
      <3>1. l = cache.size - 1 /\ cache.size > 0 /\ ~(l < pos + n)
        BY <1>1, <1>2, <1>8, <2>2
      <3>2. ByteAt(cache, cache.size - 1) # 0
        BY <1>2, <3>1, EndIs, ContentIs
      <3> QED  BY <1>4, <1>5, <1>6, <1>8, <3>1, <3>2
    <2> QED  BY <1>1, <1>2, <1>8, <2>1, <2>2
  <1>10. Abstract!EndsInZero(Content') <=> cache'.size > 0 /\ ByteAt(cache', cache'.size - 1) = 0
    BY <1>2, EndIs, ContentIs
  <1> QED  BY <1>9, <1>10

\* As long as no file was left too short, a step keeps the invariant or leaves one so.
LEMMA StepKeeps ==
    ASSUME WordsAssumption, StreamInv, [StreamNext]_streamVars
    PROVE  StreamInv' \/ short' = TRUE
  <1>1. CASE \E m \in Positions : Seek(m)
    BY <1>1, SeekKeeps
  <1>2. CASE \E s \in Words : Write(s)
    BY <1>2, WriteKeeps
  <1>3. CASE \E n \in Counts : Read(n)
    BY <1>3, ReadKeeps
  <1>4. CASE \E n \in 0 .. BlockCount : Flush(n)
    BY <1>4, FlushKeeps
  <1>5. CASE Reopen
    BY <1>5, ReopenKeeps
  <1>6. CASE UNCHANGED streamVars
    BY <1>6, StillKeeps
  <1> QED  BY <1>1, <1>2, <1>3, <1>4, <1>5, <1>6 DEF StreamNext

\* The history variable is never reset.
LEMMA StaysShort ==
    ASSUME short = TRUE, [StreamNext]_streamVars
    PROVE  short' = TRUE
  <1>1. CASE \E m \in Positions : Seek(m)
    BY <1>1, Zenon DEF Seek
  <1>2. CASE \E s \in Words : Write(s)
    BY <1>2, Zenon DEF Write
  <1>3. CASE \E n \in Counts : Read(n)
    BY <1>3, Zenon DEF Read
  <1>4. CASE \E n \in 0 .. BlockCount : Flush(n)
    BY <1>4, Zenon DEF Flush
  <1>5. CASE Reopen
    BY <1>5, Zenon DEF Reopen
  <1>6. CASE UNCHANGED streamVars
    BY <1>6 DEF streamVars
  <1> QED  BY <1>1, <1>2, <1>3, <1>4, <1>5, <1>6 DEF StreamNext

\* The invariant that the properties of the stream need, of whatever bytes are written.
LEMMA StreamSound ==
    ASSUME WordsAssumption
    PROVE  StreamSpec => [](short = TRUE \/ StreamInv)
  <1>1. StreamInit => StreamInv
    BY StreamStarts
  <1>2. (short = TRUE \/ StreamInv) /\ [StreamNext]_streamVars => (short = TRUE \/ StreamInv)'
    <2> SUFFICES ASSUME short = TRUE \/ StreamInv, [StreamNext]_streamVars
                 PROVE  short' = TRUE \/ StreamInv'
      OBVIOUS
    <2>1. CASE short = TRUE
      BY <2>1, StaysShort
    <2>2. CASE StreamInv
      BY <2>2, StepKeeps
    <2> QED  BY <2>1, <2>2
  <1> QED  BY <1>1, <1>2, PTL DEF StreamSpec

\* Under words that are filled up as CacheFile::write does, no stream is ever closed whose file
\* was left shorter than it: the next one finds all of it.
THEOREM NeverShort ==
    ASSUME PaddedWords
    PROVE  StreamSpec => [](short = FALSE)
  <1> DEFINE Inv == StreamInv /\ ~ Abstract!EndsInZero(Content)
  <1>1. StreamInit => Inv
    <2> SUFFICES ASSUME StreamInit  PROVE Inv
      OBVIOUS
    <2> QED  BY StreamStarts, Zenon DEF Abstract!EndsInZero, Abstract!Zeros, Zeros
  <1>2. Inv /\ [StreamNext]_streamVars => Inv'
    <2> SUFFICES ASSUME StreamInv, ~ Abstract!EndsInZero(Content), [StreamNext]_streamVars
                 PROVE  StreamInv' /\ ~ Abstract!EndsInZero(Content')
      OBVIOUS
    <2>1. WordsAssumption
      BY DEF PaddedWords
    <2>2. CASE \E m \in Positions : Seek(m)
      BY <2>2, SeekKeeps
    <2>3. CASE \E s \in Words : Write(s)
      BY <2>1, <2>3, WriteKeeps, EndKept
    <2>4. CASE \E n \in Counts : Read(n)
      BY <2>4, ReadKeeps
    <2>5. CASE \E n \in 0 .. BlockCount : Flush(n)
      BY <2>5, FlushKeeps
    <2>6. CASE Reopen
      BY <2>6, ReopenKeeps
    <2>7. CASE UNCHANGED streamVars
      BY <2>7, StillKeeps
    <2> QED  BY <2>2, <2>3, <2>4, <2>5, <2>6, <2>7 DEF StreamNext
  <1>3. Inv => short = FALSE
    BY DEF StreamInv
  <1> HIDE DEF Inv
  <1> QED  BY <1>1, <1>2, <1>3, PTL DEF StreamSpec

\* No byte of the file has two blocks, and a block has in it what it is to write: as long as no
\* file was left too short, two blocks of the cache cannot disagree, nor one write what it does
\* not have.
THEOREM StreamTypes ==
    ASSUME WordsAssumption
    PROVE  StreamSpec => [](short = TRUE \/ StreamTypeOK)
  <1>1. StreamInv => StreamTypeOK
    <2> SUFFICES ASSUME StreamInv  PROVE StreamTypeOK
      OBVIOUS
    <2>1. /\ Sound(cache) /\ Counted(cache) /\ cache.size \in Nat /\ cache.size <= MaxSize
          /\ cache.fsize \in Nat /\ cache.data \in Strings /\ Length(cache.data) \in Nat
          /\ cache.blocks \in Seq(BlockSet) /\ DOMAIN cache.blocks = 1 .. Len(cache.blocks)
          /\ Len(cache.blocks) \in Nat /\ cache.count \in Nat
          /\ MaxSize \in Nat /\ BlockCount \in Nat
      BY InvIs, BlockWriteStreamAssumption DEF StreamInv
    <2>2. cache.data \in [0 .. Length(cache.data) - 1 -> Bytes]
      BY <2>1, StringIs DEF OfLength
    <2>3. cache.fsize \in 0 .. MaxSize /\ cache.size \in 0 .. MaxSize
      BY <2>1 DEF Sound
    <2>4. BlocksApart
      <3>1. \A j, k \in DOMAIN cache.blocks : j # k => cache.blocks[j].start # cache.blocks[k].start
        BY <2>1 DEF Sound, Apart
      <3>2. Len(cache.blocks) <= Max({2, BlockCount - 1})
        <4>1. Max({2, BlockCount - 1}) = IF 2 >= BlockCount - 1 THEN 2 ELSE BlockCount - 1
          BY <2>1, LargerOf
        <4> QED  BY <2>1, <4>1 DEF Counted
      <3>3. cache.count >= Len(cache.blocks)
        BY <2>1 DEF Counted
      <3> QED  BY <3>1, <3>2, <3>3 DEF BlocksApart
    <2>5. ASSUME NEW k \in DOMAIN cache.blocks
          PROVE  LET b == cache.blocks[k] IN
                 /\ b.start % BlockSize = 0 /\ b.buf \in [0 .. BlockSize - 1 -> Bytes]
                 /\ b.end \in b.start .. b.start + BlockSize
                 /\ \/ b.mstart = Unmodified /\ b.mend = Unmodified
                    \/ b.start <= b.mstart /\ b.mstart < b.mend /\ b.mend <= b.start + BlockSize
      <3> DEFINE b == cache.blocks[k]
      <3>1. b \in BlockSet
        BY <2>1
      <3> HIDE DEF b
      <3>2. /\ b.start \in Nat /\ b.end \in Nat /\ b.buf \in OfLength(BlockSize) /\ BlockSize \in Nat
            /\ b.start % BlockSize = 0 /\ b.start <= b.end /\ b.end <= b.start + BlockSize
            /\ \/ b.mstart = Unmodified /\ b.mend = Unmodified
               \/ b.start <= b.mstart /\ b.mstart < b.mend /\ b.mend <= b.start + BlockSize
        BY <3>1, BlockWriteStreamAssumption DEF BlockSet
      <3>3. b.end \in b.start .. b.start + BlockSize
        BY <3>2
      <3> QED  BY <3>2, <3>3 DEF b, OfLength
    <2> QED  BY <2>2, <2>3, <2>4, <2>5 DEF StreamTypeOK
  <1> QED  BY <1>1, StreamSound, PTL

\* Each step of the stream is one of a ByteStream, or leaves it as it is.
LEMMA StepStreams ==
    ASSUME WordsAssumption, StreamInv, [StreamNext]_streamVars
    PROVE  [Abstract!Next]_<<Content, pos, got, short>>
  <1>1. CASE \E m \in Positions : Seek(m)
    <2>1. PICK m \in Positions : Seek(m)
      BY <1>1
    <2>2. Abstract!Seek(m)
      BY <2>1, SeekKeeps DEF Seek, Abstract!Seek, Abstract!Zeros, Zeros
    <2> QED  BY <2>2 DEF Abstract!Next
  <1>2. CASE \E s \in Words : Write(s)
    <2>1. PICK s \in Words : Write(s)
      BY <1>2
    <2>2. Content' = Put(Content, pos, s)
      BY <2>1, WriteKeeps
    <2>3. pos' = pos + Length(s) /\ got' = Zeros(0) /\ short' = short
      BY <2>1, Zenon DEF Write
    <2>4. Abstract!Write(s)
      BY <2>2, <2>3, SameArrays, Zenon DEF Abstract!Write
    <2> QED  BY <2>4 DEF Abstract!Next
  <1>3. CASE \E n \in Counts : Read(n)
    <2>1. PICK n \in Counts : Read(n)
      BY <1>3
    <2>2. /\ Content' = Content
          /\ \E k \in 0 .. n :
                 /\ got' = Slice(Content, pos, k)
                 /\ k < n /\ pos + k \in DOMAIN Content => Content[pos + k] = 0
                 /\ pos' = pos + Length(got')
      BY <2>1, ReadKeeps
    <2>3. short' = short
      BY <2>1, Zenon DEF Read
    <2>4. Abstract!Read(n)
      BY <2>2, <2>3, SameArrays, Zenon DEF Abstract!Read
    <2> QED  BY <2>1, <2>4 DEF Abstract!Next
  <1>4. CASE \E n \in 0 .. BlockCount : Flush(n)
    BY <1>4, FlushKeeps DEF Flush
  <1>5. CASE Reopen
    <2>1. pos' = 0 /\ got' = Zeros(0) /\ short = FALSE
      BY <1>5 DEF Reopen, StreamInv
    <2>2. CASE StreamInv' /\ Content' = Content
      <3>1. short' = FALSE
        BY <2>2 DEF StreamInv
      <3> QED  BY <2>1, <2>2, <3>1, Zenon DEF Abstract!Next, Abstract!Reopen, Abstract!Zeros, Zeros
    <2>3. CASE short' = TRUE /\ Abstract!EndsInZero(Content)
      BY <2>1, <2>3, Zenon DEF Abstract!Next, Abstract!Reopen, Abstract!Zeros, Zeros
    <2> QED  BY <1>5, <2>2, <2>3, ReopenKeeps
  <1>6. CASE UNCHANGED streamVars
    BY <1>6, StillKeeps DEF streamVars
  <1> QED  BY <1>1, <1>2, <1>3, <1>4, <1>5, <1>6 DEF StreamNext

\* Whatever bytes are written, evicted, flushed in part, read and reopened in which order, the
\* blocks and the file make a ByteStream: a read gives what was written last, and the file that
\* a closed stream leaves has all of it, and no byte less unless the last one is a zero.
THEOREM StreamIsByteStream ==
    ASSUME WordsAssumption
    PROVE  StreamSpec => IsByteStream
  <1> DEFINE Inv == short = TRUE \/ StreamInv
  <1>1. StreamInit => Abstract!Init
    <2> SUFFICES ASSUME StreamInit  PROVE Abstract!Init
      OBVIOUS
    <2>1. Content = Zeros(0) /\ pos = 0 /\ got = Zeros(0) /\ short = FALSE
      BY StreamStarts DEF StreamInit
    <2> QED  BY <2>1 DEF Abstract!Init, Abstract!Zeros, Zeros
  <1>2. Inv /\ [StreamNext]_streamVars => [Abstract!Next]_<<Content, pos, got, short>>
    <2> SUFFICES ASSUME Inv, [StreamNext]_streamVars
                 PROVE  [Abstract!Next]_<<Content, pos, got, short>>
      OBVIOUS
    <2>1. CASE StreamInv
      BY <2>1, StepStreams
    <2>2. CASE short = TRUE
      <3>1. short' = TRUE
        BY <2>2, StaysShort
      <3> QED  BY <2>2, <3>1, Zenon DEF Abstract!Next, Abstract!Anything
    <2> QED  BY <2>1, <2>2
  <1>3. StreamSpec => []Inv
    BY StreamSound
  <1> HIDE DEF Inv
  <1> QED  BY <1>1, <1>2, <1>3, PTL DEF StreamSpec, IsByteStream, Abstract!Spec
=============================================================================
