-------------------------- MODULE DataStorageProofs --------------------------
(***************************************************************************)
(* Proofs about DataStorage: the types; that every node can be read back,  *)
(* whichever chunks compact() chooses to swap; that a pointer into the     *)
(* most recent chunk stays good; and that the list of recently used chunks *)
(* is sound and the unpacked chunks take no more than they may.            *)
(***************************************************************************)
EXTENDS DataStorage, ListFacts, FiniteSetTheorems, TLAPS

Buffers == Seq(Values) \cup {Gone}

Lists == [recent : Slots \cup {0}, next : [Slots -> Slots \cup {0}],
          prev : [Slots -> Slots \cup {0}]]

\* A chunk that is marked saved has a copy f in the file.
ChunkOK(ch, f) == ch \in ChunkSet /\ (ch.saved => f \in Seq(Values))

\* It holds the cells t, in memory and, if it is marked saved, in the file.
Holds(ch, f, t) == /\ ch.buf # Gone => ch.buf = t
                   /\ ch.saved => f = t
                   /\ ch.bufpos = Len(t)

\* A well kept store: but for the fresh chunks in N, a chunk is out of memory
\* only if it is saved.
StoreOK(s, N) ==
              /\ DOMAIN s = {"chunks", "file"}
              /\ s.chunks \in Seq(ChunkSet) /\ Len(s.chunks) <= MaxChunks
              /\ s.file \in [Slots -> Buffers]
              /\ s = [chunks |-> s.chunks, file |-> s.file]
              /\ \A c \in DOMAIN s.chunks : ChunkOK(s.chunks[c], s.file[c])
              /\ \A c \in DOMAIN s.chunks \ N : s.chunks[c].buf = Gone => s.chunks[c].saved

\* A store holds the cells t, but for the chunks in A.
StoreHolds(s, t, A) == \A c \in DOMAIN s.chunks \ A : Holds(s.chunks[c], s.file[c], t[c])

\* A store and the cells it holds.
DataOK(s, t, A) == /\ StoreOK(s, {}) /\ StoreHolds(s, t, A)
                   /\ t \in Seq(Seq(Values)) /\ Len(t) = Len(s.chunks)

\* A file f has what the index S of the last save says, the cells P, but for A.
SavedOK(f, S, P, A) == \A c \in DOMAIN S :
                          /\ f[c] \in Seq(Values)
                          /\ c \notin A => f[c] = P[c] /\ S[c] = Len(P[c])

IInv == /\ DataOK(store, truth, appended)
        /\ lru \in Lists
        /\ active \in {0} \cup Chunks
        /\ want \in {0} \cup Slots
        /\ want # 0 => Raw /\ Len(store.chunks) < want
        /\ cache \in BOOLEAN /\ clean \in BOOLEAN
        /\ saved \in Seq(Nat) /\ Len(saved) <= MaxChunks
        /\ persisted \in Seq(Seq(Values)) /\ Len(persisted) = Len(saved)
        /\ appended \subseteq Slots
        /\ clean => SavedOK(store.file, saved, persisted, appended)

-----------------------------------------------------------------------------
(* Saving, swapping and reading back. *)

LEMMA ChunkParts ==
    ASSUME NEW ch \in ChunkSet
    PROVE  /\ ch.buf \in Buffers /\ ch.bufsize \in Nat /\ ch.bufpos \in Nat
           /\ ch.saved \in BOOLEAN
           /\ ch.buf # Gone => ch.buf \in Seq(Values)
  BY DEF ChunkSet, Buffers

LEMMA ConcatSeq ==
    ASSUME NEW S, NEW a \in Seq(S), NEW b \in Seq(S)
    PROVE  a \o b \in Seq(S) /\ Len(a \o b) = Len(a) + Len(b)
  OBVIOUS

LEMMA FunSeq ==
    ASSUME NEW S, NEW s, NEW n \in Nat, s = [i \in 1 .. n |-> s[i]],
           \A i \in 1 .. n : s[i] \in S
    PROVE  s \in Seq(S) /\ Len(s) = n /\ DOMAIN s = 1 .. n
  OBVIOUS

\* swapToCache(false): nothing is lost, and what was unsaved is in the file.
LEMMA SaveOK ==
    ASSUME NEW s, NEW N, StoreOK(s, N), NEW W, NEW t, NEW A, StoreHolds(s, t, A)
    PROVE  /\ StoreOK(Save(s, W), N) /\ StoreHolds(Save(s, W), t, A)
           /\ Len(Save(s, W).chunks) = Len(s.chunks)
           /\ \A c \in DOMAIN s.chunks : Save(s, W).chunks[c].buf = s.chunks[c].buf
           /\ \A c \in (W \cap DOMAIN s.chunks) \ N :
                 Save(s, W).chunks[c].saved /\ Save(s, W).file[c] \in Seq(Values)
           /\ \A c \in DOMAIN s.chunks :
                 Save(s, W).chunks[c].bufpos = s.chunks[c].bufpos
           /\ \A c \in DOMAIN s.chunks :
                 s.chunks[c].buf = Gone => Save(s, W).chunks[c] = s.chunks[c]
  <1> DEFINE u == Save(s, W)
             n == Len(s.chunks)
  <1>0. n \in Nat /\ DOMAIN s.chunks = 1 .. n /\ 1 .. n \subseteq Slots
    BY DataStorageAssumption DEF StoreOK, Slots
  <1>1. /\ DOMAIN u.chunks = 1 .. n
        /\ u.chunks = [c \in 1 .. n |-> u.chunks[c]]
        /\ DOMAIN u = {"chunks", "file"} /\ u = [chunks |-> u.chunks, file |-> u.file]
        /\ DOMAIN u.file = Slots /\ u.file = [c \in Slots |-> u.file[c]]
    BY <1>0 DEF Save
  <1>2. ASSUME NEW c \in 1 .. n
        PROVE  /\ s.chunks[c] \in ChunkSet /\ ChunkOK(s.chunks[c], s.file[c])
               /\ c \in Slots /\ s.file[c] \in Buffers
    BY <1>0, <1>2 DEF StoreOK
  <1>3. ASSUME NEW c \in 1 .. n, c \in W, Unsaved(s.chunks[c])
        PROVE  /\ u.chunks[c] = Chunk(s.chunks[c].buf, s.chunks[c].bufsize,
                                      s.chunks[c].bufpos, TRUE)
               /\ u.file[c] = s.chunks[c].buf /\ s.chunks[c].buf \in Seq(Values)
    BY <1>0, <1>2, <1>3, ChunkParts DEF Save, Unsaved
  <1>4. ASSUME NEW c \in 1 .. n, ~ (c \in W /\ Unsaved(s.chunks[c]))
        PROVE  u.chunks[c] = s.chunks[c] /\ u.file[c] = s.file[c]
    BY <1>0, <1>2, <1>4 DEF Save
  <1> HIDE DEF u
  <1>5. ASSUME NEW c \in 1 .. n
        PROVE  /\ ChunkOK(u.chunks[c], u.file[c])
               /\ c \in W \ N => u.chunks[c].saved /\ u.file[c] \in Seq(Values)
               /\ u.chunks[c].buf = s.chunks[c].buf
               /\ s.chunks[c].saved => u.chunks[c].saved
               /\ u.chunks[c].bufpos = s.chunks[c].bufpos
               /\ s.chunks[c].buf = Gone => u.chunks[c] = s.chunks[c]
               /\ c \notin A => Holds(u.chunks[c], u.file[c], t[c])
    <2>1. CASE c \in W /\ Unsaved(s.chunks[c])
      <3> DEFINE b == s.chunks[c]
      <3>a. b \in ChunkSet /\ u.chunks[c] = Chunk(b.buf, b.bufsize, b.bufpos, TRUE)
        BY <1>2, <1>3, <2>1
      <3>b. b.buf \in Buffers /\ b.bufsize \in Nat /\ b.bufpos \in Nat
        BY <3>a, ChunkParts
      <3>1. /\ u.chunks[c].buf = b.buf /\ u.chunks[c].saved
            /\ u.chunks[c].bufpos = b.bufpos /\ u.chunks[c] \in ChunkSet
        <4> HIDE DEF b
        <4> QED BY <3>a, <3>b DEF Chunk, ChunkSet, Buffers
      <3>2. u.file[c] = b.buf /\ b.buf \in Seq(Values) /\ b.buf # Gone
        BY <1>3, <2>1 DEF Unsaved
      <3>3. c \notin A => Holds(b, s.file[c], t[c])
        BY <1>0 DEF StoreHolds
      <3>4. ChunkOK(u.chunks[c], u.file[c])
        BY <3>1, <3>2 DEF ChunkOK
      <3>5. c \notin A => Holds(u.chunks[c], u.file[c], t[c])
        BY <3>1, <3>2, <3>3 DEF Holds
      <3> QED BY <2>1, <3>1, <3>2, <3>4, <3>5 DEF Unsaved
    <2>2. CASE ~ (c \in W /\ Unsaved(s.chunks[c]))
      <3>1. u.chunks[c] = s.chunks[c] /\ u.file[c] = s.file[c]
        BY <1>4, <2>2
      <3>2. c \notin A => Holds(s.chunks[c], s.file[c], t[c])
        BY <1>0 DEF StoreHolds
      <3>3. c \in W \ N => s.chunks[c].saved
        BY <1>0, <1>2, <2>2, ChunkParts DEF Unsaved, StoreOK
      <3> QED BY <1>2, <3>1, <3>2, <3>3 DEF ChunkOK
    <2> QED BY <2>1, <2>2
  <1>6. u.chunks \in Seq(ChunkSet) /\ Len(u.chunks) = n
    <2>1. \A c \in 1 .. n : u.chunks[c] \in ChunkSet
      BY <1>5 DEF ChunkOK
    <2> HIDE DEF n
    <2> QED BY <1>0, <1>1, <2>1, FunSeq
  <1>7. u.file \in [Slots -> Buffers]
    <2>1. ASSUME NEW c \in Slots PROVE u.file[c] \in Buffers
      <3>1. CASE c \in 1 .. n
        BY <1>2, <1>3, <1>4, <3>1 DEF Buffers
      <3>2. CASE c \notin 1 .. n
        BY <1>0, <3>2 DEF Save, StoreOK, u
      <3> QED BY <3>1, <3>2
    <2> QED BY <1>1, <2>1
  <1>8. StoreOK(u, N)
    BY <1>0, <1>1, <1>5, <1>6, <1>7 DEF StoreOK
  <1>9. StoreHolds(u, t, A)
    BY <1>1, <1>5 DEF StoreHolds
  <1> QED BY <1>0, <1>5, <1>6, <1>8, <1>9 DEF u

\* A store that is given chunk by chunk.
LEMMA StoreFromChunks ==
    ASSUME NEW u, NEW N, NEW n \in Nat, n <= MaxChunks,
           u = [chunks |-> u.chunks, file |-> u.file],
           u.chunks = [c \in 1 .. n |-> u.chunks[c]],
           u.file \in [Slots -> Buffers],
           \A c \in 1 .. n : ChunkOK(u.chunks[c], u.file[c]),
           \A c \in (1 .. n) \ N : u.chunks[c].buf = Gone => u.chunks[c].saved
    PROVE  StoreOK(u, N) /\ Len(u.chunks) = n /\ DOMAIN u.chunks = 1 .. n
  <1>1. \A c \in 1 .. n : u.chunks[c] \in ChunkSet
    BY DEF ChunkOK
  <1>2. u.chunks \in Seq(ChunkSet) /\ Len(u.chunks) = n /\ DOMAIN u.chunks = 1 .. n
    BY <1>1, FunSeq
  <1>3. DOMAIN u = {"chunks", "file"}
    OBVIOUS
  <1> QED BY <1>2, <1>3 DEF StoreOK

\* One chunk is replaced.
LEMMA SetOK ==
    ASSUME NEW s, NEW N, StoreOK(s, N), NEW c \in DOMAIN s.chunks, NEW ch,
           ChunkOK(ch, s.file[c]), \A d \in N : d = c, ch.buf # Gone
    PROVE  /\ StoreOK(WithChunk(s, c, ch), {})
           /\ Len(WithChunk(s, c, ch).chunks) = Len(s.chunks)
           /\ WithChunk(s, c, ch).file = s.file
  <1> DEFINE u == WithChunk(s, c, ch)
             n == Len(s.chunks)
  <1>0. n \in Nat /\ n <= MaxChunks /\ DOMAIN s.chunks = 1 .. n /\ s.file \in [Slots -> Buffers]
    BY DEF StoreOK
  <1>1. /\ u = [chunks |-> u.chunks, file |-> u.file]
        /\ u.chunks = [d \in 1 .. n |-> u.chunks[d]] /\ u.file = s.file
        /\ u.chunks[c] = ch /\ \A d \in 1 .. n : d # c => u.chunks[d] = s.chunks[d]
    BY <1>0 DEF WithChunk
  <1> HIDE DEF u
  <1>2. ASSUME NEW d \in 1 .. n
        PROVE  /\ ChunkOK(u.chunks[d], u.file[d])
               /\ u.chunks[d].buf = Gone => u.chunks[d].saved
    <2>1. CASE d = c
      BY <1>1, <2>1
    <2>2. CASE d # c
      BY <1>0, <1>1, <2>2 DEF StoreOK
    <2> QED BY <2>1, <2>2
  <1>3. StoreOK(u, {}) /\ Len(u.chunks) = n /\ DOMAIN u.chunks = 1 .. n
    <2> HIDE DEF n
    <2> QED BY <1>0, <1>1, <1>2, StoreFromChunks
  <1> QED BY <1>1, <1>3 DEF u

LEMMA SetHolds ==
    ASSUME NEW s, NEW c \in DOMAIN s.chunks, NEW ch, NEW v, NEW A,
           c \notin A => Holds(ch, s.file[c], v[c]),
           \A d \in DOMAIN s.chunks \ A : d # c => Holds(s.chunks[d], s.file[d], v[d])
    PROVE  StoreHolds(WithChunk(s, c, ch), v, A)
  BY DEF StoreHolds, WithChunk

\* swapToCache(true) of any set of chunks loses nothing.
LEMMA SwapOutOK ==
    ASSUME NEW s, NEW N, StoreOK(s, N), NEW V, NEW t, NEW A, StoreHolds(s, t, A)
    PROVE  /\ StoreOK(SwapOut(s, V), N) /\ StoreHolds(SwapOut(s, V), t, A)
           /\ Len(SwapOut(s, V).chunks) = Len(s.chunks)
           /\ \A c \in DOMAIN s.chunks :
                 s.chunks[c].buf = Gone => SwapOut(s, V).chunks[c] = s.chunks[c]
           /\ \A c \in DOMAIN s.chunks \ V : SwapOut(s, V).chunks[c].buf = s.chunks[c].buf
  <1> DEFINE w == Save(s, V)
             u == SwapOut(s, V)
             n == Len(s.chunks)
  <1>1. /\ StoreOK(w, N) /\ StoreHolds(w, t, A) /\ Len(w.chunks) = n
        /\ \A c \in DOMAIN s.chunks :
              /\ w.chunks[c].buf = s.chunks[c].buf
              /\ s.chunks[c].buf = Gone => w.chunks[c] = s.chunks[c]
        /\ \A c \in (V \cap DOMAIN s.chunks) \ N : w.chunks[c].saved
    BY SaveOK
  <1>0. n \in Nat /\ n <= MaxChunks /\ DOMAIN w.chunks = 1 .. n /\ DOMAIN s.chunks = 1 .. n
        /\ w.file \in [Slots -> Buffers]
    BY <1>1 DEF StoreOK
  <1> HIDE DEF w
  <1>2. u = [chunks |-> [c \in DOMAIN w.chunks |-> IF c \in V THEN Unpacked(w.chunks[c])
                                                   ELSE w.chunks[c]],
             file   |-> w.file]
    BY DEF SwapOut, w
  <1>3. /\ u = [chunks |-> u.chunks, file |-> u.file] /\ u.file = w.file
        /\ u.chunks = [c \in 1 .. n |-> u.chunks[c]]
        /\ \A c \in 1 .. n : u.chunks[c] = IF c \in V THEN Unpacked(w.chunks[c])
                                           ELSE w.chunks[c]
    BY <1>0, <1>2
  <1> HIDE DEF u
  <1>4. ASSUME NEW c \in 1 .. n
        PROVE  /\ ChunkOK(u.chunks[c], u.file[c])
               /\ c \notin N => (u.chunks[c].buf = Gone => u.chunks[c].saved)
               /\ c \notin A => Holds(u.chunks[c], u.file[c], t[c])
               /\ s.chunks[c].buf = Gone => u.chunks[c] = s.chunks[c]
               /\ c \notin V => u.chunks[c].buf = s.chunks[c].buf
    <2> DEFINE ch == w.chunks[c]
    <2>1. /\ ChunkOK(ch, w.file[c]) /\ ch \in ChunkSet
          /\ c \notin N => (ch.buf = Gone => ch.saved)
          /\ c \notin A => Holds(ch, w.file[c], t[c])
      BY <1>0, <1>1 DEF StoreOK, StoreHolds, ChunkOK
    <2>2. CASE c \notin V \/ ch.buf = Gone
      BY <1>0, <1>1, <1>3, <2>1, <2>2 DEF Unpacked
    <2>3. CASE c \in V /\ ch.buf # Gone
      <3>1. (c \notin N => ch.saved) /\ s.chunks[c].buf # Gone
        BY <1>0, <1>1, <2>3
      <3>2. u.chunks[c] = Chunk(Gone, 0, ch.bufpos, ch.saved)
        BY <1>3, <2>3 DEF Unpacked
      <3>3. ch.bufpos \in Nat /\ ch.saved \in BOOLEAN
        BY <2>1, ChunkParts
      <3> HIDE DEF ch
      <3>4. /\ u.chunks[c] \in ChunkSet /\ u.chunks[c].saved = ch.saved
            /\ u.chunks[c].bufpos = ch.bufpos /\ u.chunks[c].buf = Gone
        BY <3>2, <3>3 DEF Chunk, ChunkSet
      <3> QED BY <1>3, <2>1, <2>3, <3>1, <3>4 DEF ChunkOK, Holds
    <2> QED BY <2>2, <2>3
  <1>5. StoreOK(u, N) /\ Len(u.chunks) = n /\ DOMAIN u.chunks = 1 .. n
    <2> HIDE DEF n
    <2> QED BY <1>0, <1>3, <1>4, StoreFromChunks
  <1> QED BY <1>0, <1>4, <1>5 DEF u, StoreHolds

\* compact() spares the chunk it is told to.
LEMMA ExcludedStays ==
    ASSUME NEW s, NEW l, NEW act, NEW reserved, NEW excluded
    PROVE  excluded \notin Excess(s, l, act, reserved, excluded)
  <1>1. excluded \notin Victims(s, Order(l), act, reserved, excluded)
    BY DEF Victims, Stays
  <1> QED BY <1>1 DEF Excess

\* compact(), whichever chunks it chooses.
LEMMA CompactOK ==
    ASSUME NEW s, NEW N, StoreOK(s, N), NEW t, NEW A, StoreHolds(s, t, A),
           NEW l, NEW act, NEW reserved, NEW excluded, cache \in BOOLEAN,
           NEW r \in Compact(s, l, act, reserved, excluded)
    PROVE  /\ StoreOK(r.store, N) /\ StoreHolds(r.store, t, A)
           /\ Len(r.store.chunks) = Len(s.chunks)
           /\ \A c \in DOMAIN s.chunks :
                 s.chunks[c].buf = Gone => r.store.chunks[c] = s.chunks[c]
           /\ excluded \in DOMAIN s.chunks =>
                 r.store.chunks[excluded].buf = s.chunks[excluded].buf
           /\ r.cache \in BOOLEAN
  <1> DEFINE V == Excess(s, l, act, reserved, excluded)
  <1>1. PICK open \in IF cache \/ V = {} THEN {cache} ELSE CacheOpens :
            r = [store |-> IF open THEN SwapOut(s, V) ELSE s, cache |-> open]
    BY DEF Compact
  <1>2. open \in BOOLEAN /\ excluded \notin V
    BY <1>1, ExcludedStays, DataStorageAssumption
  <1> HIDE DEF V
  <1>3. CASE open
    <2>1. r.store = SwapOut(s, V) /\ r.cache = open
      BY <1>1, <1>3
    <2>2. /\ StoreOK(SwapOut(s, V), N) /\ StoreHolds(SwapOut(s, V), t, A)
          /\ Len(SwapOut(s, V).chunks) = Len(s.chunks)
          /\ \A c \in DOMAIN s.chunks :
                s.chunks[c].buf = Gone => SwapOut(s, V).chunks[c] = s.chunks[c]
          /\ \A c \in DOMAIN s.chunks \ V :
                SwapOut(s, V).chunks[c].buf = s.chunks[c].buf
      BY SwapOutOK
    <2> QED BY <1>2, <2>1, <2>2
  <1>4. CASE ~ open
    BY <1>1, <1>2, <1>4
  <1> QED BY <1>2, <1>3, <1>4

\* getChunk.
LEMMA TouchOK ==
    ASSUME NEW s, StoreOK(s, {}), NEW t, NEW A, StoreHolds(s, t, A),
           cache \in BOOLEAN, NEW c \in DOMAIN s.chunks, NEW r \in Touch(s, c)
    PROVE  /\ StoreOK(r.store, {}) /\ StoreHolds(r.store, t, A)
           /\ Len(r.store.chunks) = Len(s.chunks)
           /\ r.cache \in BOOLEAN
           /\ InMemory(r.store, c)
  <1>1. CASE ~ InMemory(s, c) /\ s.chunks[c].saved
    <2> DEFINE f == s.file[c]
               pos == s.chunks[c].bufpos
               ch == Chunk(f, Len(f), pos, TRUE)
    <2>1. /\ f \in Seq(Values) /\ pos \in Nat
          /\ c \notin A => f = t[c] /\ pos = Len(t[c])
      BY <1>1, ChunkParts DEF StoreOK, ChunkOK, StoreHolds, Holds
    <2>2. Restored(s, c) = WithChunk(s, c, ch)
      BY DEF Restored
    <2>3. /\ ch \in ChunkSet /\ ch.buf = f /\ ch.bufpos = pos /\ ch.saved
      <3> HIDE DEF f, pos
      <3>1. Len(f) \in Nat
        BY <2>1
      <3> QED BY <2>1, <3>1 DEF Chunk, ChunkSet
    <2>4. ChunkOK(ch, f) /\ (c \notin A => Holds(ch, f, t[c])) /\ ch.saved
      <3> HIDE DEF ch, f, pos
      <3> QED BY <2>1, <2>3 DEF ChunkOK, Holds
    <2> HIDE DEF ch
    <2>5. StoreOK(Restored(s, c), {}) /\ StoreHolds(Restored(s, c), t, A)
          /\ Len(Restored(s, c).chunks) = Len(s.chunks)
      <3> HIDE DEF ch
      <3>1. \A d \in DOMAIN s.chunks \ A : Holds(s.chunks[d], s.file[d], t[d])
        BY DEF StoreHolds
      <3>2. ch.buf # Gone
        BY <2>1, <2>3, DataStorageAssumption
      <3>3. /\ StoreOK(Restored(s, c), {})
            /\ Len(Restored(s, c).chunks) = Len(s.chunks)
        BY <2>2, <2>4, <3>2, SetOK
      <3>4. StoreHolds(Restored(s, c), t, A)
        BY <2>2, <2>4, <3>1, SetHolds
      <3> QED BY <3>3, <3>4
    <2>6. r \in Compact(Restored(s, c), ToFront(lru, c), active, 0, c)
      BY <1>1 DEF Touch
    <2>7. Restored(s, c).chunks[c] = ch /\ c \in DOMAIN Restored(s, c).chunks /\ f # Gone
      BY <2>1, <2>2, DataStorageAssumption DEF WithChunk
    <2> HIDE DEF f
    <2>8. r.store.chunks[c].buf = f
      BY <2>3, <2>5, <2>6, <2>7, CompactOK
    <2> QED BY <2>5, <2>6, <2>7, <2>8, CompactOK DEF InMemory
  <1>2. CASE ~ (~ InMemory(s, c) /\ s.chunks[c].saved)
    BY <1>2 DEF Touch, InMemory, StoreOK
  <1> QED BY <1>1, <1>2

\* The store s has room for a chunk ch with the data b.
Addable(s, t, A, ch, b) ==
    /\ StoreOK(s, {}) /\ StoreHolds(s, t, A)
    /\ t \in Seq(Seq(Values)) /\ Len(t) = Len(s.chunks) /\ Len(s.chunks) < MaxChunks
    /\ cache \in BOOLEAN
    /\ ChunkOK(ch, s.file[Len(s.chunks) + 1])
    /\ Holds(ch, s.file[Len(s.chunks) + 1], b)

\* What is left of it when ch has joined, and the others are compacted.
Joined(s, t, A, ch, b, r) ==
    /\ StoreOK(r.store, {Len(s.chunks) + 1})
    /\ StoreHolds(r.store, Append(t, b), A)
    /\ Len(r.store.chunks) = Len(s.chunks) + 1
    /\ ch.buf = Gone => r.store.chunks[Len(s.chunks) + 1] = ch
    /\ ch.buf # Gone => StoreOK(r.store, {})
    /\ r.cache \in BOOLEAN

\* A new chunk ch with the cells b joins, and the others are compacted.
LEMMA AddChunkOK ==
    ASSUME NEW s, NEW t, NEW A, NEW ch, NEW b, Addable(s, t, A, ch, b),
           NEW act, NEW r \in AddChunk(s, ch, act)
    PROVE  Joined(s, t, A, ch, b, r)
  <1> DEFINE n == Len(s.chunks)
             c == n + 1
             u == [chunks |-> Append(s.chunks, ch), file |-> s.file]
  <1>0. /\ n \in Nat /\ DOMAIN s.chunks = 1 .. n /\ s.file \in [Slots -> Buffers]
        /\ c \in Nat /\ c <= MaxChunks /\ MaxChunks \in Nat
        /\ s.chunks \in Seq(ChunkSet)
        /\ StoreOK(s, {}) /\ StoreHolds(s, t, A) /\ cache \in BOOLEAN
        /\ ChunkOK(ch, s.file[c]) /\ Holds(ch, s.file[c], b)
        /\ t \in Seq(Seq(Values)) /\ Len(t) = n
    BY DataStorageAssumption DEF StoreOK, Addable
  <1>1. /\ u = [chunks |-> u.chunks, file |-> u.file] /\ u.file = s.file
        /\ u.chunks = [d \in 1 .. c |-> u.chunks[d]]
        /\ u.chunks[c] = ch /\ \A d \in 1 .. n : u.chunks[d] = s.chunks[d]
    BY <1>0
  <1>2. /\ \A d \in 1 .. n : Append(t, b)[d] = t[d]
        /\ Append(t, b)[c] = b
    BY <1>0
  <1> HIDE DEF u
  <1>3. ASSUME NEW d \in 1 .. c
        PROVE  /\ ChunkOK(u.chunks[d], u.file[d])
               /\ d # c => (u.chunks[d].buf = Gone => u.chunks[d].saved)
               /\ d \notin A => Holds(u.chunks[d], u.file[d], Append(t, b)[d])
    <2>1. CASE d = c
      BY <1>0, <1>1, <1>2, <2>1
    <2>2. CASE d # c
      <3>1. d \in 1 .. n
        BY <1>0, <2>2
      <3> QED BY <1>0, <1>1, <1>2, <3>1 DEF StoreOK, StoreHolds
    <2> QED BY <2>1, <2>2
  <1>4. StoreOK(u, {c}) /\ Len(u.chunks) = c /\ DOMAIN u.chunks = 1 .. c
    <2> HIDE DEF c
    <2> QED BY <1>0, <1>1, <1>3, StoreFromChunks
  <1>5. StoreHolds(u, Append(t, b), A)
    BY <1>3, <1>4 DEF StoreHolds
  <1>8. ch.buf # Gone => StoreOK(u, {})
    BY <1>1, <1>4 DEF StoreOK
  <1>6. r \in Compact(u, ToFront(lru, Len(u.chunks)), act, 0, 0)
    BY DEF AddChunk, u
  <1>7. u.chunks[c] = ch /\ c \in DOMAIN u.chunks
    BY <1>0, <1>1, <1>4
  <1> QED BY <1>0, <1>4, <1>5, <1>6, <1>7, <1>8, CompactOK DEF Joined

\* The constructors of chunks.
LEMMA NewChunks ==
    /\ RawChunk \in ChunkSet /\ ~ RawChunk.saved /\ RawChunk.buf # Gone
    /\ RawChunk.buf \in Seq(Values) /\ RawChunk.bufpos = Len(RawChunk.buf)
    /\ NodeChunk \in ChunkSet /\ ~ NodeChunk.saved /\ NodeChunk.buf = Gone
    /\ NodeChunk.bufpos = 0
  <1> DEFINE b == [i \in 1 .. ChunkSize |-> Zero]
  <1>1. ChunkSize \in Nat /\ Zero \in Values /\ Gone \notin Seq(Values)
    BY DataStorageAssumption
  <1>2. b \in Seq(Values) /\ Len(b) = ChunkSize
    BY <1>1
  <1> HIDE DEF b
  <1>3. b \in Buffers /\ b # Gone /\ Gone \in Buffers
    BY <1>1, <1>2 DEF Buffers
  <1>4. RawChunk = Chunk(b, ChunkSize, ChunkSize, FALSE)
    BY DEF RawChunk, b
  <1>5. RawChunk \in ChunkSet /\ ~ RawChunk.saved /\ RawChunk.buf = b
        /\ RawChunk.bufpos = ChunkSize
    BY <1>1, <1>3, <1>4 DEF Chunk, ChunkSet, Buffers
  <1>6. NodeChunk \in ChunkSet /\ ~ NodeChunk.saved /\ NodeChunk.buf = Gone
        /\ NodeChunk.bufpos = 0
    BY <1>3 DEF NodeChunk, Chunk, ChunkSet, Buffers
  <1> QED BY <1>2, <1>3, <1>5, <1>6

\* addText and addElem extend a chunk that is in memory and start one that is not.
LEMMA AddedOK ==
    ASSUME NEW ch \in ChunkSet, NEW n \in Nat, NEW v \in Values
    PROVE  LET node == Node(n, v)
               new == Added(ch, n, v) IN
           /\ node \in Seq(Values) /\ Len(node) = n
           /\ new \in ChunkSet /\ new.saved = ch.saved
           /\ new.buf \in Seq(Values) /\ new.buf # Gone
           /\ ch.buf = Gone => new.buf = node /\ new.bufpos = n
           /\ ch.buf # Gone => new.buf = ch.buf \o node /\ new.bufpos = ch.bufpos + n
  <1> DEFINE node == Node(n, v)
             new == Added(ch, n, v)
  <1>1. node \in Seq(Values) /\ Len(node) = n /\ Gone \notin Seq(Values)
    BY DataStorageAssumption DEF Node
  <1>2. /\ ch.buf \in Buffers /\ ch.bufsize \in Nat /\ ch.bufpos \in Nat
        /\ ch.saved \in BOOLEAN
        /\ ch.buf # Gone => ch.buf \in Seq(Values)
    BY ChunkParts
  <1>3. LongEnough(n) \in Nat
    BY DataStorageAssumption DEF LongEnough
  <1>4. CASE ch.buf = Gone
    <2>1. new = Chunk(node, LongEnough(n), n, ch.saved)
      BY <1>4 DEF Added
    <2> HIDE DEF new, node
    <2>2. node \in Buffers
      BY <1>1 DEF Buffers
    <2>3. /\ new \in ChunkSet /\ new.saved = ch.saved /\ new.buf = node /\ new.bufpos = n
      BY <1>2, <1>3, <2>1, <2>2 DEF Chunk, ChunkSet, Buffers
    <2> QED BY <1>1, <1>4, <2>3 DEF new, node
  <1>5. CASE ch.buf # Gone
    <2> DEFINE b == ch.buf \o node
    <2>1. new = Chunk(b, ch.bufsize, ch.bufpos + n, ch.saved)
      BY <1>5 DEF Added
    <2>2. b \in Seq(Values)
      <3> HIDE DEF node
      <3>1. ch.buf \in Seq(Values) /\ node \in Seq(Values)
        BY <1>1, <1>2, <1>5
      <3> QED BY <3>1, ConcatSeq
    <2>3. b \in Buffers /\ ch.bufpos + n \in Nat
      BY <1>2, <2>2 DEF Buffers
    <2> HIDE DEF new, b
    <2>4. /\ new \in ChunkSet /\ new.saved = ch.saved /\ new.buf = b
          /\ new.bufpos = ch.bufpos + n
      BY <1>2, <2>1, <2>3 DEF Chunk, ChunkSet, Buffers
    <2> QED BY <1>1, <1>5, <2>2, <2>4 DEF new, b
  <1> QED BY <1>4, <1>5

\* A changed cell is marked for the next save.
LEMMA ModifiedOK ==
    ASSUME NEW ch \in ChunkSet, ch.buf # Gone, NEW i \in DOMAIN ch.buf, NEW v \in Values
    PROVE  LET new == Modified(ch, i, v) IN
           /\ new \in ChunkSet /\ ~ new.saved /\ new.buf = [ch.buf EXCEPT ![i] = v]
           /\ new.buf \in Seq(Values) /\ new.buf # Gone /\ new.bufpos = ch.bufpos
  <1> DEFINE b == [ch.buf EXCEPT ![i] = v]
  <1>1. /\ ch.buf \in Seq(Values) /\ ch.bufsize \in Nat /\ ch.bufpos \in Nat
    BY ChunkParts
  <1>2. b \in Seq(Values) /\ Gone \notin Seq(Values)
    BY <1>1, DataStorageAssumption
  <1>3. Modified(ch, i, v) = Chunk(b, ch.bufsize, ch.bufpos, FALSE)
    BY DEF Modified
  <1>4. b \in Buffers
    BY <1>2 DEF Buffers
  <1> HIDE DEF b
  <1>5. /\ Modified(ch, i, v) \in ChunkSet /\ ~ Modified(ch, i, v).saved
        /\ Modified(ch, i, v).buf = b /\ Modified(ch, i, v).bufpos = ch.bufpos
    BY <1>1, <1>3, <1>4 DEF Chunk, ChunkSet, Buffers
  <1> QED BY <1>2, <1>5 DEF b

\* The list keeps its shape: it links chunks that may exist.
LEMMA ToFrontOK ==
    ASSUME NEW l \in Lists, NEW c \in Slots
    PROVE  ToFront(l, c) \in Lists
  <1> DEFINE Pointers == [Slots -> Slots \cup {0}]
  <1>1. /\ l.recent \in Slots \cup {0} /\ l.next \in Pointers /\ l.prev \in Pointers
    BY DEF Lists
  <1>2. \A p \in Pointers, x \in Slots \cup {0}, y \in Slots \cup {0} :
            Linked(p, x, y) \in Pointers
    BY DEF Linked
  <1>3. l.prev[c] \in Slots \cup {0} /\ l.next[c] \in Slots \cup {0}
    BY <1>1
  <1> HIDE DEF Pointers
  <1> DEFINE next == Linked(l.next, l.prev[c], l.next[c])
             prev == Linked(l.prev, l.next[c], l.prev[c])
  <1>4. next \in Pointers /\ prev \in Pointers
    BY <1>1, <1>2, <1>3
  <1> HIDE DEF next, prev
  <1>5. /\ Linked(next, c, l.recent) \in Pointers
        /\ Linked(prev, c, 0) \in Pointers
    BY <1>1, <1>2, <1>4
  <1>6. Linked(Linked(prev, c, 0), l.recent, c) \in Pointers
    BY <1>1, <1>2, <1>5
  <1>7. CASE c = l.recent
    BY <1>7 DEF ToFront
  <1>8. CASE c # l.recent
    <2>1. ToFront(l, c) = [recent |-> c, next |-> Linked(next, c, l.recent),
                           prev |-> Linked(Linked(prev, c, 0), l.recent, c)]
      BY <1>8 DEF ToFront, next, prev
    <2> QED BY <1>5, <1>6, <2>1 DEF Lists, Pointers
  <1> QED BY <1>7, <1>8

-----------------------------------------------------------------------------
(* The invariant holds at first, and every step keeps it. *)

LEMMA InitInv == Init => IInv
  <1> SUFFICES ASSUME Init PROVE IInv
    OBVIOUS
  <1> DEFINE f == [c \in Slots |-> Gone]
  <1>1. store = [chunks |-> <<>>, file |-> f] /\ MaxChunks \in Nat
    BY DataStorageAssumption DEF Init
  <1>2. f \in [Slots -> Buffers]
    BY DEF Buffers
  <1> HIDE DEF f
  <1>3. DataOK(store, truth, appended)
    BY <1>1, <1>2 DEF Init, DataOK, StoreOK, StoreHolds
  <1>4. lru \in Lists
    BY DEF Init, NoList, Lists
  <1>5. /\ saved \in Seq(Nat) /\ Len(saved) <= MaxChunks
        /\ persisted \in Seq(Seq(Values)) /\ Len(persisted) = Len(saved)
    BY <1>1, DataStorageAssumption DEF Init
  <1> HIDE DataStorageAssumption
  <1> QED BY <1>3, <1>4, <1>5 DEF Init, IInv

\* The index still fits the file, unless a chunk was written to it.
LEMMA NoteOK ==
    ASSUME IInv, NoteWrites, UNCHANGED <<saving, appended>>
    PROVE  /\ clean' \in BOOLEAN
           /\ saved' \in Seq(Nat) /\ Len(saved') <= MaxChunks
           /\ persisted' \in Seq(Seq(Values)) /\ Len(persisted') = Len(saved')
           /\ appended' \subseteq Slots
           /\ clean' => SavedOK(store'.file, saved', persisted', appended')
  <1>1. saved' = saved /\ persisted' = persisted /\ appended' = appended
    BY DEF saving
  <1> QED BY <1>1 DEF IInv, NoteWrites

LEMMA ChunksAreSlots ==
    ASSUME IInv
    PROVE  /\ Chunks = 1 .. Len(store.chunks) /\ Len(store.chunks) \in Nat
           /\ Len(store.chunks) <= MaxChunks /\ MaxChunks \in Nat
           /\ Chunks \subseteq Slots
  BY DataStorageAssumption DEF IInv, DataOK, StoreOK, Chunks, Slots

LEMMA GetInv ==
    ASSUME IInv, NEW c \in Chunks, Get(c)
    PROVE  IInv'
  <1>1. PICK r \in Touch(store, c) : store' = r.store /\ cache' = r.cache
    BY DEF Get
  <1>2. DataOK(store', truth', appended') /\ cache' \in BOOLEAN
        /\ Len(store'.chunks) = Len(store.chunks)
    BY <1>1, TouchOK DEF IInv, DataOK, Get, Chunks
  <1>3. lru' \in Lists
    BY ToFrontOK, ChunksAreSlots DEF IInv, Get
  <1>4. Chunks' = Chunks
    BY <1>2, ChunksAreSlots DEF Chunks, DataOK, StoreOK
  <1> QED BY <1>2, <1>3, <1>4, NoteOK DEF IInv, Get

LEMMA UpdateInv ==
    ASSUME IInv, NEW c \in Chunks, NEW v \in Values, NEW i \in DOMAIN truth[c],
           Update(c, i, v)
    PROVE  IInv'
  <1>1. PICK r \in Touch(store, c) :
            /\ i \in DOMAIN r.store.chunks[c].buf
            /\ store' = IF r.store.chunks[c].buf[i] = v THEN r.store
                        ELSE WithChunk(r.store, c, Modified(r.store.chunks[c], i, v))
            /\ cache' = r.cache
    BY DEF Update
  <1> DEFINE s == r.store
             ch == s.chunks[c]
             w == [truth EXCEPT ![c] = [truth[c] EXCEPT ![i] = v]]
  <1>2. /\ StoreOK(s, {}) /\ StoreHolds(s, truth, appended)
        /\ Len(s.chunks) = Len(store.chunks)
        /\ cache' \in BOOLEAN /\ InMemory(s, c)
    BY <1>1, TouchOK DEF IInv, DataOK, Chunks
  <1>3. /\ c \in DOMAIN s.chunks /\ DOMAIN s.chunks = Chunks /\ c \in DOMAIN truth
        /\ truth \in Seq(Seq(Values)) /\ Len(truth) = Len(s.chunks)
        /\ DOMAIN truth = DOMAIN s.chunks
    BY <1>2, ChunksAreSlots DEF StoreOK, IInv, DataOK
  <1>4. truth' = w /\ w \in Seq(Seq(Values)) /\ Len(w) = Len(truth)
        /\ w[c] = [truth[c] EXCEPT ![i] = v] /\ \A d \in DOMAIN truth \ {c} : w[d] = truth[d]
    BY <1>3 DEF Update
  <1>5. /\ ch \in ChunkSet /\ ch.buf # Gone /\ ChunkOK(ch, s.file[c])
        /\ c \notin appended => Holds(ch, s.file[c], truth[c])
    BY <1>2, <1>3 DEF StoreOK, InMemory, ChunkOK, StoreHolds
  <1> HIDE DEF w
  <1>6. DataOK(store', truth', appended)
    <2>1. CASE ch.buf[i] = v
      <3>1. store' = s
        BY <1>1, <2>1
      <3>2. c \notin appended => w[c] = truth[c]
        <4> HIDE DEF ch
        <4>1. ch.buf \in Seq(Values)
          BY <1>5, ChunkParts
        <4> QED BY <1>1, <1>4, <1>5, <2>1, <4>1 DEF Holds
      <3>3. StoreHolds(s, w, appended)
        BY <1>2, <1>3, <1>4, <3>2 DEF StoreHolds
      <3> QED BY <1>2, <1>3, <1>4, <3>1, <3>3 DEF DataOK
    <2>2. CASE ch.buf[i] # v
      <3> DEFINE new == Modified(ch, i, v)
      <3>1. store' = WithChunk(s, c, new)
        BY <1>1, <2>2
      <3>2. /\ new \in ChunkSet /\ ~ new.saved /\ new.buf = [ch.buf EXCEPT ![i] = v]
            /\ new.buf \in Seq(Values) /\ new.buf # Gone /\ new.bufpos = ch.bufpos
        BY <1>1, <1>5, ModifiedOK
      <3> HIDE DEF new, s
      <3>3. ChunkOK(new, s.file[c]) /\ new.buf # Gone
        BY <3>2 DEF ChunkOK
      <3>4. c \notin appended => Holds(new, s.file[c], w[c])
        <4> SUFFICES ASSUME c \notin appended PROVE Holds(new, s.file[c], w[c])
          OBVIOUS
        <4>1. ch.buf = truth[c] /\ ch.bufpos = Len(truth[c])
          BY <1>5 DEF Holds
        <4>2. new.buf = w[c] /\ Len(w[c]) = Len(truth[c])
          BY <1>3, <1>4, <3>2, <4>1
        <4> QED BY <3>2, <4>1, <4>2 DEF Holds
      <3>6. \A d \in DOMAIN s.chunks \ appended :
               d # c => Holds(s.chunks[d], s.file[d], w[d])
        BY <1>2, <1>3, <1>4 DEF StoreHolds
      <3>5. StoreOK(store', {}) /\ Len(store'.chunks) = Len(s.chunks)
        <4>1. StoreOK(s, {}) /\ c \in DOMAIN s.chunks
          BY <1>2, <1>3
        <4> QED BY <3>1, <3>3, <4>1, SetOK
      <3>7. StoreHolds(store', w, appended)
        BY <1>3, <3>1, <3>4, <3>6, SetHolds
      <3> QED BY <1>3, <1>4, <3>5, <3>7 DEF DataOK
    <2> QED BY <2>1, <2>2
  <1>7. lru' \in Lists
    BY ToFrontOK, ChunksAreSlots DEF IInv, Update
  <1>8. Chunks' = Chunks /\ Len(store'.chunks) = Len(store.chunks)
    BY <1>2, <1>3, <1>4, <1>6, ChunksAreSlots DEF Chunks, DataOK, StoreOK
  <1> QED BY <1>2, <1>6, <1>7, <1>8, NoteOK DEF IInv, Update

LEMMA AllocHereInv ==
    ASSUME IInv, NEW n \in Sizes, NEW v \in Values, AllocHere(n, v)
    PROVE  IInv'
  <1> DEFINE c == active
             ch == store.chunks[c]
             node == Node(n, v)
             new == Added(ch, n, v)
             w == [truth EXCEPT ![c] = truth[c] \o node]
  <1>1. /\ c \in Chunks /\ c \in DOMAIN truth /\ c \in Slots
        /\ truth \in Seq(Seq(Values)) /\ Len(truth) = Len(store.chunks)
        /\ StoreOK(store, {}) /\ StoreHolds(store, truth, appended)
    BY ChunksAreSlots DEF IInv, AllocHere, DataOK, Chunks
  <1>2. /\ store' = WithChunk(store, c, new) /\ truth' = w
        /\ appended' = IF ch.saved THEN appended \cup {c} ELSE appended
        /\ UNCHANGED <<lru, active, cache, want, saved, persisted, clean>>
    BY DEF AllocHere, AddNode, saving
  <1>3. /\ ch \in ChunkSet /\ ChunkOK(ch, store.file[c])
        /\ ch.buf = Gone => ch.saved
        /\ c \notin appended => Holds(ch, store.file[c], truth[c])
    BY <1>1 DEF StoreOK, ChunkOK, StoreHolds, Chunks
  <1>4. n \in Nat
    BY DataStorageAssumption
  <1>5. /\ node \in Seq(Values) /\ Len(node) = n
        /\ new \in ChunkSet /\ new.saved = ch.saved
        /\ new.buf \in Seq(Values) /\ new.buf # Gone
        /\ ch.buf # Gone => new.buf = ch.buf \o node /\ new.bufpos = ch.bufpos + n
    BY <1>3, <1>4, AddedOK
  <1> HIDE DEF node, new
  <1>6. truth[c] \in Seq(Values) /\ truth[c] \o node \in Seq(Values)
        /\ Len(truth[c] \o node) = Len(truth[c]) + n
    <2>1. truth[c] \in Seq(Values)
      BY <1>1
    <2> QED BY <1>5, <2>1, ConcatSeq
  <1>7. /\ w \in Seq(Seq(Values)) /\ Len(w) = Len(truth) /\ w[c] = truth[c] \o node
        /\ \A d \in DOMAIN store.chunks \ {c} : w[d] = truth[d]
    BY <1>1, <1>6 DEF StoreOK
  <1>8. appended' \subseteq Slots /\ appended \subseteq appended'
    BY <1>1, <1>2 DEF IInv
  <1> HIDE DEF w
  <1>9. ChunkOK(new, store.file[c])
    BY <1>3, <1>5 DEF ChunkOK
  <1>10. c \notin appended' => Holds(new, store.file[c], w[c])
    <2> SUFFICES ASSUME c \notin appended' PROVE Holds(new, store.file[c], w[c])
      OBVIOUS
    <2>1. ~ ch.saved /\ ch.buf # Gone /\ c \notin appended
      BY <1>2, <1>3
    <2> HIDE DEF ch
    <2>2. ch.buf = truth[c] /\ ch.bufpos = Len(truth[c])
      BY <1>3, <2>1 DEF Holds
    <2> QED BY <1>5, <1>6, <1>7, <2>1, <2>2 DEF Holds
  <1>11. \A d \in DOMAIN store.chunks \ appended' :
            d # c => Holds(store.chunks[d], store.file[d], w[d])
    BY <1>1, <1>7, <1>8 DEF StoreHolds
  <1> HIDE DEF c, ch
  <1>12. /\ StoreOK(store', {}) /\ StoreHolds(store', w, appended')
         /\ Len(store'.chunks) = Len(store.chunks) /\ store'.file = store.file
    <2>1. c \in DOMAIN store.chunks /\ store' = WithChunk(store, c, new)
      BY <1>1, <1>2 DEF Chunks
    <2>2. /\ StoreOK(store', {}) /\ Len(store'.chunks) = Len(store.chunks)
          /\ store'.file = store.file
      <3>1. StoreOK(store, {}) /\ new.buf # Gone
        BY <1>1, <1>5
      <3> QED BY <1>9, <2>1, <3>1, SetOK
    <2>3. StoreHolds(store', w, appended')
      BY <1>10, <1>11, <2>1, SetHolds
    <2> QED BY <2>2, <2>3
  <1>13. DataOK(store', truth', appended')
    BY <1>1, <1>2, <1>7, <1>12 DEF DataOK
  <1>14. Chunks' = Chunks
    BY <1>12, ChunksAreSlots DEF Chunks, StoreOK
  <1>15. clean => SavedOK(store.file, saved, persisted, appended')
    BY <1>8 DEF IInv, SavedOK
  <1> QED BY <1>2, <1>8, <1>12, <1>13, <1>14, <1>15 DEF IInv

LEMMA AllocInNewInv ==
    ASSUME IInv, NEW n \in Sizes, NEW v \in Values, AllocInNew(n, v)
    PROVE  IInv'
  <1> DEFINE m == Len(store.chunks)
             c == m + 1
             new == Added(NodeChunk, n, v)
             w == Append(truth, Node(n, v))
  <1>1. PICK r \in AddChunk(store, NodeChunk, c) :
            store' = AddNode(r.store, c, n, v) /\ cache' = r.cache
    BY DEF AllocInNew
  <1>2. /\ active' = c /\ lru' = ToFront(lru, c) /\ truth' = w
        /\ m < MaxChunks /\ NoteWrites
        /\ UNCHANGED <<want, saving, appended>> /\ ~ Raw
    BY DEF AllocInNew
  <1>3. /\ StoreOK(store, {}) /\ StoreHolds(store, truth, appended)
        /\ truth \in Seq(Seq(Values)) /\ Len(truth) = m /\ m \in Nat /\ c \in Slots
        /\ cache \in BOOLEAN
    BY <1>2, ChunksAreSlots DEF IInv, DataOK, Slots
  <1>4. /\ ChunkOK(NodeChunk, store.file[c]) /\ Holds(NodeChunk, store.file[c], <<>>)
        /\ NodeChunk.buf = Gone /\ ~ NodeChunk.saved /\ NodeChunk \in ChunkSet
    BY NewChunks DEF ChunkOK, Holds
  <1>5. /\ StoreOK(r.store, {c}) /\ StoreHolds(r.store, Append(truth, <<>>), appended)
        /\ Len(r.store.chunks) = c /\ r.store.chunks[c] = NodeChunk
        /\ r.cache \in BOOLEAN
    <2>1. Addable(store, truth, appended, NodeChunk, <<>>)
      BY <1>2, <1>3, <1>4 DEF Addable
    <2>2. Joined(store, truth, appended, NodeChunk, <<>>, r)
      BY <1>1, <2>1, AddChunkOK
    <2> QED BY <1>4, <2>2 DEF Joined
  <1>6. n \in Nat
    BY DataStorageAssumption
  <1>7. /\ Node(n, v) \in Seq(Values) /\ Len(Node(n, v)) = n
        /\ new \in ChunkSet /\ new.saved = NodeChunk.saved /\ new.buf # Gone
        /\ new.buf = Node(n, v) /\ new.bufpos = n
    <2>1. NodeChunk \in ChunkSet /\ NodeChunk.buf = Gone
      BY NewChunks
    <2> HIDE DEF new
    <2>2. /\ Node(n, v) \in Seq(Values) /\ Len(Node(n, v)) = n
          /\ new \in ChunkSet /\ new.saved = NodeChunk.saved /\ new.buf # Gone
      BY <1>6, <2>1, AddedOK DEF new
    <2>3. new.buf = Node(n, v) /\ new.bufpos = n
      BY <1>6, <2>1, AddedOK DEF new
    <2> QED BY <2>2, <2>3
  <1> HIDE DEF new
  <1>8. store' = WithChunk(r.store, c, new)
    BY <1>1, <1>5 DEF AddNode, new
  <1>9. /\ w \in Seq(Seq(Values)) /\ Len(w) = c /\ w[c] = Node(n, v)
        /\ \A d \in 1 .. m : w[d] = Append(truth, <<>>)[d]
    BY <1>3, <1>7
  <1> HIDE DEF w
  <1>10. DOMAIN r.store.chunks = 1 .. c /\ c \in 1 .. c
    BY <1>3, <1>5 DEF StoreOK
  <1>11. ChunkOK(new, r.store.file[c]) /\ Holds(new, r.store.file[c], w[c])
    BY <1>4, <1>7, <1>9 DEF ChunkOK, Holds
  <1>12. \A d \in DOMAIN r.store.chunks \ appended :
            d # c => Holds(r.store.chunks[d], r.store.file[d], w[d])
    BY <1>3, <1>5, <1>9, <1>10, SMTT(30) DEF StoreHolds
  <1>13. StoreOK(store', {}) /\ Len(store'.chunks) = c
    <2> HIDE DEF c
    <2> QED BY <1>5, <1>7, <1>8, <1>10, <1>11, SetOK
  <1>14. StoreHolds(store', w, appended)
    <2> HIDE DEF c
    <2> QED BY <1>8, <1>10, <1>11, <1>12, SetHolds
  <1>15. DataOK(store', truth', appended')
    BY <1>2, <1>9, <1>13, <1>14 DEF DataOK
  <1>16. lru' \in Lists
    BY <1>2, <1>3, ToFrontOK DEF IInv
  <1>17. Chunks' = 1 .. c
    BY <1>13 DEF Chunks, StoreOK
  <1>18. c \in Chunks'
    BY <1>10, <1>17
  <1>19. want' \in {0} \cup Slots /\ want' = 0
    BY <1>2 DEF IInv, AllocInNew
  <1> QED BY <1>1, <1>2, <1>5, <1>15, <1>16, <1>18, <1>19, NoteOK DEF IInv

LEMMA GrowInv ==
    ASSUME IInv, Grow
    PROVE  IInv'
  <1> DEFINE m == Len(store.chunks)
             c == m + 1
             w == Append(truth, RawChunk.buf)
  <1>1. PICK r \in AddChunk(store, RawChunk, 0) : store' = r.store /\ cache' = r.cache
    BY DEF Grow
  <1>2. /\ lru' = ToFront(lru, c) /\ truth' = w /\ NoteWrites
        /\ want' = IF want = c THEN 0 ELSE want
        /\ UNCHANGED <<active, saving, appended>>
    BY DEF Grow
  <1>3. /\ StoreOK(store, {}) /\ StoreHolds(store, truth, appended)
        /\ truth \in Seq(Seq(Values)) /\ Len(truth) = m /\ m \in Nat /\ MaxChunks \in Nat
        /\ cache \in BOOLEAN /\ Chunks = 1 .. m
    BY ChunksAreSlots DEF IInv, DataOK
  <1>4. want \in Nat /\ want # 0 /\ m < want /\ want <= MaxChunks /\ Raw
    BY <1>3 DEF IInv, Slots, Grow, Idle
  <1>5. m < MaxChunks /\ c \in Slots
    BY <1>3, <1>4 DEF Slots
  <1>6. /\ ChunkOK(RawChunk, store.file[c])
        /\ Holds(RawChunk, store.file[c], RawChunk.buf)
        /\ RawChunk.buf # Gone /\ RawChunk.buf \in Seq(Values)
    BY NewChunks DEF ChunkOK, Holds
  <1>7. /\ StoreOK(r.store, {c}) /\ StoreHolds(r.store, w, appended)
        /\ Len(r.store.chunks) = c /\ r.cache \in BOOLEAN
        /\ StoreOK(r.store, {})
    <2>1. Addable(store, truth, appended, RawChunk, RawChunk.buf)
      BY <1>3, <1>5, <1>6 DEF Addable
    <2>2. Joined(store, truth, appended, RawChunk, RawChunk.buf, r)
      BY <1>1, <2>1, AddChunkOK
    <2> QED BY <1>6, <2>2 DEF Joined
  <1>8. StoreOK(store', {})
    BY <1>1, <1>7
  <1>9. DataOK(store', truth', appended')
    BY <1>1, <1>2, <1>3, <1>6, <1>7, <1>8 DEF DataOK
  <1>10. lru' \in Lists
    BY <1>2, <1>5, ToFrontOK DEF IInv
  <1>11. Chunks' = 1 .. c
    BY <1>1, <1>3, <1>7, <1>8 DEF Chunks, StoreOK
  <1>12. active' \in {0} \cup Chunks'
    BY <1>2, <1>3, <1>11 DEF IInv
  <1>13. want' \in {0} \cup Slots /\ (want' # 0 => Raw /\ Len(store'.chunks) < want')
    BY <1>1, <1>2, <1>3, <1>4, <1>7 DEF Slots
  <1> QED BY <1>1, <1>2, <1>7, <1>9, <1>10, <1>12, <1>13, NoteOK DEF IInv

LEMMA WantInv ==
    ASSUME IInv, NEW c \in Slots, Want(c)
    PROVE  IInv'
  <1>1. /\ Raw /\ c \notin Chunks /\ want' = c
        /\ UNCHANGED <<store, lru, active, cache, saved, persisted, clean, truth, appended>>
    BY DEF Want, saving
  <1>2. Len(store.chunks) < c
    BY <1>1, ChunksAreSlots DEF Slots
  <1>3. Chunks' = Chunks
    BY <1>1 DEF Chunks
  <1> QED BY <1>1, <1>2, <1>3 DEF IInv

LEMMA CompactAllInv ==
    ASSUME IInv, CompactAll
    PROVE  IInv'
  <1>1. PICK r \in Compact(store, lru, active, 2 * MaxUnpacked, 0) :
            store' = r.store /\ cache' = r.cache
    BY DEF CompactAll
  <1>2. /\ want = 0 /\ NoteWrites
        /\ UNCHANGED <<lru, active, want, saving, truth, appended>>
    BY DEF CompactAll, Idle
  <1>3. /\ StoreOK(store, {}) /\ StoreHolds(store, truth, appended) /\ cache \in BOOLEAN
        /\ truth \in Seq(Seq(Values)) /\ Len(truth) = Len(store.chunks)
    BY DEF IInv, DataOK
  <1>4. /\ StoreOK(store', {}) /\ StoreHolds(store', truth, appended)
        /\ Len(store'.chunks) = Len(store.chunks) /\ cache' \in BOOLEAN
    BY <1>1, <1>3, CompactOK
  <1>5. DataOK(store', truth', appended') /\ Chunks' = Chunks
    BY <1>2, <1>3, <1>4 DEF DataOK, Chunks, StoreOK
  <1> QED BY <1>2, <1>4, <1>5, NoteOK DEF IInv

\* Saving some or all of the chunks of a well kept store.
LEMMA SaveHere ==
    ASSUME IInv, NEW W
    PROVE  /\ DataOK(Save(store, W), truth, appended)
           /\ DOMAIN Save(store, W).chunks = Chunks
           /\ \A c \in W \cap Chunks :
                 /\ Save(store, W).chunks[c].saved
                 /\ Save(store, W).file[c] \in Seq(Values)
                 /\ Save(store, W).chunks[c].bufpos = store.chunks[c].bufpos
  <1> DEFINE s == Save(store, W)
  <1>1. /\ StoreOK(store, {}) /\ StoreHolds(store, truth, appended)
        /\ truth \in Seq(Seq(Values)) /\ Len(truth) = Len(store.chunks)
    BY DEF IInv, DataOK
  <1>2. /\ StoreOK(s, {}) /\ StoreHolds(s, truth, appended)
        /\ Len(s.chunks) = Len(store.chunks)
        /\ \A c \in (W \cap DOMAIN store.chunks) \ {} :
              s.chunks[c].saved /\ s.file[c] \in Seq(Values)
        /\ \A c \in DOMAIN store.chunks : s.chunks[c].bufpos = store.chunks[c].bufpos
    BY <1>1, SaveOK
  <1> HIDE DEF s
  <1>3. DOMAIN s.chunks = Chunks
    BY <1>1, <1>2 DEF StoreOK, Chunks
  <1>4. DataOK(s, truth, appended)
    BY <1>1, <1>2 DEF DataOK
  <1> QED BY <1>2, <1>3, <1>4 DEF s, Chunks

LEMMA SavePartInv ==
    ASSUME IInv, NEW n \in Chunks, SavePart(n)
    PROVE  IInv'
  <1>1. /\ store' = Save(store, 1 .. n) /\ want = 0 /\ NoteWrites
        /\ UNCHANGED <<lru, active, cache, want, saving, truth, appended>>
    BY DEF SavePart, Idle
  <1>2. DataOK(store', truth', appended') /\ Chunks' = Chunks
    BY <1>1, SaveHere DEF Chunks
  <1> QED BY <1>1, <1>2, NoteOK DEF IInv

LEMMA SaveAllInv ==
    ASSUME IInv, SaveAll
    PROVE  IInv'
  <1> DEFINE m == Len(store.chunks)
             index == [c \in Chunks |-> store.chunks[c].bufpos]
  <1>1. /\ store' = Save(store, Chunks) /\ want = 0
        /\ saved' = index /\ persisted' = truth /\ clean' = TRUE
        /\ UNCHANGED <<lru, active, cache, want, truth, appended>>
    BY DEF SaveAll, Idle
  <1>2. /\ StoreOK(store, {}) /\ StoreHolds(store, truth, appended)
        /\ truth \in Seq(Seq(Values)) /\ Len(truth) = m
        /\ Chunks = 1 .. m /\ m \in Nat /\ m <= MaxChunks
    BY ChunksAreSlots DEF IInv, DataOK
  <1>3. DataOK(store', truth', appended') /\ Chunks' = Chunks
    BY <1>1, SaveHere DEF Chunks
  <1>4. ASSUME NEW c \in Chunks
        PROVE  /\ store'.chunks[c].saved /\ store'.file[c] \in Seq(Values)
               /\ store'.chunks[c].bufpos = store.chunks[c].bufpos
               /\ store.chunks[c].bufpos \in Nat
    <2>1. store.chunks[c] \in ChunkSet
      BY <1>2 DEF StoreOK, Chunks
    <2>2. store.chunks[c].bufpos \in Nat
      BY <2>1, ChunkParts
    <2> QED BY <1>1, <2>2, SaveHere
  <1>5. index \in Seq(Nat) /\ Len(index) = m /\ DOMAIN index = 1 .. m
        /\ \A c \in Chunks : index[c] = store.chunks[c].bufpos
    <2>1. /\ DOMAIN index = 1 .. m /\ index = [c \in 1 .. m |-> index[c]]
          /\ \A c \in 1 .. m : index[c] = store.chunks[c].bufpos
      BY <1>2
    <2>2. \A c \in 1 .. m : index[c] \in Nat
      BY <1>2, <1>4, <2>1
    <2> HIDE DEF index, m
    <2> QED BY <1>2, <2>1, <2>2, FunSeq
  <1> HIDE DEF index
  <1>6. ASSUME NEW c \in Chunks, c \notin appended
        PROVE  store'.file[c] = truth[c] /\ index[c] = Len(truth[c])
    <2>1. Holds(store'.chunks[c], store'.file[c], truth[c])
      BY <1>1, <1>3, <1>6 DEF DataOK, StoreHolds, Chunks
    <2> QED BY <1>4, <1>5, <2>1 DEF Holds
  <1>7. SavedOK(store'.file, saved', persisted', appended')
    BY <1>1, <1>2, <1>4, <1>5, <1>6 DEF SavedOK
  <1> QED BY <1>1, <1>2, <1>3, <1>5, <1>7 DEF IInv

LEMMA ReloadInv ==
    ASSUME IInv, Reload
    PROVE  IInv'
  <1> DEFINE m == Len(saved)
             read(c) == Chunk(Gone, 0, saved[c], TRUE)
  <1>1. /\ store' = [chunks |-> [c \in DOMAIN saved |-> read(c)], file |-> store.file]
        /\ lru' = NoList /\ active' = 0 /\ want' = 0 /\ truth' = persisted /\ clean
        /\ UNCHANGED <<cache, saved, persisted, clean, appended>>
    BY DEF Reload, saving
  <1>2. /\ saved \in Seq(Nat) /\ m \in Nat /\ m <= MaxChunks /\ DOMAIN saved = 1 .. m
        /\ persisted \in Seq(Seq(Values)) /\ Len(persisted) = m
        /\ SavedOK(store.file, saved, persisted, appended)
        /\ store.file \in [Slots -> Buffers]
    BY <1>1 DEF IInv, DataOK, StoreOK
  <1>3. ASSUME NEW c \in 1 .. m
        PROVE  /\ read(c) \in ChunkSet /\ read(c).saved
               /\ read(c).buf = Gone /\ read(c).bufpos = saved[c]
    <2>1. saved[c] \in Nat
      BY <1>2
    <2> QED BY <2>1 DEF Chunk, ChunkSet, Buffers
  <1> HIDE DEF read
  <1>4. /\ store'.chunks = [c \in 1 .. m |-> store'.chunks[c]]
        /\ store' = [chunks |-> store'.chunks, file |-> store'.file]
        /\ store'.file = store.file
        /\ \A c \in 1 .. m : store'.chunks[c] = read(c)
    BY <1>1, <1>2
  <1>5. ASSUME NEW c \in 1 .. m
        PROVE  /\ ChunkOK(store'.chunks[c], store'.file[c])
               /\ store'.chunks[c].saved
               /\ c \notin appended =>
                     Holds(store'.chunks[c], store'.file[c], persisted[c])
    BY <1>2, <1>3, <1>4 DEF ChunkOK, Holds, SavedOK
  <1>6. /\ StoreOK(store', {}) /\ Len(store'.chunks) = m
        /\ DOMAIN store'.chunks = 1 .. m
    <2> HIDE DEF m
    <2> QED BY <1>2, <1>4, <1>5, StoreFromChunks
  <1>7. StoreHolds(store', persisted, appended)
    BY <1>5, <1>6 DEF StoreHolds
  <1>8. DataOK(store', truth', appended')
    BY <1>1, <1>2, <1>6, <1>7 DEF DataOK
  <1>9. lru' \in Lists
    BY <1>1 DEF NoList, Lists
  <1>10. appended' = appended /\ SavedOK(store'.file, saved', persisted', appended')
    BY <1>1, <1>2, <1>4
  <1> HIDE DEF m
  <1> QED BY <1>1, <1>2, <1>8, <1>9, <1>10 DEF IInv

LEMMA StutterInv ==
    ASSUME IInv, UNCHANGED vars
    PROVE  IInv'
  BY DEF IInv, vars, Chunks

LEMMA NextInv ==
    ASSUME IInv, [Next]_vars
    PROVE  IInv'
  <1>1. ASSUME NEW c \in Chunks, Get(c) PROVE IInv'
    BY <1>1, GetInv
  <1>2. ASSUME NEW c \in Chunks, NEW v \in Values, NEW i \in DOMAIN truth[c],
               Update(c, i, v)
        PROVE  IInv'
    BY <1>2, UpdateInv
  <1>3. ASSUME NEW n \in Sizes, NEW v \in Values, AllocHere(n, v) PROVE IInv'
    BY <1>3, AllocHereInv
  <1>4. ASSUME NEW n \in Sizes, NEW v \in Values, AllocInNew(n, v) PROVE IInv'
    BY <1>4, AllocInNewInv
  <1>5. ASSUME NEW c \in Slots, Want(c) PROVE IInv'
    BY <1>5, WantInv
  <1>6. CASE Grow
    BY <1>6, GrowInv
  <1>7. CASE OpenCache
    <2>1. cache' = TRUE /\ Chunks' = Chunks
          /\ UNCHANGED <<store, lru, active, want, saved, persisted, clean, truth, appended>>
      BY <1>7 DEF OpenCache, saving, Chunks
    <2> QED BY <2>1 DEF IInv
  <1>8. CASE CompactAll
    BY <1>8, CompactAllInv
  <1>9. ASSUME NEW n \in Chunks, SavePart(n) PROVE IInv'
    BY <1>9, SavePartInv
  <1>10. CASE SaveAll
    BY <1>10, SaveAllInv
  <1>11. CASE Reload
    BY <1>11, ReloadInv
  <1>12. CASE UNCHANGED vars
    BY <1>12, StutterInv
  <1> QED BY <1>1, <1>2, <1>3, <1>4, <1>5, <1>6, <1>7, <1>8, <1>9, <1>10, <1>11, <1>12
          DEF Next

-----------------------------------------------------------------------------
LEMMA InvTypes == IInv => TypeOK
  BY DEF IInv, TypeOK, DataOK, StoreOK, Lists, Buffers

LEMMA InvReadable == IInv => NodesReadable
  <1> SUFFICES ASSUME IInv PROVE NodesReadable
    OBVIOUS
  <1>1. Chunks = DOMAIN truth
    BY ChunksAreSlots DEF IInv, DataOK
  <1>2. ASSUME NEW c \in Chunks, c \notin appended
        PROVE  Contents(store, c) = truth[c] /\ store.chunks[c].bufpos = Len(truth[c])
    BY <1>2 DEF IInv, DataOK, StoreOK, StoreHolds, Holds, Contents, InMemory, Chunks
  <1> QED BY <1>1, <1>2 DEF NodesReadable

\* The storage's members keep their types.
THEOREM TypeCorrect == Spec => []TypeOK
  <1>1. Init => IInv
    BY InitInv
  <1>2. IInv /\ [Next]_vars => IInv'
    BY NextInv
  <1> QED BY <1>1, <1>2, InvTypes, PTL DEF Spec

\* Every node can be read back as it was last written, whichever chunks
\* compact() swaps out, for all sizes, limits and numbers of chunks; only the
\* chunks that grew while they were marked saved are excepted.
THEOREM NodesKept == Spec => []NodesReadable
  <1>1. Init => IInv
    BY InitInv
  <1>2. IInv /\ [Next]_vars => IInv'
    BY NextInv
  <1> QED BY <1>1, <1>2, InvReadable, PTL DEF Spec

-----------------------------------------------------------------------------
(* What getChunk brings into memory stays there. *)

\* What a step does to the most recent chunk.
StaysStep ==
    \A c \in Chunks :
        lru'.recent = c /\ ~ InMemory(store', c) =>
            ~ Get(c) /\ (lru.recent = c /\ InMemory(store, c) => CompactAll)

LEMMA ToFrontRecent ==
    ASSUME NEW l, NEW c
    PROVE  ToFront(l, c).recent = c
  BY DEF ToFront

\* After getChunk of a chunk it is in memory, and stays there when it is changed.
LEMMA TouchedStays ==
    ASSUME IInv, NEW c \in Chunks, NEW r \in Touch(store, c)
    PROVE  /\ InMemory(r.store, c) /\ StoreOK(r.store, {})
           /\ c \in DOMAIN r.store.chunks
  <1>1. /\ StoreOK(store, {}) /\ StoreHolds(store, truth, appended) /\ cache \in BOOLEAN
        /\ c \in DOMAIN store.chunks
    BY DEF IInv, DataOK, Chunks
  <1>2. /\ StoreOK(r.store, {}) /\ InMemory(r.store, c)
        /\ Len(r.store.chunks) = Len(store.chunks)
    BY <1>1, TouchOK
  <1>3. DOMAIN r.store.chunks = DOMAIN store.chunks
    BY <1>1, <1>2 DEF StoreOK
  <1> QED BY <1>1, <1>2, <1>3

\* A chunk is replaced by one that has a buffer.
LEMMA WithStays ==
    ASSUME NEW s, NEW c \in DOMAIN s.chunks, NEW ch, ch.buf # Gone,
           NEW d \in DOMAIN s.chunks, InMemory(s, d)
    PROVE  InMemory(WithChunk(s, c, ch), d)
  BY DEF WithChunk, InMemory

LEMMA GetStays ==
    ASSUME IInv, NEW d \in Chunks, Get(d)
    PROVE  lru'.recent = d /\ InMemory(store', d)
  <1>1. PICK r \in Touch(store, d) : store' = r.store
    BY DEF Get
  <1> QED BY <1>1, TouchedStays, ToFrontRecent DEF Get

LEMMA UpdateStays ==
    ASSUME IInv, NEW d \in Chunks, NEW v \in Values, NEW i \in DOMAIN truth[d],
           Update(d, i, v)
    PROVE  lru'.recent = d /\ InMemory(store', d)
  <1>1. PICK r \in Touch(store, d) :
            /\ i \in DOMAIN r.store.chunks[d].buf
            /\ store' = IF r.store.chunks[d].buf[i] = v THEN r.store
                        ELSE WithChunk(r.store, d, Modified(r.store.chunks[d], i, v))
    BY DEF Update
  <1> DEFINE ch == r.store.chunks[d]
  <1>2. /\ InMemory(r.store, d) /\ StoreOK(r.store, {}) /\ d \in DOMAIN r.store.chunks
    BY TouchedStays
  <1>3. ch \in ChunkSet /\ ch.buf # Gone /\ i \in DOMAIN ch.buf
    BY <1>1, <1>2 DEF StoreOK, ChunkOK, InMemory
  <1>4. Modified(ch, i, v).buf # Gone
    BY <1>3, ModifiedOK
  <1>5. InMemory(WithChunk(r.store, d, Modified(ch, i, v)), d)
    BY <1>2, <1>4, WithStays
  <1>6. lru'.recent = d
    BY ToFrontRecent DEF Update
  <1> QED BY <1>1, <1>2, <1>5, <1>6

LEMMA SaveStays ==
    ASSUME IInv, NEW W, NEW c \in Chunks, InMemory(store, c)
    PROVE  InMemory(Save(store, W), c)
  <1>1. StoreOK(store, {}) /\ StoreHolds(store, truth, appended)
    BY DEF IInv, DataOK
  <1> QED BY <1>1, SaveOK DEF Chunks, InMemory

LEMMA StaysStepOK ==
    ASSUME IInv, [Next]_vars
    PROVE  StaysStep
  <1> SUFFICES ASSUME NEW c \in Chunks, lru'.recent = c, ~ InMemory(store', c)
               PROVE  ~ Get(c) /\ (lru.recent = c /\ InMemory(store, c) => CompactAll)
    BY DEF StaysStep
  <1>0. /\ Chunks = 1 .. Len(store.chunks) /\ Len(store.chunks) \in Nat
        /\ ~ Get(c) /\ c \in Slots
    BY GetStays, ChunksAreSlots
  <1> SUFFICES ASSUME lru.recent = c, InMemory(store, c), ~ CompactAll
               PROVE  FALSE
    BY <1>0
  <1>1. ASSUME NEW d \in Chunks, Get(d) PROVE FALSE
    BY <1>1, GetStays
  <1>2. ASSUME NEW d \in Chunks, NEW v \in Values, NEW i \in DOMAIN truth[d],
               Update(d, i, v)
        PROVE  FALSE
    BY <1>2, UpdateStays
  <1>3. ASSUME NEW n \in Sizes, NEW v \in Values, AllocHere(n, v) PROVE FALSE
    <2> DEFINE ch == store.chunks[active]
    <2>1. /\ active \in Chunks /\ ch \in ChunkSet
          /\ store' = WithChunk(store, active, Added(ch, n, v))
      BY <1>3 DEF AllocHere, AddNode, IInv, DataOK, StoreOK, ChunkOK, Chunks
    <2>2. n \in Nat
      BY DataStorageAssumption
    <2>3. Added(ch, n, v).buf # Gone
      <3> HIDE DEF ch
      <3> QED BY <2>1, <2>2, AddedOK
    <2> QED BY <2>1, <2>3, WithStays DEF Chunks
  <1>4. ASSUME NEW n \in Sizes, NEW v \in Values, AllocInNew(n, v) PROVE FALSE
    <2>1. lru'.recent = Len(store.chunks) + 1
      BY <1>4, ToFrontRecent DEF AllocInNew
    <2> QED BY <1>0, <2>1
  <1>5. ASSUME NEW d \in Slots, Want(d) PROVE FALSE
    BY <1>5 DEF Want
  <1>6. CASE Grow
    <2>1. lru'.recent = Len(store.chunks) + 1
      BY <1>6, ToFrontRecent DEF Grow
    <2> QED BY <1>0, <2>1
  <1>7. CASE OpenCache
    BY <1>7 DEF OpenCache
  <1>9. ASSUME NEW n \in Chunks, SavePart(n) PROVE FALSE
    BY <1>9, SaveStays DEF SavePart
  <1>10. CASE SaveAll
    BY <1>10, SaveStays DEF SaveAll
  <1>11. CASE Reload
    <2>1. lru'.recent = 0
      BY <1>11 DEF Reload, NoList
    <2> QED BY <1>0, <2>1
  <1>12. CASE UNCHANGED vars
    BY <1>12 DEF vars
  <1> QED BY <1>1, <1>2, <1>3, <1>4, <1>5, <1>6, <1>7, <1>9, <1>10, <1>11, <1>12
          DEF Next

\* A pointer into the most recent chunk stays good.
THEOREM RecentStays == Spec => RecentChunkStays
  <1>1. Init => IInv
    BY InitInv
  <1>2. IInv /\ [Next]_vars => IInv'
    BY NextInv
  <1>3. IInv /\ [Next]_vars => [StaysStep]_vars
    BY StaysStepOK
  <1>4. [][StaysStep]_vars => RecentChunkStays
    BY PTL DEF StaysStep, RecentChunkStays
  <1> QED BY <1>1, <1>2, <1>3, <1>4, PTL DEF Spec

-----------------------------------------------------------------------------
(* The list of recently used chunks, as a sequence. *)

Pointers == [Slots -> Slots \cup {0}]

\* The kth chunk of a list, 0 before its start and after its end.
At(o, k) == IF k \in 1 .. Len(o) THEN o[k] ELSE 0

\* The pointers link the chunks in the order o, and no others but c perhaps.
Links(next, prev, o, c) ==
    /\ next \in Pointers /\ prev \in Pointers
    /\ \A k \in 1 .. Len(o) : next[o[k]] = At(o, k + 1) /\ prev[o[k]] = At(o, k - 1)
    /\ \A x \in Slots \ {c} : x \notin Range(o) => next[x] = 0 /\ prev[x] = 0

Orders(l, o) ==
    /\ l \in Lists /\ o \in Seq(Slots) /\ IsInjective(o)
    /\ l.recent = At(o, 1)
    /\ Links(l.next, l.prev, o, 0)

LEMMA SlotsAre ==
    /\ MaxChunks \in Nat /\ 0 \notin Slots /\ Slots \subseteq Nat
    /\ \A x \in Slots : x # 0
  BY DataStorageAssumption DEF Slots

LEMMA AtIs ==
    ASSUME NEW o \in Seq(Slots), NEW k \in Int
    PROVE  /\ At(o, k) \in Slots \cup {0}
           /\ k \in 1 .. Len(o) <=> At(o, k) # 0
  BY SlotsAre DEF At

\* q is p, but that c, if there is a c, points to d.
Relinked(q, p, c, d) ==
    /\ q \in Pointers
    /\ c # 0 => q[c] = d
    /\ \A x \in Slots : x # c => q[x] = p[x]

LEMMA LinkedIs ==
    ASSUME NEW p \in Pointers, NEW c \in Slots \cup {0}, NEW d \in Slots \cup {0}
    PROVE  Relinked(Linked(p, c, d), p, c, d)
  BY DEF Linked, Pointers, Relinked

LEMMA RemovedAt ==
    ASSUME NEW o \in Seq(Slots), IsInjective(o), NEW k \in 1 .. Len(o)
    PROVE  /\ RemoveAt(o, k) \in Seq(Slots) /\ Len(RemoveAt(o, k)) = Len(o) - 1
           /\ IsInjective(RemoveAt(o, k))
           /\ \A j \in 1 .. Len(o) - 1 :
                  RemoveAt(o, k)[j] = IF j < k THEN o[j] ELSE o[j + 1]
           /\ Range(RemoveAt(o, k)) = Range(o) \ {o[k]}
  <1> DEFINE p == RemoveAt(o, k)
  <1>1. /\ p \in Seq(Slots) /\ Len(p) = Len(o) - 1 /\ IsInjective(p)
        /\ \A j \in 1 .. Len(o) - 1 : p[j] = IF j < k THEN o[j] ELSE o[j + 1]
    BY RemoveAtKeeps
  <1>2. Range(p) = {o[j] : j \in (1 .. Len(o)) \ {k}}
    BY RemoveAtKeeps
  <1>3. \A i \in 1 .. Len(o), j \in 1 .. Len(o) : o[i] = o[j] => i = j
    BY DEF IsInjective
  <1>4. \A x : x \in Range(o) <=> \E j \in 1 .. Len(o) : o[j] = x
    BY RangeIs
  <1> HIDE DEF p
  <1>5. Range(p) = Range(o) \ {o[k]}
    BY <1>2, <1>3, <1>4
  <1> QED BY <1>1, <1>5 DEF p

\* The neighbours of the kth chunk of a list.
LEMMA Neighbours ==
    ASSUME NEW next, NEW prev, NEW o \in Seq(Slots), NEW c, Links(next, prev, o, c),
           NEW k \in 1 .. Len(o)
    PROVE  /\ o[k] \in Slots /\ next \in Pointers /\ prev \in Pointers
           /\ next[o[k]] = IF k = Len(o) THEN 0 ELSE o[k + 1]
           /\ prev[o[k]] = IF k = 1 THEN 0 ELSE o[k - 1]
           /\ k # Len(o) => k + 1 \in 1 .. Len(o) /\ o[k + 1] \in Slots
           /\ k # 1 => k - 1 \in 1 .. Len(o) /\ o[k - 1] \in Slots
  <1>1. /\ next[o[k]] = At(o, k + 1) /\ prev[o[k]] = At(o, k - 1)
        /\ next \in Pointers /\ prev \in Pointers
    BY DEF Links
  <1>2. At(o, k + 1) = IF k = Len(o) THEN 0 ELSE o[k + 1]
    BY DEF At
  <1>3. At(o, k - 1) = IF k = 1 THEN 0 ELSE o[k - 1]
    BY DEF At
  <1>4. /\ k # Len(o) => k + 1 \in 1 .. Len(o)
        /\ k # 1 => k - 1 \in 1 .. Len(o)
    OBVIOUS
  <1>5. \A j \in 1 .. Len(o) : o[j] \in Slots
    OBVIOUS
  <1> QED BY <1>1, <1>2, <1>3, <1>4, <1>5

\* A chunk that is not the most recent one is taken out of the list, if it is there.
Unlinked(l, o, c, p) ==
    /\ p \in Seq(Slots) /\ IsInjective(p) /\ Range(p) = Range(o) \ {c}
    /\ At(p, 1) = l.recent
    /\ Links(Linked(l.next, l.prev[c], l.next[c]), Linked(l.prev, l.next[c], l.prev[c]), p, c)

LEMMA SameAt ==
    ASSUME NEW o, IsInjective(o), NEW n, n = Len(o), DOMAIN o = 1 .. n
    PROVE  \A i \in 1 .. n, j \in 1 .. n : o[i] = o[j] => i = j
  BY DEF IsInjective

\* The kth chunk is unlinked.
LEMMA CutOut ==
    ASSUME NEW next0, NEW prev0, NEW o \in Seq(Slots), IsInjective(o),
           Links(next0, prev0, o, 0), NEW n, n = Len(o), NEW k \in 2 .. n,
           NEW c, c = o[k], NEW a, a = prev0[c], NEW b, b = next0[c],
           NEW next, next = Linked(next0, a, b), NEW prev, prev = Linked(prev0, b, a)
    PROVE  Links(next, prev, RemoveAt(o, k), c)
  <1>0. n \in Nat /\ DOMAIN o = 1 .. n /\ k \in 1 .. n /\ k # 1 /\ k \in Nat
    OBVIOUS
  <1>1. /\ next0 \in Pointers /\ prev0 \in Pointers
        /\ \A i \in 1 .. n :
              /\ o[i] \in Slots
              /\ next0[o[i]] = IF i = n THEN 0 ELSE o[i + 1]
              /\ prev0[o[i]] = IF i = 1 THEN 0 ELSE o[i - 1]
              /\ i # n => i + 1 \in 1 .. n /\ o[i + 1] \in Slots
              /\ i # 1 => i - 1 \in 1 .. n /\ o[i - 1] \in Slots
    BY <1>0, Neighbours
  <1>2. \A i \in 1 .. n, j \in 1 .. n : o[i] = o[j] => i = j
    BY <1>0, SameAt
  <1>3. \A x \in Slots : x \notin Range(o) => next0[x] = 0 /\ prev0[x] = 0
    BY SlotsAre DEF Links
  <1>4. \A x : x \in Range(o) <=> \E i \in 1 .. n : o[i] = x
    BY RangeIs
  <1> DEFINE p == RemoveAt(o, k)
  <1>5. /\ p \in Seq(Slots) /\ Len(p) = n - 1
        /\ \A j \in 1 .. n - 1 : p[j] = IF j < k THEN o[j] ELSE o[j + 1]
        /\ Range(p) = Range(o) \ {c}
    BY <1>0, RemovedAt
  <1> HIDE DEF p
  <1>6. /\ a = o[k - 1] /\ k - 1 \in 1 .. n /\ a \in Slots /\ a \in Slots \cup {0}
        /\ b = (IF k = n THEN 0 ELSE o[k + 1]) /\ b \in Slots \cup {0}
        /\ k # n => k + 1 \in 1 .. n
    BY <1>0, <1>1
  <1>7. /\ next \in Pointers /\ next[a] = b /\ \A x \in Slots : x # a => next[x] = next0[x]
    <2>1. a # 0
      BY <1>6, SlotsAre
    <2>2. Relinked(next, next0, a, b)
      BY <1>1, <1>6, LinkedIs, Zenon
    <2> QED BY <2>1, <2>2 DEF Relinked
  <1>8. /\ prev \in Pointers
        /\ b # 0 => prev[b] = a
        /\ \A x \in Slots : x # b => prev[x] = prev0[x]
    <2>1. Relinked(prev, prev0, b, a)
      BY <1>1, <1>6, LinkedIs, Zenon
    <2> QED BY <2>1 DEF Relinked
  <1>9. ASSUME NEW j \in 1 .. n - 1
        PROVE  next[p[j]] = At(p, j + 1) /\ prev[p[j]] = At(p, j - 1)
    <2>1. PICK i \in 1 .. n : i = (IF j < k THEN j ELSE j + 1) /\ i # k
      BY <1>0
    <2>2. p[j] = o[i] /\ o[i] \in Slots
      BY <1>1, <1>5, <2>1
    <2>3. At(p, j + 1) = IF j = n - 1 THEN 0 ELSE IF j + 1 < k THEN o[j + 1] ELSE o[j + 2]
      BY <1>0, <1>5 DEF At
    <2>4. At(p, j - 1) = IF j = 1 THEN 0 ELSE IF j - 1 < k THEN o[j - 1] ELSE o[j]
      BY <1>0, <1>5 DEF At
    <2>5. next[p[j]] = At(p, j + 1)
      <3>1. CASE i = k - 1
        <4>1. o[i] = a /\ j + 1 = k /\ j \in Nat
          BY <1>6, <1>0, <2>1, <3>1
        <4>2. (j = n - 1) <=> (k = n)
          BY <1>0, <4>1
        <4> QED BY <1>0, <1>6, <1>7, <2>2, <2>3, <4>1, <4>2
      <3>2. CASE i # k - 1
        <4>1. o[i] # a
          BY <1>2, <1>6, <3>2
        <4>2. next[p[j]] = IF i = n THEN 0 ELSE o[i + 1]
          BY <1>1, <1>7, <2>2, <4>1
        <4> QED BY <1>0, <2>1, <2>3, <3>2, <4>2
      <3> QED BY <3>1, <3>2
    <2>6. prev[p[j]] = At(p, j - 1)
      <3>1. CASE i = k + 1
        <4>1. k # n /\ b = o[i] /\ b # 0 /\ j = k
          BY <1>0, <1>1, <1>6, <2>1, <3>1, SlotsAre
        <4>2. prev[p[j]] = a
          BY <1>8, <2>2, <4>1
        <4> QED BY <1>0, <1>6, <2>4, <4>1, <4>2
      <3>2. CASE i # k + 1
        <4>1. o[i] # b
          BY <1>2, <1>6, <2>2, <3>2, SlotsAre
        <4>2. prev[p[j]] = IF i = 1 THEN 0 ELSE o[i - 1]
          BY <1>1, <1>8, <2>2, <4>1
        <4> QED BY <1>0, <2>1, <2>4, <3>2, <4>2
      <3> QED BY <3>1, <3>2
    <2> QED BY <2>5, <2>6
  <1>10. ASSUME NEW x \in Slots \ {c}, x \notin Range(p)
         PROVE  next[x] = 0 /\ prev[x] = 0
    <2>1. x \notin Range(o) /\ x \in Slots
      BY <1>5, <1>10
    <2>2. a \in Range(o) /\ (b # 0 => b \in Range(o))
      BY <1>4, <1>6
    <2>3. x # a /\ x # b
      BY <2>1, <2>2, SlotsAre
    <2> QED BY <1>3, <1>7, <1>8, <2>1, <2>3
  <1>11. Links(next, prev, p, c)
    BY <1>5, <1>7, <1>8, <1>9, <1>10 DEF Links
  <1> QED BY <1>11 DEF p

LEMMA TakenOut ==
    ASSUME NEW l, NEW o, Orders(l, o), NEW c \in Slots, c # l.recent, c \in Range(o)
    PROVE  \E p : Unlinked(l, o, c, p)
  <1> DEFINE n == Len(o)
  <1>0. /\ o \in Seq(Slots) /\ IsInjective(o) /\ n \in Nat
        /\ l.recent = At(o, 1) /\ Links(l.next, l.prev, o, 0)
    BY DEF Orders
  <1>1. PICK k \in 1 .. n : o[k] = c
    BY <1>0, RangeIs
  <1>2. k \in 2 .. n
    <2>1. k = 1 => At(o, 1) = c
      BY <1>0, <1>1 DEF At
    <2> QED BY <1>0, <1>1, <2>1
  <1> DEFINE p == RemoveAt(o, k)
  <1>3. /\ p \in Seq(Slots) /\ Len(p) = n - 1 /\ IsInjective(p)
        /\ \A j \in 1 .. n - 1 : p[j] = IF j < k THEN o[j] ELSE o[j + 1]
        /\ Range(p) = Range(o) \ {o[k]}
    BY <1>0, RemovedAt
  <1> HIDE DEF p
  <1>4. At(p, 1) = l.recent
    BY <1>0, <1>2, <1>3 DEF At
  <1>5. Links(Linked(l.next, l.prev[c], l.next[c]), Linked(l.prev, l.next[c], l.prev[c]), p, c)
    <2> HIDE DEF n
    <2> QED BY <1>0, <1>1, <1>2, CutOut, Zenon DEF p, n
  <1> QED BY <1>1, <1>3, <1>4, <1>5, Zenon DEF Unlinked

LEMMA LeftOut ==
    ASSUME NEW l, NEW o, Orders(l, o), NEW c \in Slots, c \notin Range(o)
    PROVE  Unlinked(l, o, c, o)
  <1>1. l.next[c] = 0 /\ l.prev[c] = 0 /\ l.next \in Pointers /\ l.prev \in Pointers
    BY SlotsAre DEF Orders, Links
  <1>2. Linked(l.next, l.prev[c], l.next[c]) = l.next /\ Linked(l.prev, l.next[c], l.prev[c]) = l.prev
    BY <1>1 DEF Linked
  <1>3. Links(l.next, l.prev, o, c)
    BY SlotsAre DEF Orders, Links
  <1> QED BY <1>2, <1>3 DEF Orders, Unlinked

LEMMA InFrontOf ==
    ASSUME NEW c \in Slots, NEW p \in Seq(Slots)
    PROVE  <<c>> \o p \in Seq(Slots) /\ Range(<<c>> \o p) = Range(p) \cup {c}
  <1> DEFINE a == <<c>>
  <1>1. a \in Seq(Slots) /\ Range(a) = {c}
    BY OneInFront
  <1> HIDE DEF a
  <1>2. a \o p \in Seq(Slots) /\ Range(a \o p) = Range(a) \cup Range(p)
    BY <1>1, RangeOfConcat
  <1>3. {c} \cup Range(p) = Range(p) \cup {c}
    OBVIOUS
  <1> QED BY <1>1, <1>2, <1>3 DEF a

\* And it is linked in front of the others.
LEMMA PutInFront ==
    ASSUME NEW next, NEW prev, NEW p \in Seq(Slots), IsInjective(p), NEW c \in Slots,
           c \notin Range(p), Links(next, prev, p, c), NEW recent, recent = At(p, 1)
    PROVE  Orders([recent |-> c, next |-> Linked(next, c, recent),
                   prev |-> Linked(Linked(prev, c, 0), recent, c)], <<c>> \o p)
  <1> DEFINE q == <<c>> \o p
             n == Len(p)
             next2 == Linked(next, c, recent)
             prev1 == Linked(prev, c, 0)
             prev2 == Linked(prev1, recent, c)
  <1>0. n \in Nat /\ \A k \in 1 .. n : p[k] \in Slots
    OBVIOUS
  <1>1. <<c>> \in Seq(Slots) /\ Range(<<c>>) = {c} /\ IsInjective(<<c>>)
    BY OneInFront
  <1>2. /\ q \in Seq(Slots) /\ Range(q) = Range(p) \cup {c} /\ IsInjective(q)
    <2>1. Range(<<c>>) \cap Range(p) = {}
      BY <1>1
    <2>2. q \in Seq(Slots) /\ Range(q) = Range(p) \cup {c}
      BY InFrontOf
    <2>3. IsInjective(q)
      BY <1>1, <2>1, ConcatIsInjective, Zenon
    <2> HIDE DEF q
    <2> QED BY <1>1, <2>2, <2>3
  <1>3. Len(q) = n + 1 /\ \A k \in 1 .. n + 1 : q[k] = IF k = 1 THEN c ELSE p[k - 1]
    BY <1>1, <1>0
  <1> HIDE DEF q
  <1>4. recent \in Slots \cup {0} /\ recent = (IF n = 0 THEN 0 ELSE p[1])
    BY <1>0, AtIs DEF At
  <1>5. next \in Pointers /\ prev \in Pointers
    BY DEF Links
  <1>6. /\ next2 \in Pointers /\ next2[c] = recent /\ \A x \in Slots : x # c => next2[x] = next[x]
    <2>1. Relinked(next2, next, c, recent)
      BY <1>4, <1>5, LinkedIs
    <2> HIDE DEF next2
    <2> QED BY <2>1, SlotsAre DEF Relinked
  <1>7. /\ prev1 \in Pointers /\ prev1[c] = 0 /\ \A x \in Slots : x # c => prev1[x] = prev[x]
    <2>1. Relinked(prev1, prev, c, 0)
      BY <1>5, LinkedIs
    <2> HIDE DEF prev1
    <2> QED BY <2>1, SlotsAre DEF Relinked
  <1> HIDE DEF prev1
  <1>8. /\ prev2 \in Pointers
        /\ recent # 0 => prev2[recent] = c
        /\ \A x \in Slots : x # recent => prev2[x] = prev1[x]
    <2>1. Relinked(prev2, prev1, recent, c)
      BY <1>4, <1>7, LinkedIs
    <2> HIDE DEF prev2
    <2> QED BY <2>1 DEF Relinked
  <1>9. \A k \in 1 .. n : p[k] # c /\ p[k] \in Range(p)
    BY <1>0, RangeIs
  <1>10. recent # c /\ (recent # 0 => recent \in Range(p))
    BY <1>0, <1>4, <1>9, SlotsAre
  <1> HIDE DEF next2, prev2, n
  <1>11. ASSUME NEW k \in 1 .. n + 1
         PROVE  next2[q[k]] = At(q, k + 1) /\ prev2[q[k]] = At(q, k - 1)
    <2>1. CASE k = 1
      <3>1. q[k] = c /\ At(q, k - 1) = 0
        BY <1>3, <2>1 DEF At
      <3>2. At(q, k + 1) = recent
        BY <1>0, <1>3, <1>4, <2>1 DEF At
      <3>3. prev2[c] = 0
        BY <1>7, <1>8, <1>10
      <3> QED BY <1>6, <3>1, <3>2, <3>3
    <2>2. CASE k # 1
      <3> DEFINE j == k - 1
      <3>1. j \in 1 .. n /\ q[k] = p[j] /\ p[j] # c /\ p[j] \in Slots
        BY <1>0, <1>3, <1>9, <2>2
      <3>2. next[p[j]] = At(p, j + 1) /\ prev[p[j]] = At(p, j - 1)
        BY <3>1 DEF Links, n
      <3>3. At(q, k + 1) = At(p, j + 1)
        BY <1>0, <1>3, <3>1 DEF At, n
      <3>4. next2[q[k]] = next[p[j]]
        BY <1>6, <3>1
      <3>5. CASE j = 1
        <4>1. p[j] = recent /\ recent # 0
          BY <1>0, <1>4, <3>1, <3>5, SlotsAre
        <4>2. At(q, k - 1) = c
          BY <1>0, <1>3, <3>5 DEF At
        <4> QED BY <1>8, <3>1, <3>2, <3>3, <3>4, <4>1, <4>2
      <3>6. CASE j # 1
        <4>1. p[j] # recent
          <5>1. recent = p[1] /\ 1 \in DOMAIN p /\ j \in DOMAIN p
            BY <1>0, <1>4, <3>1 DEF n
          <5> QED BY <3>6, <5>1 DEF IsInjective
        <4>2. At(q, k - 1) = At(p, j - 1)
          BY <1>0, <1>3, <3>1, <3>6 DEF At, n
        <4>3. prev2[p[j]] = prev[p[j]]
          BY <1>7, <1>8, <3>1, <4>1
        <4> QED BY <3>1, <3>2, <3>3, <3>4, <4>2, <4>3
      <3> QED BY <3>5, <3>6
    <2> QED BY <2>1, <2>2
  <1>12. ASSUME NEW x \in Slots \ {0}, x \notin Range(q)
         PROVE  next2[x] = 0 /\ prev2[x] = 0
    <2>1. x # c /\ x \notin Range(p) /\ x # recent
      BY <1>2, <1>10, <1>12
    <2>2. next[x] = 0 /\ prev[x] = 0
      BY <2>1 DEF Links
    <2> QED BY <1>6, <1>7, <1>8, <2>1, <2>2
  <1>13. Links(next2, prev2, q, 0)
    BY <1>3, <1>6, <1>8, <1>11, <1>12 DEF Links
  <1>14. c = At(q, 1)
    BY <1>0, <1>3 DEF At
  <1> DEFINE l == [recent |-> c, next |-> next2, prev |-> prev2]
  <1>15. l \in Lists
    BY <1>6, <1>8 DEF Lists, Pointers
  <1>16. Orders(l, q)
    BY <1>2, <1>13, <1>14, <1>15 DEF Orders
  <1> QED BY <1>16 DEF q, next2, prev2, prev1

\* getChunk moves its chunk to the front, whether it was in the list or not.
LEMMA ToFrontOrders ==
    ASSUME NEW l, NEW o, Orders(l, o), NEW c \in Slots
    PROVE  \E q : Orders(ToFront(l, c), q) /\ Range(q) = Range(o) \cup {c}
  <1>1. CASE c = l.recent
    <2>1. ToFront(l, c) = l
      BY <1>1 DEF ToFront
    <2>2. At(o, 1) # 0 /\ At(o, 1) = c /\ o \in Seq(Slots)
      BY <1>1, SlotsAre DEF Orders
    <2>3. c \in Range(o)
      BY <2>2, RangeIs DEF At
    <2> QED BY <2>1, <2>3
  <1>2. CASE c # l.recent
    <2>1. PICK p : Unlinked(l, o, c, p)
      BY <1>2, TakenOut, LeftOut
    <2> DEFINE next == Linked(l.next, l.prev[c], l.next[c])
               prev == Linked(l.prev, l.next[c], l.prev[c])
    <2>2. /\ p \in Seq(Slots) /\ IsInjective(p) /\ Range(p) = Range(o) \ {c}
          /\ At(p, 1) = l.recent /\ Links(next, prev, p, c)
      BY <2>1 DEF Unlinked
    <2>3. ToFront(l, c) = [recent |-> c, next |-> Linked(next, c, l.recent),
                           prev |-> Linked(Linked(prev, c, 0), l.recent, c)]
      BY <1>2 DEF ToFront
    <2> HIDE DEF next, prev
    <2>4. Orders(ToFront(l, c), <<c>> \o p)
      BY <2>2, <2>3, PutInFront
    <2>5. Range(<<c>> \o p) = Range(o) \cup {c}
      <3>1. Range(<<c>> \o p) = Range(p) \cup {c}
        BY <2>2, InFrontOf
      <3>2. (Range(o) \ {c}) \cup {c} = Range(o) \cup {c}
        OBVIOUS
      <3> QED BY <2>2, <3>1, <3>2
    <2> QED BY <2>4, <2>5
  <1> QED BY <1>1, <1>2

LEMMA NoListOrders == Orders(NoList, <<>>)
  <1>1. NoList \in Lists /\ NoList.recent = 0
    BY DEF NoList, Lists
  <1>2. <<>> \in Seq(Slots) /\ IsInjective(<<>>) /\ Len(<<>>) = 0
    BY DEF IsInjective
  <1>3. Links(NoList.next, NoList.prev, <<>>, 0)
    BY DEF Links, NoList, Pointers
  <1> QED BY <1>1, <1>2, <1>3 DEF Orders, At

-----------------------------------------------------------------------------
(* compact() visits the chunks in that order. *)

LEMMA OrderBounded ==
    ASSUME NEW o \in Seq(Slots), IsInjective(o)
    PROVE  Len(o) \in Nat /\ Len(o) <= MaxChunks
  <1> DEFINE n == Len(o)
  <1>1. n \in Nat /\ o \in [1 .. n -> Slots] /\ MaxChunks \in Nat
    BY SlotsAre
  <1>2. o \in Injection(1 .. n, Slots)
    BY <1>1 DEF Injection
  <1>3. /\ IsFiniteSet(Slots) /\ Cardinality(Slots) = IF 1 > MaxChunks THEN 0 ELSE MaxChunks - 1 + 1
    BY <1>1, FS_Interval DEF Slots
  <1>4. Cardinality(1 .. n) = IF 1 > n THEN 0 ELSE n - 1 + 1
    BY <1>1, FS_Interval
  <1>5. Cardinality(1 .. n) <= Cardinality(Slots)
    <2> HIDE DEF n
    <2> QED BY <1>2, <1>3, FS_Injection
  <1> QED BY <1>1, <1>3, <1>4, <1>5

LEMMA NthIs ==
    ASSUME NEW l, NEW o, Orders(l, o)
    PROVE  \A n \in Nat : Nth(l)[n] = At(o, n)
  <1> DEFINE f == Nth(l)
             w == [n \in Nat |-> At(o, n)]
             Step(g, n) == IF n = 0 THEN 0
                           ELSE IF n = 1 THEN l.recent
                           ELSE IF g[n - 1] = 0 THEN 0
                           ELSE l.next[g[n - 1]]
  <1>0. /\ o \in Seq(Slots) /\ l.recent = At(o, 1) /\ Links(l.next, l.prev, o, 0)
    BY DEF Orders
  <1>1. ASSUME NEW n \in Nat PROVE At(o, n) = Step(w, n)
    <2>1. CASE n \in {0, 1}
      BY <1>0, <2>1 DEF At
    <2>2. CASE n \notin {0, 1}
      <3>1. n - 1 \in Nat /\ w[n - 1] = At(o, n - 1) /\ n \in Int /\ n - 1 \in Int
        BY <2>2
      <3>2. CASE n - 1 \in 1 .. Len(o)
        <4>1. At(o, n - 1) = o[n - 1] /\ At(o, n - 1) # 0
          BY <1>0, <3>1, <3>2, AtIs DEF At
        <4>2. l.next[o[n - 1]] = At(o, n)
          BY <1>0, <3>2 DEF Links
        <4> QED BY <2>2, <3>1, <4>1, <4>2
      <3>3. CASE n - 1 \notin 1 .. Len(o)
        <4>1. At(o, n - 1) = 0 /\ At(o, n) = 0
          BY <1>0, <2>2, <3>3 DEF At
        <4> QED BY <2>2, <3>1, <4>1
      <3> QED BY <3>2, <3>3
    <2> QED BY <2>1, <2>2
  <1>2. w = [n \in Nat |-> Step(w, n)]
    BY <1>1
  <1>3. \E g : g = [n \in Nat |-> Step(g, n)]
    <2> HIDE DEF w, Step
    <2> QED BY <1>2, Zenon
  <1>4. f = CHOOSE g : g = [n \in Nat |-> Step(g, n)]
    BY Zenon DEF Nth
  <1>5. f = [n \in Nat |-> Step(f, n)]
    <2> HIDE DEF f, Step
    <2> QED BY <1>3, <1>4, Zenon
  <1> DEFINE T == {n \in Nat : f[n] = w[n]}
  <1> HIDE DEF f
  <1>6. T \subseteq Nat /\ 0 \in T
    <2>1. f[0] = 0 /\ w[0] = 0
      BY <1>1, <1>5
    <2> QED BY <2>1
  <1>7. ASSUME NEW n \in T PROVE n + 1 \in T
    <2>1. n \in Nat /\ n + 1 \in Nat /\ (n + 1) - 1 = n /\ f[n] = w[n]
      OBVIOUS
    <2>2. f[n + 1] = Step(f, n + 1)
      BY <1>5, <2>1
    <2>3. w[n + 1] = Step(w, n + 1)
      BY <1>1, <2>1
    <2> HIDE DEF w
    <2> QED BY <2>1, <2>2, <2>3
  <1>8. T = Nat
    <2> HIDE DEF T
    <2> QED BY <1>6, <1>7, SetInduction
  <1> QED BY <1>8 DEF f

LEMMA OrderIs ==
    ASSUME NEW l, NEW o, Orders(l, o)
    PROVE  Order(l) = o
  <1> DEFINE nth == Nth(l)
             Ends(n) == /\ \A m \in 1 .. n : nth[m] # 0
                        /\ n = MaxChunks + 1 \/ nth[n + 1] = 0
             len == CHOOSE n \in 0 .. MaxChunks + 1 : Ends(n)
  <1>0. /\ o \in Seq(Slots) /\ Len(o) \in Nat /\ Len(o) <= MaxChunks /\ MaxChunks \in Nat
        /\ o = [n \in 1 .. Len(o) |-> o[n]]
    BY OrderBounded, SlotsAre DEF Orders
  <1>1. \A n \in Nat : nth[n] = At(o, n)
    BY NthIs
  <1>2. Order(l) = [n \in 1 .. len |-> nth[n]]
    BY DEF Order
  <1> HIDE DEF nth
  <1>3. Ends(Len(o)) /\ Len(o) \in 0 .. MaxChunks + 1
    BY <1>0, <1>1, AtIs
  <1>4. ASSUME NEW n \in 0 .. MaxChunks + 1, Ends(n) PROVE n = Len(o)
    <2>1. CASE n < Len(o)
      <3>1. n + 1 \in 1 .. Len(o) /\ n + 1 \in Nat /\ n # MaxChunks + 1
        BY <1>0, <2>1
      <3> QED BY <1>0, <1>1, <1>4, <3>1, AtIs
    <2>2. CASE n > Len(o)
      <3>1. Len(o) + 1 \in 1 .. n /\ Len(o) + 1 \in Nat /\ Len(o) + 1 \notin 1 .. Len(o)
        BY <1>0, <2>2
      <3> QED BY <1>0, <1>1, <1>4, <3>1, AtIs
    <2> QED BY <1>0, <2>1, <2>2
  <1>5. len = Len(o)
    <2> HIDE DEF Ends
    <2> QED BY <1>3, <1>4
  <1> HIDE DEF len
  <1>6. \A n \in 1 .. Len(o) : nth[n] = o[n]
    BY <1>0, <1>1 DEF At
  <1> QED BY <1>0, <1>2, <1>5, <1>6

-----------------------------------------------------------------------------
(* The sizes of the chunks. *)

LEMMA LargestIs ==
    /\ LargestChunk \in Nat /\ ChunkSize \in Nat /\ ChunkSize <= LargestChunk
    /\ \A n \in Sizes : n \in Nat /\ n >= 1 /\ LongEnough(n) \in Nat
                        /\ n <= LongEnough(n) /\ LongEnough(n) <= LargestChunk
  <1> DEFINE T == Sizes \cup {ChunkSize}
  <1>1. T \subseteq Nat \ {0}
    BY DataStorageAssumption
  <1>2. PICK m \in Sizes : \A k \in Sizes : k <= m
    BY DataStorageAssumption
  <1>3. \E x \in T : \A y \in T : x >= y
    <2>1. m \in Nat /\ ChunkSize \in Nat
      BY DataStorageAssumption
    <2>2. CASE m >= ChunkSize
      BY <1>2, <2>1, <2>2, DataStorageAssumption
    <2>3. CASE ~ (m >= ChunkSize)
      <3>1. \A y \in Sizes : ChunkSize >= y
        BY <1>2, <2>1, <2>3, DataStorageAssumption
      <3> QED BY <2>1, <3>1
    <2> QED BY <2>2, <2>3
  <1>4. Max(T) \in T /\ \A y \in T : Max(T) >= y
    <2> HIDE DEF T
    <2> QED BY <1>3, Zenon DEF Max
  <1> DEFINE x == Max(T)
  <1>5. x \in Nat /\ ChunkSize \in Nat /\ x >= ChunkSize /\ LargestChunk = LongEnough(x)
    BY <1>1, <1>4, DataStorageAssumption DEF LargestChunk
  <1>6. \A n \in Sizes : n \in Nat /\ n >= 1 /\ x >= n
    BY <1>1, <1>4
  <1> HIDE DEF x, T
  <1>7. LargestChunk \in Nat /\ ChunkSize <= LargestChunk /\ x <= LargestChunk
    BY <1>5 DEF LongEnough
  <1> QED BY <1>5, <1>6, <1>7 DEF LongEnough

\* A chunk is no larger than a chunk can be, its buffer no longer than it says,
\* and so is the copy f in the file that it would be restored from.
FitOK(ch, f) ==
    /\ ch.bufsize <= LargestChunk
    /\ ch.buf = Gone => ch.bufsize = 0
    /\ ch.buf # Gone => Len(ch.buf) <= ch.bufsize /\ Len(ch.buf) <= ch.bufpos
    /\ ch.saved => Len(f) <= LargestChunk /\ Len(f) <= ch.bufpos

SizesFit(s) == \A c \in DOMAIN s.chunks : FitOK(s.chunks[c], s.file[c])

SizesOf(s) == [c \in 1 .. Len(s.chunks) |-> s.chunks[c].bufsize]

LEMMA SizesAreNat ==
    ASSUME NEW s, s.chunks \in Seq(ChunkSet)
    PROVE  /\ Len(s.chunks) \in Nat /\ DOMAIN s.chunks = 1 .. Len(s.chunks)
           /\ SizesOf(s) \in [1 .. Len(s.chunks) -> Nat]
           /\ \A c \in 1 .. Len(s.chunks) : s.chunks[c] \in ChunkSet
  <1>1. ASSUME NEW c \in 1 .. Len(s.chunks)
        PROVE  s.chunks[c] \in ChunkSet /\ s.chunks[c].bufsize \in Nat
    <2>1. s.chunks[c] \in ChunkSet
      OBVIOUS
    <2> QED BY <2>1, ChunkParts
  <1> QED BY <1>1 DEF SizesOf

\* _uncompressedSize is the sum of the sizes.
LEMMA UnpackedsAdds ==
    ASSUME NEW s, s.chunks \in Seq(ChunkSet)
    PROVE  Adds(Unpackeds(s), SizesOf(s), Len(s.chunks))
  <1> DEFINE n == Len(s.chunks)
             a == SizesOf(s)
             Step(x, ch) == x + ch.bufsize
             it == CHOOSE f : f = [S \in SUBSET (1 .. n) |->
                                      IF S = {} THEN 0
                                      ELSE Step(f[S \ {Max(S)}], s.chunks[Max(S)])]
             G == [k \in 1 .. n |-> [x \in Nat |-> x + a[k]]]
  <1>1. /\ n \in Nat /\ DOMAIN s.chunks = 1 .. n /\ a \in [1 .. n -> Nat]
        /\ \A k \in 1 .. n : a[k] = s.chunks[k].bufsize
    BY SizesAreNat DEF SizesOf
  <1> HIDE DEF a
  <1>2. G \in [1 .. n -> [Nat -> Nat]]
    BY <1>1
  <1>3. Unpackeds(s) = it[1 .. n]
    BY <1>1, Zenon DEF Unpackeds, FoldLeft, MapThenFoldSet
  <1>4. \E f : f = [S \in SUBSET (1 .. n) |->
                       IF S = {} THEN 0 ELSE Step(f[S \ {Max(S)}], s.chunks[Max(S)])]
    <2> HIDE DEF G, n, Step
    <2>0. n \in Nat /\ 0 \in Nat
      BY <1>1
    <2>1. PICK f : FoldsOver(f, Nat, 0, n, G)
      BY <2>0, <1>2, FoldExists, Zenon
    <2>2. ASSUME NEW S \in SUBSET (1 .. n), S # {}
          PROVE  G[Max(S)][f[S \ {Max(S)}]] = Step(f[S \ {Max(S)}], s.chunks[Max(S)])
      <3>1. Max(S) \in 1 .. n /\ f[S \ {Max(S)}] \in Nat
        BY <1>1, <2>1, <2>2, LargestIn DEF FoldsOver
      <3>2. G[Max(S)][f[S \ {Max(S)}]] = f[S \ {Max(S)}] + a[Max(S)]
        BY <3>1 DEF G
      <3> QED BY <1>1, <3>1, <3>2 DEF Step
    <2>3. [S \in SUBSET (1 .. n) |->
              IF S = {} THEN 0 ELSE G[Max(S)][f[S \ {Max(S)}]]]
          = [S \in SUBSET (1 .. n) |->
                IF S = {} THEN 0 ELSE Step(f[S \ {Max(S)}], s.chunks[Max(S)])]
      BY <2>2, Zenon
    <2>4. f = [S \in SUBSET (1 .. n) |->
                IF S = {} THEN 0 ELSE Step(f[S \ {Max(S)}], s.chunks[Max(S)])]
      BY <2>1, <2>3, Zenon DEF FoldsOver
    <2> QED BY <2>4, Zenon
  <1>5. it = [S \in SUBSET (1 .. n) |->
                 IF S = {} THEN 0 ELSE Step(it[S \ {Max(S)}], s.chunks[Max(S)])]
    BY <1>4, Zenon
  <1> DEFINE t == [k \in 0 .. n |-> it[1 .. k]]
  <1> HIDE DEF it, Step, n
  <1>6. t[0] = 0
    BY <1>1, <1>5
  <1>7. ASSUME NEW k \in 1 .. n PROVE t[k] = t[k - 1] + a[k]
    <2>1. k \in 0 .. n /\ k - 1 \in 0 .. n
      BY <1>1
    <2>2. /\ 1 .. k \in SUBSET (1 .. n) /\ 1 .. k # {} /\ Max(1 .. k) = k
          /\ (1 .. k) \ {k} = 1 .. k - 1
      BY <1>1, FoldPlaces
    <2>3. it[1 .. k] = IF 1 .. k = {} THEN 0
                       ELSE Step(it[(1 .. k) \ {Max(1 .. k)}], s.chunks[Max(1 .. k)])
      BY <1>5, <2>2, Zenon
    <2>4. it[1 .. k] = Step(it[1 .. k - 1], s.chunks[k])
      BY <2>2, <2>3, Zenon
    <2>5. it[1 .. k] = it[1 .. k - 1] + a[k]
      BY <1>1, <2>4, Zenon DEF Step
    <2> QED BY <2>1, <2>5, Zenon
  <1>8. t[n] = it[1 .. n]
    BY <1>1
  <1>9. AddsUp(t, a, n)
    <2> HIDE DEF t
    <2> QED BY <1>6, <1>7 DEF AddsUp
  <1>10. Adds(Unpackeds(s), a, n)
    <2> HIDE DEF t
    <2> QED BY <1>3, <1>8, <1>9, Zenon DEF Adds, n
  <1> QED BY <1>10 DEF a, n

LEMMA UnpackedsIsNat ==
    ASSUME NEW s, s.chunks \in Seq(ChunkSet)
    PROVE  Unpackeds(s) \in Nat
  BY UnpackedsAdds, SizesAreNat, SumIsNat

LEMMA SameSizes ==
    ASSUME NEW s, s.chunks \in Seq(ChunkSet), NEW u, u.chunks \in Seq(ChunkSet),
           Len(u.chunks) = Len(s.chunks),
           \A c \in 1 .. Len(s.chunks) : u.chunks[c].bufsize = s.chunks[c].bufsize
    PROVE  Unpackeds(u) = Unpackeds(s)
  <1>1. SizesOf(u) = SizesOf(s)
    BY DEF SizesOf
  <1>2. /\ Len(s.chunks) \in Nat /\ SizesOf(s) \in [1 .. Len(s.chunks) -> Nat]
        /\ Adds(Unpackeds(s), SizesOf(s), Len(s.chunks))
    BY SizesAreNat, UnpackedsAdds
  <1>3. Adds(Unpackeds(u), SizesOf(s), Len(s.chunks))
    BY <1>1, UnpackedsAdds
  <1> QED BY <1>2, <1>3, SumSame

\* What saving and swapping leave of the sizes.
LEMMA SaveFits ==
    ASSUME NEW s, NEW N, StoreOK(s, N), SizesFit(s), NEW W
    PROVE  /\ SizesFit(Save(s, W))
           /\ \A c \in DOMAIN s.chunks : Save(s, W).chunks[c].bufsize = s.chunks[c].bufsize
  <1> DEFINE u == Save(s, W)
             n == Len(s.chunks)
  <1>0. /\ n \in Nat /\ DOMAIN s.chunks = 1 .. n /\ 1 .. n \subseteq Slots
        /\ \A c \in 1 .. n : s.chunks[c] \in ChunkSet
    BY DataStorageAssumption DEF StoreOK, Slots
  <1>1. DOMAIN u.chunks = 1 .. n
    BY <1>0 DEF Save
  <1>2. ASSUME NEW c \in 1 .. n, c \in W, Unsaved(s.chunks[c])
        PROVE  /\ u.chunks[c] = Chunk(s.chunks[c].buf, s.chunks[c].bufsize,
                                      s.chunks[c].bufpos, TRUE)
               /\ u.file[c] = s.chunks[c].buf
    BY <1>0, <1>2 DEF Save
  <1>3. ASSUME NEW c \in 1 .. n, ~ (c \in W /\ Unsaved(s.chunks[c]))
        PROVE  u.chunks[c] = s.chunks[c] /\ u.file[c] = s.file[c]
    BY <1>0, <1>3 DEF Save
  <1> HIDE DEF u
  <1>4. ASSUME NEW c \in 1 .. n
        PROVE  FitOK(u.chunks[c], u.file[c]) /\ u.chunks[c].bufsize = s.chunks[c].bufsize
    <2>1. FitOK(s.chunks[c], s.file[c])
      BY <1>0 DEF SizesFit
    <2>2. CASE c \in W /\ Unsaved(s.chunks[c])
      <3> DEFINE ch == s.chunks[c]
      <3>1. u.chunks[c] = Chunk(ch.buf, ch.bufsize, ch.bufpos, TRUE) /\ u.file[c] = ch.buf
        BY <1>2, <2>2
      <3>2. ch.buf # Gone /\ FitOK(ch, s.file[c]) /\ ch \in ChunkSet
        BY <1>0, <2>1, <2>2 DEF Unsaved
      <3> HIDE DEF ch
      <3>3. ch.buf \in Seq(Values) /\ ch.bufsize \in Nat
        BY <3>2, ChunkParts
      <3>4. Len(ch.buf) \in Nat /\ LargestChunk \in Nat
        BY <3>3, LargestIs
      <3>5. /\ u.chunks[c].buf = ch.buf /\ u.chunks[c].bufsize = ch.bufsize
            /\ u.chunks[c].bufpos = ch.bufpos
        BY <3>1 DEF Chunk
      <3>6. /\ ch.bufsize <= LargestChunk /\ Len(ch.buf) <= ch.bufsize
            /\ Len(ch.buf) <= ch.bufpos
        BY <3>2 DEF FitOK
      <3>7. Len(ch.buf) <= LargestChunk
        BY <3>3, <3>4, <3>6
      <3>8. FitOK(u.chunks[c], u.file[c])
        BY <3>1, <3>2, <3>5, <3>6, <3>7 DEF FitOK
      <3> QED BY <3>5, <3>8 DEF ch
    <2>3. CASE ~ (c \in W /\ Unsaved(s.chunks[c]))
      BY <1>3, <2>1, <2>3
    <2> QED BY <2>2, <2>3
  <1> QED BY <1>0, <1>1, <1>4 DEF SizesFit, u

LEMMA SwapFits ==
    ASSUME NEW s, NEW N, StoreOK(s, N), SizesFit(s), NEW V
    PROVE  /\ SizesFit(SwapOut(s, V))
           /\ \A c \in DOMAIN s.chunks :
                 SwapOut(s, V).chunks[c].bufsize = IF c \in V THEN 0 ELSE s.chunks[c].bufsize
  <1> DEFINE w == Save(s, V)
             u == SwapOut(s, V)
             n == Len(s.chunks)
  <1>0. /\ n \in Nat /\ DOMAIN s.chunks = 1 .. n
        /\ \A c \in 1 .. n : s.chunks[c] \in ChunkSet
    BY DEF StoreOK
  <1>1. /\ SizesFit(w) /\ \A c \in 1 .. n : w.chunks[c].bufsize = s.chunks[c].bufsize
    BY <1>0, SaveFits
  <1>2. DOMAIN w.chunks = 1 .. n
    BY <1>0 DEF Save
  <1> HIDE DEF w
  <1>3. u = [chunks |-> [c \in DOMAIN w.chunks |-> IF c \in V THEN Unpacked(w.chunks[c])
                                                   ELSE w.chunks[c]],
             file   |-> w.file]
    BY DEF SwapOut, w
  <1>4. /\ u.file = w.file /\ DOMAIN u.chunks = 1 .. n
        /\ \A c \in 1 .. n : u.chunks[c] = IF c \in V THEN Unpacked(w.chunks[c])
                                           ELSE w.chunks[c]
    BY <1>2, <1>3
  <1> HIDE DEF u
  <1>5. ASSUME NEW c \in 1 .. n
        PROVE  /\ FitOK(u.chunks[c], u.file[c])
               /\ u.chunks[c].bufsize = IF c \in V THEN 0 ELSE s.chunks[c].bufsize
    <2> DEFINE ch == w.chunks[c]
    <2>1. FitOK(ch, w.file[c]) /\ ch.bufsize = s.chunks[c].bufsize
      BY <1>1, <1>2 DEF SizesFit
    <2>2. CASE c \notin V
      BY <1>4, <2>1, <2>2
    <2>3. CASE c \in V /\ ch.buf = Gone
      BY <1>4, <2>1, <2>3 DEF Unpacked, FitOK
    <2>4. CASE c \in V /\ ch.buf # Gone
      <3>1. u.chunks[c] = Chunk(Gone, 0, ch.bufpos, ch.saved) /\ u.file[c] = w.file[c]
        BY <1>4, <2>4 DEF Unpacked
      <3> HIDE DEF ch
      <3>2. /\ u.chunks[c].buf = Gone /\ u.chunks[c].bufsize = 0
            /\ u.chunks[c].bufpos = ch.bufpos /\ u.chunks[c].saved = ch.saved
        BY <3>1 DEF Chunk
      <3>3. 0 <= LargestChunk
        BY LargestIs
      <3> QED BY <2>1, <2>4, <3>1, <3>2, <3>3 DEF FitOK
    <2> QED BY <2>2, <2>3, <2>4
  <1> QED BY <1>0, <1>4, <1>5 DEF SizesFit, u

-----------------------------------------------------------------------------
(* compact() finds what it may swap. *)

\* A list of the chunks of a store that has all those that are in memory.
Visits(s, o) == /\ Range(o) \subseteq DOMAIN s.chunks
                /\ \A c \in DOMAIN s.chunks : InMemory(s, c) => c \in Range(o)
Listed(s, l) == \E o : Orders(l, o) /\ Visits(s, o)

\* The sums that compact() makes of the chunks it keeps, and the others, V.
KeptSums(sum, V, s, o, act, reserved, excluded) ==
    /\ sum \in [0 .. Len(o) -> Nat] /\ sum[0] = reserved
    /\ \A k \in 1 .. Len(o) :
          LET size == s.chunks[o[k]].bufsize IN
          IF Stays(size, o[k], act, excluded, sum[k - 1])
          THEN sum[k] = sum[k - 1] + size /\ o[k] \notin V
          ELSE sum[k] = sum[k - 1] /\ o[k] \in V

LEMMA VictimSums ==
    ASSUME NEW s, NEW N, StoreOK(s, N), NEW l, NEW o, Orders(l, o), Visits(s, o),
           NEW act, NEW reserved \in Nat, NEW excluded
    PROVE  \E sum : KeptSums(sum, Victims(s, o, act, reserved, excluded), s, o, act,
                             reserved, excluded)
  <1> DEFINE n == Len(o)
             V == Victims(s, o, act, reserved, excluded)
             size(k) == s.chunks[o[k]].bufsize
             Step(k, x) == IF Stays(size(k), o[k], act, excluded, x) THEN x + size(k) ELSE x
             sum == CHOOSE f : f = [k \in 0 .. n |-> IF k = 0 THEN reserved
                                                     ELSE Step(k, f[k - 1])]
             G == [k \in 1 .. n |-> [x \in Nat |-> Step(k, x)]]
  <1>1. /\ o \in Seq(Slots) /\ n \in Nat /\ DOMAIN o = 1 .. n
        /\ \A i \in 1 .. n, j \in 1 .. n : o[i] = o[j] => i = j
    BY SameAt DEF Orders
  <1>2. \A k \in 1 .. n : size(k) \in Nat
    <2>1. ASSUME NEW k \in 1 .. n PROVE size(k) \in Nat
      <3>1. o[k] \in DOMAIN s.chunks
        BY <1>1, RangeIs DEF Visits
      <3>2. s.chunks[o[k]] \in ChunkSet
        BY <3>1 DEF StoreOK, ChunkOK
      <3> QED BY <3>2, ChunkParts
    <2> QED BY <2>1
  <1>3. V = {o[k] : k \in {m \in 1 .. n : ~ Stays(size(m), o[m], act, excluded, sum[m - 1])}}
    BY <1>1, Zenon DEF Victims
  <1> HIDE DEF size
  <1>4. G \in [1 .. n -> [Nat -> Nat]]
    BY <1>2
  <1>5. PICK f : FoldsOver(f, Nat, reserved, n, G)
    <2> HIDE DEF G, n
    <2> QED BY <1>1, <1>4, FoldExists, Zenon
  <1> DEFINE t == [k \in 0 .. n |-> f[1 .. k]]
  <1>6. t \in [0 .. n -> Nat]
    <2>1. \A k \in 0 .. n : 1 .. k \in SUBSET (1 .. n)
      BY <1>1
    <2>2. f \in [SUBSET (1 .. n) -> Nat]
      BY <1>5, Zenon DEF FoldsOver
    <2> QED BY <2>1, <2>2
  <1>7. t[0] = reserved
    <2>1. 1 .. 0 = {} /\ {} \in SUBSET (1 .. n) /\ 0 \in 0 .. n
      BY <1>1
    <2>2. f[{}] = reserved
      BY <1>5, <2>1, Zenon DEF FoldsOver
    <2> QED BY <2>1, <2>2
  <1>8. ASSUME NEW k \in 1 .. n PROVE t[k] = Step(k, t[k - 1])
    <2>1. k \in 0 .. n /\ k - 1 \in 0 .. n
      BY <1>1
    <2>2. /\ 1 .. k \in SUBSET (1 .. n) /\ 1 .. k # {} /\ Max(1 .. k) = k
          /\ (1 .. k) \ {k} = 1 .. k - 1
      BY <1>1, FoldPlaces
    <2>3. f[1 .. k] = IF 1 .. k = {} THEN reserved
                      ELSE G[Max(1 .. k)][f[(1 .. k) \ {Max(1 .. k)}]]
      <3> HIDE DEF G
      <3> QED BY <1>5, <2>2, Zenon DEF FoldsOver
    <2>4. f[1 .. k] = G[k][f[1 .. k - 1]]
      BY <2>2, <2>3, Zenon
    <2>5. t[k] = f[1 .. k] /\ t[k - 1] = f[1 .. k - 1] /\ t[k - 1] \in Nat
      BY <1>6, <2>1
    <2> HIDE DEF t, Step
    <2>6. G[k][t[k - 1]] = Step(k, t[k - 1])
      BY <2>5
    <2> QED BY <2>4, <2>5, <2>6
  <1> HIDE DEF t
  <1>9. \E g : g = [k \in 0 .. n |-> IF k = 0 THEN reserved ELSE Step(k, g[k - 1])]
    <2> HIDE DEF Step
    <2>1. \A k \in 0 .. n : t[k] = IF k = 0 THEN reserved ELSE Step(k, t[k - 1])
      BY <1>1, <1>7, <1>8
    <2>2. t = [k \in 0 .. n |-> IF k = 0 THEN reserved ELSE Step(k, t[k - 1])]
      BY <1>6, <2>1
    <2> QED BY <2>2, Zenon
  <1>10. sum = [k \in 0 .. n |-> IF k = 0 THEN reserved ELSE Step(k, sum[k - 1])]
    <2> HIDE DEF Step
    <2> QED BY <1>9, Zenon
  <1> HIDE DEF sum
  <1>11. sum[0] = reserved /\ \A k \in 1 .. n : sum[k] = Step(k, sum[k - 1])
    <2> HIDE DEF Step
    <2> QED BY <1>1, <1>10
  <1>12. \A k \in 0 .. n : sum[k] \in Nat
    <2> DEFINE P == [k \in 0 .. n |-> Nat]
    <2>1. sum[0] \in P[0]
      BY <1>11
    <2>2. ASSUME NEW k \in 1 .. n, sum[k - 1] \in P[k - 1] PROVE sum[k] \in P[k]
      <3>1. k \in 0 .. n /\ k - 1 \in 0 .. n
        BY <1>1
      <3>2. sum[k - 1] \in Nat /\ size(k) \in Nat
        BY <1>2, <2>2, <3>1
      <3>3. Step(k, sum[k - 1]) \in Nat
        BY <3>2
      <3> HIDE DEF Step
      <3> QED BY <1>11, <3>1, <3>3
    <2> HIDE DEF P
    <2>3. \A k \in 0 .. n : sum[k] \in P[k]
      BY <1>1, <2>1, <2>2, FoldKeeps
    <2> QED BY <2>3 DEF P
  <1>13. sum \in [0 .. n -> Nat]
    BY <1>10, <1>12
  <1> HIDE DEF V
  <1>14. ASSUME NEW k \in 1 .. n
         PROVE  IF Stays(size(k), o[k], act, excluded, sum[k - 1])
                THEN sum[k] = sum[k - 1] + size(k) /\ o[k] \notin V
                ELSE sum[k] = sum[k - 1] /\ o[k] \in V
    BY <1>1, <1>3, <1>11
  <1>15. KeptSums(sum, V, s, o, act, reserved, excluded)
    BY <1>11, <1>13, <1>14 DEF KeptSums, size
  <1> QED BY <1>15, Zenon DEF V

\* The size of a chunk that may be no chunk.
SizeOf(s, c) == IF c \in DOMAIN s.chunks THEN s.chunks[c].bufsize ELSE 0

\* The first k chunks of a list.
FirstOf(o, k) == {o[i] : i \in 1 .. k}

\* compact() keeps no more than the limit and the chunks it has to keep.
LEMMA KeptBounded ==
    ASSUME NEW s, NEW N, StoreOK(s, N), NEW l, NEW o, Orders(l, o), Visits(s, o),
           NEW act, NEW reserved \in Nat, NEW excluded, NEW V, NEW sum,
           KeptSums(sum, V, s, o, act, reserved, excluded),
           NEW limit \in Nat, reserved <= limit, MaxUnpacked <= limit
    PROVE  sum[Len(o)] <= limit + SizeOf(s, act) + SizeOf(s, excluded)
  <1> DEFINE n == Len(o)
             size(k) == s.chunks[o[k]].bufsize
             A(k) == IF act \in FirstOf(o, k) THEN SizeOf(s, act) ELSE 0
             E(k) == IF excluded \in FirstOf(o, k) THEN SizeOf(s, excluded) ELSE 0
             P == [k \in 0 .. n |-> {x \in Nat : x <= limit + A(k) + E(k)}]
  <1>1. /\ o \in Seq(Slots) /\ n \in Nat /\ DOMAIN o = 1 .. n /\ MaxUnpacked \in Nat
        /\ \A i \in 1 .. n, j \in 1 .. n : o[i] = o[j] => i = j
    BY SameAt, DataStorageAssumption DEF Orders
  <1>2. ASSUME NEW k \in 1 .. n PROVE size(k) \in Nat /\ size(k) = SizeOf(s, o[k])
    <2>1. o[k] \in DOMAIN s.chunks
      BY <1>1, RangeIs DEF Visits
    <2>2. s.chunks[o[k]] \in ChunkSet
      BY <2>1 DEF StoreOK, ChunkOK
    <2> QED BY <2>1, <2>2, ChunkParts DEF SizeOf
  <1>3. ASSUME NEW c PROVE SizeOf(s, c) \in Nat
    BY ChunkParts DEF SizeOf, StoreOK, ChunkOK
  <1>4. /\ sum[0] = reserved /\ \A k \in 0 .. n : sum[k] \in Nat
        /\ \A k \in 1 .. n :
              \/ sum[k] = sum[k - 1]
              \/ /\ sum[k] = sum[k - 1] + size(k)
                 /\ size(k) + sum[k - 1] < MaxUnpacked \/ o[k] = act \/ o[k] = excluded
    BY <1>1, Zenon DEF KeptSums, Stays
  <1> HIDE DEF size
  <1>5. ASSUME NEW k \in 0 .. n PROVE A(k) \in Nat /\ E(k) \in Nat
    BY <1>3
  <1>6. ASSUME NEW k \in 1 .. n
        PROVE  /\ A(k - 1) <= A(k) /\ E(k - 1) <= E(k)
               /\ o[k] = act => A(k - 1) = 0 /\ A(k) = size(k)
               /\ o[k] = excluded => E(k - 1) = 0 /\ E(k) = size(k)
    <2>1. FirstOf(o, k) = FirstOf(o, k - 1) \cup {o[k]}
      BY <1>1 DEF FirstOf
    <2>2. o[k] \notin FirstOf(o, k - 1)
      BY <1>1 DEF FirstOf
    <2>3. SizeOf(s, act) \in Nat /\ SizeOf(s, excluded) \in Nat
      BY <1>3
    <2> QED BY <1>2, <2>1, <2>2, <2>3
  <1> HIDE DEF A, E
  <1>7. sum[0] \in P[0]
    BY <1>1, <1>4, <1>5
  <1>8. ASSUME NEW k \in 1 .. n, sum[k - 1] \in P[k - 1] PROVE sum[k] \in P[k]
    <2>1. k \in 0 .. n /\ k - 1 \in 0 .. n
      BY <1>1
    <2> DEFINE x == sum[k - 1]
               z == size(k)
               a == A(k - 1)
               e == E(k - 1)
               a2 == A(k)
               e2 == E(k)
    <2>2. /\ x \in Nat /\ z \in Nat /\ a \in Nat /\ e \in Nat /\ a2 \in Nat /\ e2 \in Nat
          /\ x <= limit + a + e /\ a <= a2 /\ e <= e2
          /\ o[k] = act => a = 0 /\ a2 = z
          /\ o[k] = excluded => e = 0 /\ e2 = z
      BY <1>2, <1>4, <1>5, <1>6, <1>8, <2>1
    <2>3. \/ sum[k] = x
          \/ /\ sum[k] = x + z
             /\ z + x < MaxUnpacked \/ o[k] = act \/ o[k] = excluded
      BY <1>4
    <2> HIDE DEF P, x, z, a, e, a2, e2
    <2>4. sum[k] <= limit + a2 + e2 /\ sum[k] \in Nat
      <3>1. CASE sum[k] = x
        BY <2>2, <3>1
      <3>2. CASE sum[k] = x + z /\ z + x < MaxUnpacked
        BY <1>1, <2>2, <3>2
      <3>3. CASE sum[k] = x + z /\ o[k] = act
        BY <2>2, <3>3
      <3>4. CASE sum[k] = x + z /\ o[k] = excluded
        BY <2>2, <3>4
      <3> QED BY <2>3, <3>1, <3>2, <3>3, <3>4
    <2> QED BY <2>1, <2>4 DEF P, a2, e2
  <1> HIDE DEF P
  <1>9. \A k \in 0 .. n : sum[k] \in P[k]
    BY <1>1, <1>7, <1>8, FoldKeeps
  <1>10. n \in 0 .. n
    BY <1>1
  <1>11. sum[n] \in Nat /\ sum[n] <= limit + A(n) + E(n)
    BY <1>9, <1>10 DEF P
  <1>12. A(n) <= SizeOf(s, act) /\ E(n) <= SizeOf(s, excluded)
    BY <1>3 DEF A, E
  <1>13. SizeOf(s, act) \in Nat /\ SizeOf(s, excluded) \in Nat
    BY <1>3
  <1> QED BY <1>5, <1>10, <1>11, <1>12, <1>13

\* What is left unpacked when the chunks V are swapped.
LeftOf(s, V) == [c \in 1 .. Len(s.chunks) |-> IF c \in V THEN 0 ELSE s.chunks[c].bufsize]
LeftTo(s, V, D) == [c \in 1 .. Len(s.chunks) |-> IF c \in D THEN LeftOf(s, V)[c] ELSE 0]

\* One chunk more.
LEMMA OneMore ==
    ASSUME NEW a, NEW b, NEW n, NEW j, SameBut(a, b, n, j),
           NEW t, Adds(t, a, n), NEW u, Adds(u, b, n)
    PROVE  b[j] = 0 => t = u + a[j]
  <1>1. t + b[j] = u + a[j]
    BY SumChanges
  <1>2. t \in Nat /\ u \in Nat /\ a[j] \in Nat
    BY SumIsNat DEF SameBut
  <1> QED BY <1>1, <1>2

\* The sum that compact() makes is that of the chunks it keeps.
LEMMA KeptTotal ==
    ASSUME NEW s, NEW N, StoreOK(s, N), SizesFit(s), NEW l, NEW o, Orders(l, o),
           Visits(s, o), NEW act, NEW reserved \in Nat, NEW excluded, NEW V, NEW sum,
           KeptSums(sum, V, s, o, act, reserved, excluded),
           NEW total, Adds(total, LeftOf(s, V), Len(s.chunks))
    PROVE  total + reserved = sum[Len(o)]
  <1> DEFINE n == Len(o)
             m == Len(s.chunks)
             w == LeftOf(s, V)
             W(k) == LeftTo(s, V, FirstOf(o, k))
             P == [k \in 0 .. n |-> {x \in Nat : \A t : Adds(t, W(k), m) => t + reserved = x}]
  <1>1. /\ o \in Seq(Slots) /\ n \in Nat /\ DOMAIN o = 1 .. n
        /\ \A i \in 1 .. n, j \in 1 .. n : o[i] = o[j] => i = j
    BY SameAt DEF Orders
  <1>2. /\ m \in Nat /\ DOMAIN s.chunks = 1 .. m
        /\ \A c \in 1 .. m : s.chunks[c] \in ChunkSet
    BY SizesAreNat DEF StoreOK
  <1>3. \A c \in 1 .. m : w[c] \in Nat /\ w[c] = IF c \in V THEN 0 ELSE s.chunks[c].bufsize
    BY <1>2, ChunkParts DEF LeftOf
  <1>4. w \in [1 .. m -> Nat]
    BY <1>3 DEF LeftOf
  <1>5. ASSUME NEW k \in 1 .. n
        PROVE  o[k] \in 1 .. m /\ o[k] \in Slots
    BY <1>1, <1>2, RangeIs DEF Visits
  <1>6. /\ sum[0] = reserved /\ \A k \in 0 .. n : sum[k] \in Nat
        /\ \A k \in 1 .. n : sum[k] = sum[k - 1] + w[o[k]]
    <2>1. /\ sum[0] = reserved /\ sum \in [0 .. n -> Nat]
      BY DEF KeptSums
    <2>2. ASSUME NEW k \in 1 .. n PROVE sum[k] = sum[k - 1] + w[o[k]]
      <3>1. /\ k - 1 \in 0 .. n /\ sum[k - 1] \in Nat
        BY <1>1, <2>1
      <3>2. IF o[k] \in V THEN sum[k] = sum[k - 1]
            ELSE sum[k] = sum[k - 1] + s.chunks[o[k]].bufsize
        BY <1>1, Zenon DEF KeptSums
      <3>3. w[o[k]] = IF o[k] \in V THEN 0 ELSE s.chunks[o[k]].bufsize
        BY <1>3, <1>5
      <3> HIDE DEF w
      <3> QED BY <3>1, <3>2, <3>3
    <2> QED BY <2>1, <2>2
  <1> HIDE DEF w, m
  <1>7. ASSUME NEW k \in 0 .. n
        PROVE  /\ W(k) \in [1 .. m -> Nat]
               /\ \A c \in 1 .. m : W(k)[c] = IF c \in FirstOf(o, k) THEN w[c] ELSE 0
    BY <1>3 DEF LeftTo, w, m
  <1> HIDE DEF W
  <1>8. sum[0] \in P[0]
    <2>1. 0 \in 0 .. n /\ FirstOf(o, 0) = {}
      BY <1>1 DEF FirstOf
    <2>2. \A c \in 1 .. m : W(0)[c] = 0
      BY <1>7, <2>1
    <2>3. ASSUME NEW t, Adds(t, W(0), m) PROVE t + reserved = sum[0]
      <3>1. t = 0
        BY <1>2, <1>7, <2>1, <2>2, <2>3, SumOfNothing
      <3> QED BY <1>6, <3>1
    <2> QED BY <1>6, <2>1, <2>3
  <1>9. ASSUME NEW k \in 1 .. n, sum[k - 1] \in P[k - 1] PROVE sum[k] \in P[k]
    <2>1. k \in 0 .. n /\ k - 1 \in 0 .. n
      BY <1>1
    <2> DEFINE j == o[k]
               a == W(k)
               b == W(k - 1)
    <2>2. /\ FirstOf(o, k) = FirstOf(o, k - 1) \cup {j} /\ j \notin FirstOf(o, k - 1)
          /\ j \in 1 .. m
      BY <1>1, <1>5 DEF FirstOf
    <2>3. a \in [1 .. m -> Nat] /\ b \in [1 .. m -> Nat]
      BY <1>7, <2>1
    <2>4. /\ a[j] = w[j] /\ b[j] = 0
          /\ \A c \in 1 .. m : c # j => a[c] = b[c]
      BY <1>7, <2>1, <2>2
    <2> HIDE DEF a, b, j
    <2>5. PICK u : Adds(u, b, m)
      BY <1>2, <2>3, SumExists
    <2>6. u \in Nat /\ w[j] \in Nat /\ sum[k - 1] \in Nat /\ sum[k] \in Nat
      BY <1>2, <1>3, <1>6, <2>1, <2>2, <2>3, <2>5, SumIsNat
    <2>7. u + reserved = sum[k - 1]
      BY <1>9, <2>1, <2>5 DEF b
    <2>8. ASSUME NEW t, Adds(t, a, m) PROVE t + reserved = sum[k]
      <3>1. SameBut(a, b, m, j)
        BY <1>2, <2>2, <2>3, <2>4 DEF SameBut
      <3>2. t \in Nat
        BY <1>2, <2>3, <2>8, SumIsNat
      <3>5. \A x, y : Adds(x, a, m) /\ Adds(y, b, m) => x = y + a[j]
        BY <2>4, <3>1, OneMore, Zenon
      <3>6. t = u + a[j]
        BY <2>5, <2>8, <3>5, Zenon
      <3>3. t = u + w[j]
        BY <2>4, <3>6
      <3>4. sum[k] = sum[k - 1] + w[j]
        BY <1>6 DEF j
      <3> QED BY <2>6, <2>7, <3>2, <3>3, <3>4
    <2> QED BY <2>1, <2>6, <2>8 DEF a
  <1> HIDE DEF P
  <1>10. \A k \in 0 .. n : sum[k] \in P[k]
    BY <1>1, <1>8, <1>9, FoldKeeps
  <1>11. n \in 0 .. n
    BY <1>1
  <1>12. W(n) = w
    <2>1. ASSUME NEW c \in 1 .. m PROVE W(n)[c] = w[c]
      <3>1. CASE c \in FirstOf(o, n)
        BY <1>7, <1>11, <3>1
      <3>2. CASE c \notin FirstOf(o, n)
        <4>1. c \notin Range(o)
          BY <1>1, <3>2, RangeIs DEF FirstOf
        <4>2. s.chunks[c].buf = Gone
          BY <1>2, <4>1 DEF Visits, InMemory, m
        <4>3. s.chunks[c].bufsize = 0
          BY <1>2, <4>2 DEF SizesFit, FitOK, m
        <4> QED BY <1>3, <1>7, <1>11, <3>2, <4>3 DEF m
      <3> QED BY <3>1, <3>2
    <2> DEFINE x == W(n)
    <2>2. x \in [1 .. m -> Nat] /\ \A c \in 1 .. m : x[c] = w[c]
      BY <1>7, <1>11, <2>1
    <2> HIDE DEF x
    <2>3. x = [c \in 1 .. m |-> x[c]] /\ w = [c \in 1 .. m |-> w[c]]
      BY <1>4, <2>2, Zenon
    <2>4. [c \in 1 .. m |-> x[c]] = [c \in 1 .. m |-> w[c]]
      BY <2>2, Zenon
    <2>5. x = w
      BY <2>3, <2>4, Zenon
    <2> QED BY <2>5 DEF x
  <1>13. Adds(total, W(n), m)
    BY <1>12 DEF w, m
  <1> QED BY <1>10, <1>11, <1>13 DEF P

Limit == MaxUnpacked + MaxUnpacked \div 10

LEMMA LimitIs == Limit \in Nat /\ MaxUnpacked \in Nat /\ MaxUnpacked <= Limit
  BY DataStorageAssumption DEF Limit

\* The store u is what compact() leaves of s.
Compacted(u, s, l, act, excluded) ==
    /\ u.chunks \in Seq(ChunkSet) /\ SizesFit(u) /\ Listed(u, l)
    /\ act \in DOMAIN s.chunks /\ InMemory(s, act) => InMemory(u, act)
    /\ CacheOpens = {TRUE} =>
           Unpackeds(u) <= Limit + SizeOf(s, act) + SizeOf(s, excluded)

\* compact() leaves no more than the limit, the 10% and the chunks it has to keep.
LEMMA AfterCompact ==
    ASSUME NEW s, NEW N, StoreOK(s, N), SizesFit(s), NEW l, Listed(s, l), NEW act,
           NEW reserved \in Nat, NEW excluded, cache \in BOOLEAN,
           NEW r \in Compact(s, l, act, reserved, excluded)
    PROVE  Compacted(r.store, s, l, act, excluded)
  <1> DEFINE V == Excess(s, l, act, reserved, excluded)
             m == Len(s.chunks)
             A == DOMAIN s.chunks
  <1>1. PICK open \in IF cache \/ V = {} THEN {cache} ELSE CacheOpens :
            r = [store |-> IF open THEN SwapOut(s, V) ELSE s, cache |-> open]
    BY DEF Compact
  <1> HIDE DEF V
  <1>2. r.store = IF open THEN SwapOut(s, V) ELSE s
    BY <1>1
  <1>3. PICK o : Orders(l, o) /\ Visits(s, o)
    BY Zenon DEF Listed
  <1>4. PICK sum : KeptSums(sum, Victims(s, o, act, reserved, excluded), s, o, act,
                            reserved, excluded)
    BY <1>3, VictimSums, Zenon
  <1>5. /\ s.chunks \in Seq(ChunkSet) /\ m \in Nat /\ A = 1 .. m
        /\ \A c \in 1 .. m : s.chunks[c] \in ChunkSet
    BY SizesAreNat DEF StoreOK
  <1>6. StoreHolds(s, <<>>, A)
    BY DEF StoreHolds
  <1>7. /\ StoreOK(SwapOut(s, V), N) /\ Len(SwapOut(s, V).chunks) = m
        /\ \A c \in A : s.chunks[c].buf = Gone => SwapOut(s, V).chunks[c] = s.chunks[c]
        /\ \A c \in A \ V : SwapOut(s, V).chunks[c].buf = s.chunks[c].buf
    <2> HIDE DEF A
    <2> QED BY <1>6, SwapOutOK DEF A
  <1>8. /\ SizesFit(SwapOut(s, V))
        /\ \A c \in A : SwapOut(s, V).chunks[c].bufsize
                        = IF c \in V THEN 0 ELSE s.chunks[c].bufsize
    BY SwapFits
  <1>9. /\ r.store.chunks \in Seq(ChunkSet) /\ Len(r.store.chunks) = m
        /\ DOMAIN r.store.chunks = 1 .. m /\ SizesFit(r.store)
        /\ \A c \in 1 .. m : s.chunks[c].buf = Gone => r.store.chunks[c] = s.chunks[c]
        /\ \A c \in (1 .. m) \ V : r.store.chunks[c].buf = s.chunks[c].buf
    BY <1>2, <1>5, <1>7, <1>8 DEF StoreOK
  <1>10. Listed(r.store, l)
    <2>1. Visits(r.store, o)
      BY <1>3, <1>5, <1>9 DEF Visits, InMemory
    <2> QED BY <1>3, <2>1, Zenon DEF Listed
  <1>11. act \notin V
    BY Zenon DEF V, Excess, Victims, Stays
  <1>12. act \in A /\ InMemory(s, act) => InMemory(r.store, act)
    BY <1>5, <1>9, <1>11 DEF InMemory
  <1>13. ASSUME CacheOpens = {TRUE}
         PROVE  Unpackeds(r.store) <= Limit + SizeOf(s, act) + SizeOf(s, excluded)
    <2>1. SizeOf(s, act) \in Nat /\ SizeOf(s, excluded) \in Nat
      BY <1>5, ChunkParts DEF SizeOf
    <2>2. Unpackeds(r.store) \in Nat /\ Unpackeds(s) \in Nat
      BY <1>5, <1>9, UnpackedsIsNat
    <2>3. CASE Unpackeds(s) + reserved <= Limit
      <3>1. V = {}
        <4>1. ~ (Unpackeds(s) + reserved > Limit)
          BY <2>2, <2>3, LimitIs
        <4> QED BY <4>1, Zenon DEF V, Excess, Limit
      <3>2. \A c \in 1 .. m : r.store.chunks[c].bufsize = s.chunks[c].bufsize
        BY <1>2, <1>5, <1>8, <3>1
      <3>3. Unpackeds(r.store) = Unpackeds(s)
        BY <1>5, <1>9, <3>2, SameSizes
      <3> QED BY <2>1, <2>2, <2>3, <3>3, LimitIs
    <2>4. CASE ~ (Unpackeds(s) + reserved <= Limit)
      <3>1. V = Victims(s, o, act, reserved, excluded)
        <4>1. Unpackeds(s) + reserved > Limit
          BY <2>2, <2>4, LimitIs
        <4>2. Order(l) = o
          BY <1>3, OrderIs
        <4> QED BY <4>1, <4>2, Zenon DEF V, Excess, Limit
      <3>2. \A c \in 1 .. m : r.store.chunks[c].bufsize
                              = IF c \in V THEN 0 ELSE s.chunks[c].bufsize
        <4>1. CASE open
          BY <1>2, <1>5, <1>8, <4>1
        <4>2. CASE ~ open
          <5>1. V = {}
            BY <1>1, <1>13, <4>2
          <5> QED BY <1>2, <4>2, <5>1
        <4> QED BY <4>1, <4>2
      <3>3. SizesOf(r.store) = LeftOf(s, V)
        BY <1>9, <3>2 DEF SizesOf, LeftOf
      <3>4. Adds(Unpackeds(r.store), LeftOf(s, V), m)
        BY <1>9, <3>3, UnpackedsAdds
      <3>5. Unpackeds(r.store) + reserved = sum[Len(o)]
        BY <1>3, <1>4, <3>1, <3>4, KeptTotal
      <3>6. CASE reserved <= MaxUnpacked
        <4>1. sum[Len(o)] <= MaxUnpacked + SizeOf(s, act) + SizeOf(s, excluded)
          BY <1>3, <1>4, <3>6, KeptBounded, LimitIs
        <4> QED BY <2>1, <2>2, <3>5, <4>1, LimitIs
      <3>7. CASE ~ (reserved <= MaxUnpacked)
        <4>1. sum[Len(o)] <= reserved + SizeOf(s, act) + SizeOf(s, excluded)
          BY <1>3, <1>4, <3>7, KeptBounded, LimitIs
        <4> QED BY <2>1, <2>2, <3>5, <4>1, LimitIs
      <3> QED BY <3>6, <3>7
    <2> QED BY <2>3, <2>4
  <1> QED BY <1>9, <1>10, <1>12, <1>13, Zenon DEF Compacted

-----------------------------------------------------------------------------
(* What the chunks take, step by step. *)

Allowed == Limit + (IF Raw THEN LargestChunk ELSE LargestChunk + LargestChunk)

Bounded(s) == CacheOpens = {TRUE} => Unpackeds(s) <= Allowed

SavedFits(f, S) == \A c \in DOMAIN S : Len(f[c]) <= LargestChunk /\ Len(f[c]) <= S[c]

\* compact() finds all that is in memory, no chunk is larger than a chunk can
\* be, and only the nodes' storage has an active chunk, which is in memory.
MemInv == /\ SizesFit(store) /\ Listed(store, lru) /\ Bounded(store)
          /\ active # 0 => ~ Raw /\ InMemory(store, active)
          /\ clean => SavedFits(store.file, saved)

LEMMA AllowedIs ==
    /\ Allowed \in Nat /\ Limit \in Nat /\ LargestChunk \in Nat
    /\ Limit <= Allowed /\ Limit + LargestChunk <= Allowed
    /\ ~ Raw => Limit + LargestChunk + LargestChunk <= Allowed
    /\ Allowed = MaxUnpacked + MaxUnpacked \div 10 + (IF Raw THEN 1 ELSE 2) * LargestChunk
  <1>1. Limit \in Nat /\ LargestChunk \in Nat
    BY LimitIs, LargestIs
  <1>2. 1 * LargestChunk = LargestChunk /\ 2 * LargestChunk = LargestChunk + LargestChunk
    BY <1>1
  <1> DEFINE x == LargestChunk
             y == Limit
  <1>3. CASE Raw
    <2>1. Allowed = y + x /\ x \in Nat /\ y \in Nat
      BY <1>1, <1>3 DEF Allowed
    <2> HIDE DEF x, y
    <2>2. Allowed \in Nat /\ y <= Allowed /\ y + x <= Allowed
      BY <2>1
    <2> QED BY <1>1, <1>2, <1>3, <2>1, <2>2 DEF x, y, Limit
  <1>4. CASE ~ Raw
    <2>1. Allowed = y + (x + x) /\ x \in Nat /\ y \in Nat
      BY <1>1, <1>4 DEF Allowed
    <2> HIDE DEF x, y
    <2>2. Allowed \in Nat /\ y <= Allowed /\ y + x <= Allowed /\ y + x + x <= Allowed
      BY <2>1
    <2> QED BY <1>1, <1>2, <1>4, <2>1, <2>2 DEF x, y, Limit
  <1> QED BY <1>3, <1>4

\* A chunk c comes to the front of the list, in memory or not.
LEMMA ListedFront ==
    ASSUME NEW s, NEW l, Listed(s, l), NEW c \in Slots, NEW u, c \in DOMAIN u.chunks,
           DOMAIN s.chunks \subseteq DOMAIN u.chunks,
           \A d \in DOMAIN u.chunks :
               d # c /\ InMemory(u, d) => d \in DOMAIN s.chunks /\ InMemory(s, d)
    PROVE  Listed(u, ToFront(l, c))
  <1>1. PICK o : Orders(l, o) /\ Visits(s, o)
    BY Zenon DEF Listed
  <1>2. PICK q : Orders(ToFront(l, c), q) /\ Range(q) = Range(o) \cup {c}
    BY <1>1, ToFrontOrders
  <1>3. Visits(u, q)
    BY <1>1, <1>2 DEF Visits
  <1> QED BY <1>2, <1>3, Zenon DEF Listed

LEMMA ListedSame ==
    ASSUME NEW s, NEW l, Listed(s, l), NEW u, DOMAIN u.chunks = DOMAIN s.chunks,
           \A d \in DOMAIN u.chunks : InMemory(u, d) => InMemory(s, d)
    PROVE  Listed(u, l)
  <1>1. PICK o : Orders(l, o) /\ Visits(s, o)
    BY Zenon DEF Listed
  <1>2. Visits(u, o)
    BY <1>1 DEF Visits
  <1> QED BY <1>1, <1>2, Zenon DEF Listed

\* One chunk is replaced.
LEMMA WithFits ==
    ASSUME NEW s, SizesFit(s), NEW c \in DOMAIN s.chunks, NEW ch, FitOK(ch, s.file[c])
    PROVE  SizesFit(WithChunk(s, c, ch))
  BY DEF SizesFit, WithChunk

\* It is replaced by one that is as large, and in memory if it was.
LEMMA SameWith ==
    ASSUME NEW s, s.chunks \in Seq(ChunkSet), NEW c \in DOMAIN s.chunks,
           NEW ch \in ChunkSet, ch.bufsize = s.chunks[c].bufsize
    PROVE  Unpackeds(WithChunk(s, c, ch)) = Unpackeds(s)
  <1> DEFINE u == WithChunk(s, c, ch)
             n == Len(s.chunks)
  <1>1. /\ u.chunks \in Seq(ChunkSet) /\ Len(u.chunks) = n /\ DOMAIN s.chunks = 1 .. n
        /\ u.chunks[c] = ch /\ \A d \in 1 .. n : d # c => u.chunks[d] = s.chunks[d]
    BY DEF WithChunk
  <1>2. \A d \in 1 .. n : u.chunks[d].bufsize = s.chunks[d].bufsize
    BY <1>1
  <1> HIDE DEF u
  <1>3. Unpackeds(u) = Unpackeds(s)
    BY <1>1, <1>2, SameSizes
  <1> QED BY <1>3 DEF u

\* An empty chunk gets a buffer of n cells.
LEMMA MoreWith ==
    ASSUME NEW s, s.chunks \in Seq(ChunkSet), NEW c \in DOMAIN s.chunks,
           s.chunks[c].bufsize = 0, NEW ch \in ChunkSet
    PROVE  Unpackeds(WithChunk(s, c, ch)) = Unpackeds(s) + ch.bufsize
  <1> DEFINE u == WithChunk(s, c, ch)
             n == Len(s.chunks)
             a == SizesOf(u)
             b == SizesOf(s)
  <1>1. /\ u.chunks \in Seq(ChunkSet) /\ Len(u.chunks) = n /\ DOMAIN s.chunks = 1 .. n
        /\ u.chunks[c] = ch /\ \A d \in 1 .. n : d # c => u.chunks[d] = s.chunks[d]
        /\ n \in Nat /\ c \in 1 .. n
    BY DEF WithChunk
  <1> HIDE DEF u
  <1>2. a \in [1 .. n -> Nat] /\ b \in [1 .. n -> Nat]
    BY <1>1, SizesAreNat
  <1>3. \A d \in 1 .. n : d # c => a[d] = b[d]
    BY <1>1 DEF SizesOf
  <1>4. a[c] = ch.bufsize /\ b[c] = 0
    BY <1>1 DEF SizesOf
  <1>5. Adds(Unpackeds(u), a, n) /\ Adds(Unpackeds(s), b, n)
    BY <1>1, UnpackedsAdds
  <1> HIDE DEF a, b
  <1>6. SameBut(a, b, n, c)
    BY <1>1, <1>2, <1>3 DEF SameBut
  <1>7. Unpackeds(u) = Unpackeds(s) + a[c]
    BY <1>4, <1>5, <1>6, OneMore
  <1> QED BY <1>4, <1>7 DEF u

\* After compact(), with at most an active chunk and one excluded.
LEMMA CompactMem ==
    ASSUME NEW s, NEW N, StoreOK(s, N), SizesFit(s), NEW l, Listed(s, l),
           NEW act, act # 0 => ~ Raw /\ act \in DOMAIN s.chunks /\ InMemory(s, act),
           NEW reserved \in Nat, NEW excluded, cache \in BOOLEAN,
           NEW r \in Compact(s, l, act, reserved, excluded)
    PROVE  /\ SizesFit(r.store) /\ Listed(r.store, l) /\ Bounded(r.store)
           /\ act # 0 => InMemory(r.store, act)
  <1>1. /\ SizesFit(r.store) /\ Listed(r.store, l)
        /\ act \in DOMAIN s.chunks /\ InMemory(s, act) => InMemory(r.store, act)
        /\ CacheOpens = {TRUE} =>
               Unpackeds(r.store) <= Limit + SizeOf(s, act) + SizeOf(s, excluded)
        /\ r.store.chunks \in Seq(ChunkSet)
    <2>1. Compacted(r.store, s, l, act, excluded)
      BY AfterCompact
    <2> QED BY <2>1 DEF Compacted
  <1>2. ASSUME NEW c
        PROVE  SizeOf(s, c) \in Nat /\ SizeOf(s, c) <= LargestChunk
    <2>1. CASE c \in DOMAIN s.chunks
      <3>1. s.chunks[c] \in ChunkSet /\ FitOK(s.chunks[c], s.file[c])
        BY <2>1 DEF StoreOK, SizesFit, ChunkOK
      <3> QED BY <2>1, <3>1, ChunkParts DEF SizeOf, FitOK
    <2>2. CASE c \notin DOMAIN s.chunks
      BY <2>2, LargestIs DEF SizeOf
    <2> QED BY <2>1, <2>2
  <1>3. act = 0 => SizeOf(s, act) = 0
    <2>1. 0 \notin DOMAIN s.chunks
      <3>1. Len(s.chunks) \in Nat /\ DOMAIN s.chunks = 1 .. Len(s.chunks)
        BY SizesAreNat DEF StoreOK
      <3> QED BY <3>1
    <2> QED BY <2>1 DEF SizeOf
  <1>4. Bounded(r.store)
    <2> SUFFICES ASSUME CacheOpens = {TRUE} PROVE Unpackeds(r.store) <= Allowed
      BY DEF Bounded
    <2> DEFINE a == SizeOf(s, act)
               e == SizeOf(s, excluded)
               x == Unpackeds(r.store)
    <2>1. /\ x <= Limit + a + e /\ a \in Nat /\ e \in Nat
          /\ a <= LargestChunk /\ e <= LargestChunk
          /\ Raw => a = 0
      BY <1>1, <1>2, <1>3
    <2>2. x \in Nat
      BY <1>1, UnpackedsIsNat
    <2> HIDE DEF a, e, x
    <2>3. x <= Allowed
      BY <2>1, <2>2, AllowedIs
    <2> QED BY <2>3 DEF x
  <1> QED BY <1>1, <1>4

\* The index still fits the file, unless a chunk was written to it.
LEMMA NoteFits ==
    ASSUME MemInv, NoteWrites, saved' = saved
    PROVE  clean' => SavedFits(store'.file, saved')
  BY DEF MemInv, NoteWrites

LEMMA InitMem == Init => MemInv
  <1> SUFFICES ASSUME Init PROVE MemInv
    OBVIOUS
  <1>1. /\ store.chunks = <<>> /\ lru = NoList /\ active = 0 /\ ~ clean
    BY DEF Init
  <1>2. DOMAIN store.chunks = {} /\ store.chunks \in Seq(ChunkSet) /\ Len(store.chunks) = 0
    BY <1>1
  <1>3. SizesFit(store)
    BY <1>2 DEF SizesFit
  <1>4. Visits(store, <<>>)
    BY <1>2, EmptyRange DEF Visits
  <1>5. Listed(store, lru)
    BY <1>1, <1>4, NoListOrders, Zenon DEF Listed
  <1>6. Unpackeds(store) = 0
    BY <1>2, SizesAreNat, UnpackedsAdds, SumOfNothing
  <1>7. Bounded(store)
    <2>1. 0 <= Allowed
      BY AllowedIs
    <2> QED BY <1>6, <2>1 DEF Bounded
  <1> QED BY <1>1, <1>3, <1>5, <1>7 DEF MemInv

\* getChunk.
LEMMA TouchMem ==
    ASSUME IInv, MemInv, NEW c \in Chunks, NEW r \in Touch(store, c)
    PROVE  /\ SizesFit(r.store) /\ Listed(r.store, ToFront(lru, c)) /\ Bounded(r.store)
           /\ active # 0 => InMemory(r.store, active)
  <1>1. /\ StoreOK(store, {}) /\ SizesFit(store) /\ Listed(store, lru) /\ Bounded(store)
        /\ active # 0 => ~ Raw /\ InMemory(store, active)
        /\ c \in Slots /\ c \in DOMAIN store.chunks /\ cache \in BOOLEAN
        /\ active \in {0} \cup DOMAIN store.chunks
    BY ChunksAreSlots DEF IInv, DataOK, MemInv, Chunks
  <1>2. CASE ~ InMemory(store, c) /\ store.chunks[c].saved
    <2> DEFINE f == store.file[c]
               pos == store.chunks[c].bufpos
               ch == Chunk(f, Len(f), pos, TRUE)
               u == Restored(store, c)
    <2>1. /\ f \in Seq(Values) /\ pos \in Nat /\ Len(f) <= LargestChunk /\ Len(f) <= pos
      BY <1>1, <1>2, ChunkParts DEF StoreOK, ChunkOK, SizesFit, FitOK
    <2>2. u = WithChunk(store, c, ch)
      BY DEF Restored
    <2>3. /\ ch.buf = f /\ ch.bufsize = Len(f) /\ ch.bufpos = pos /\ ch.saved
          /\ ch \in ChunkSet
      <3> HIDE DEF f, pos
      <3>1. Len(f) \in Nat
        BY <2>1
      <3> QED BY <2>1, <3>1 DEF Chunk, ChunkSet
    <2> HIDE DEF ch, pos
    <2>4. FitOK(ch, f) /\ ChunkOK(ch, f) /\ ch.buf # Gone
      <3>1. Len(f) <= Len(f) /\ f # Gone
        BY <2>1, DataStorageAssumption
      <3> HIDE DEF f
      <3> QED BY <2>1, <2>3, <3>1 DEF FitOK, ChunkOK
    <2>5. SizesFit(u) /\ StoreOK(u, {})
      BY <1>1, <2>2, <2>4, WithFits, SetOK
    <2>6. /\ DOMAIN u.chunks = DOMAIN store.chunks
          /\ \A d \in DOMAIN u.chunks : d # c => u.chunks[d] = store.chunks[d]
      BY <2>2 DEF WithChunk
    <2>7. Listed(u, ToFront(lru, c))
      <3> HIDE DEF u
      <3>1. \A d \in DOMAIN u.chunks :
                d # c /\ InMemory(u, d) => d \in DOMAIN store.chunks /\ InMemory(store, d)
        BY <2>6 DEF InMemory
      <3> QED BY <1>1, <2>6, <3>1, ListedFront
    <2>8. active # 0 => ~ Raw /\ active \in DOMAIN u.chunks /\ InMemory(u, active)
      BY <1>1, <1>2, <2>6 DEF InMemory
    <2>9. r \in Compact(u, ToFront(lru, c), active, 0, c) /\ 0 \in Nat
      BY <1>2 DEF Touch
    <2> HIDE DEF u
    <2> QED BY <1>1, <2>5, <2>7, <2>8, <2>9, CompactMem
  <1>3. CASE ~ (~ InMemory(store, c) /\ store.chunks[c].saved)
    <2>1. r.store = store
      BY <1>3 DEF Touch
    <2>2. InMemory(store, c)
      BY <1>1, <1>3 DEF StoreOK, InMemory
    <2>3. Listed(store, ToFront(lru, c))
      BY <1>1, ListedFront
    <2> QED BY <1>1, <2>1, <2>3
  <1> QED BY <1>2, <1>3

LEMMA TouchedLength ==
    ASSUME IInv, NEW c \in Chunks, NEW r \in Touch(store, c)
    PROVE  DOMAIN r.store.chunks = Chunks
  <1>1. /\ StoreOK(store, {}) /\ StoreHolds(store, truth, appended) /\ cache \in BOOLEAN
        /\ c \in DOMAIN store.chunks
    BY DEF IInv, DataOK, Chunks
  <1>2. StoreOK(r.store, {}) /\ Len(r.store.chunks) = Len(store.chunks)
    BY <1>1, TouchOK
  <1> QED BY <1>1, <1>2 DEF StoreOK, Chunks

LEMMA GetMem ==
    ASSUME IInv, MemInv, NEW c \in Chunks, Get(c)
    PROVE  MemInv'
  <1>1. PICK r \in Touch(store, c) : store' = r.store
    BY DEF Get
  <1>2. /\ SizesFit(r.store) /\ Listed(r.store, ToFront(lru, c)) /\ Bounded(r.store)
        /\ active # 0 => InMemory(r.store, active)
    BY TouchMem
  <1>3. lru' = ToFront(lru, c) /\ NoteWrites /\ active' = active /\ saved' = saved
    BY DEF Get, saving
  <1>4. clean' => SavedFits(store'.file, saved')
    BY <1>3, NoteFits
  <1>5. active' # 0 => ~ Raw /\ InMemory(store', active')
    BY <1>1, <1>2, <1>3 DEF MemInv
  <1> QED BY <1>1, <1>2, <1>3, <1>4, <1>5 DEF MemInv, Bounded

LEMMA UpdateMem ==
    ASSUME IInv, MemInv, NEW c \in Chunks, NEW v \in Values, NEW i \in DOMAIN truth[c],
           Update(c, i, v)
    PROVE  MemInv'
  <1>1. PICK r \in Touch(store, c) :
            /\ i \in DOMAIN r.store.chunks[c].buf
            /\ store' = IF r.store.chunks[c].buf[i] = v THEN r.store
                        ELSE WithChunk(r.store, c, Modified(r.store.chunks[c], i, v))
    BY DEF Update
  <1> DEFINE s == r.store
             ch == s.chunks[c]
             new == Modified(ch, i, v)
  <1>2. /\ SizesFit(s) /\ Listed(s, ToFront(lru, c)) /\ Bounded(s)
        /\ active # 0 => InMemory(s, active)
    BY TouchMem
  <1>3. InMemory(s, c) /\ StoreOK(s, {}) /\ c \in DOMAIN s.chunks
    BY TouchedStays
  <1>4. /\ ch \in ChunkSet /\ ch.buf # Gone /\ i \in DOMAIN ch.buf
        /\ s.chunks \in Seq(ChunkSet) /\ FitOK(ch, s.file[c])
    BY <1>1, <1>2, <1>3 DEF StoreOK, ChunkOK, InMemory, SizesFit
  <1>5. /\ new \in ChunkSet /\ ~ new.saved /\ new.buf = [ch.buf EXCEPT ![i] = v]
        /\ new.buf # Gone /\ new.bufpos = ch.bufpos
    BY <1>4, ModifiedOK
  <1>6. new.bufsize = ch.bufsize
    BY DEF Modified, Chunk
  <1>7. FitOK(new, s.file[c])
    <2> HIDE DEF new, ch
    <2>1. ch.buf \in Seq(Values)
      BY <1>4, ChunkParts
    <2>2. Len(new.buf) = Len(ch.buf)
      BY <1>5, <2>1
    <2> QED BY <1>4, <1>5, <1>6, <2>2 DEF FitOK
  <1> HIDE DEF new
  <1> DEFINE u == WithChunk(s, c, new)
  <1>8. SizesFit(u) /\ Unpackeds(u) = Unpackeds(s)
    BY <1>2, <1>3, <1>4, <1>5, <1>6, <1>7, WithFits, SameWith
  <1>9. /\ DOMAIN u.chunks = DOMAIN s.chunks /\ u.chunks[c] = new
        /\ \A d \in DOMAIN s.chunks : d # c => u.chunks[d] = s.chunks[d]
    BY <1>3 DEF WithChunk
  <1>10. /\ Listed(u, ToFront(lru, c))
         /\ active # 0 => InMemory(u, active)
    <2> HIDE DEF u
    <2>1. \A d \in DOMAIN u.chunks : InMemory(u, d) => InMemory(s, d)
      BY <1>3, <1>9 DEF InMemory
    <2>2. Listed(u, ToFront(lru, c))
      BY <1>2, <1>9, <2>1, ListedSame
    <2>3. active # 0 => active \in DOMAIN s.chunks
      BY TouchedLength DEF IInv
    <2> QED BY <1>2, <1>5, <1>9, <2>2, <2>3 DEF InMemory
  <1>11. store' = s \/ store' = u
    BY <1>1 DEF new
  <1>12. /\ SizesFit(store') /\ Listed(store', ToFront(lru, c)) /\ Bounded(store')
         /\ active # 0 => InMemory(store', active)
    <2> HIDE DEF u
    <2> QED BY <1>2, <1>8, <1>10, <1>11 DEF Bounded
  <1>13. lru' = ToFront(lru, c) /\ NoteWrites /\ active' = active /\ saved' = saved
    BY DEF Update, saving
  <1>14. clean' => SavedFits(store'.file, saved')
    BY <1>13, NoteFits
  <1>15. active' # 0 => ~ Raw /\ InMemory(store', active')
    BY <1>12, <1>13 DEF MemInv
  <1> QED BY <1>12, <1>13, <1>14, <1>15 DEF MemInv, Bounded

\* addText and addElem keep within the buffer that is there, and make one that is
\* as long as it says.
LEMMA AddedFits ==
    ASSUME NEW ch \in ChunkSet, NEW f, FitOK(ch, f), NEW n \in Sizes, NEW v \in Values,
           Room(ch, n)
    PROVE  LET new == Added(ch, n, v) IN
           /\ ch.buf # Gone => FitOK(new, f) /\ new.bufsize = ch.bufsize
           /\ ch.buf = Gone /\ ~ ch.saved => FitOK(new, f) /\ new.bufsize = LongEnough(n)
  <1> DEFINE new == Added(ch, n, v)
  <1>1. /\ n \in Nat /\ LongEnough(n) \in Nat /\ n <= LongEnough(n)
        /\ LongEnough(n) <= LargestChunk /\ LargestChunk \in Nat
    BY LargestIs
  <1>2. /\ Node(n, v) \in Seq(Values) /\ Len(Node(n, v)) = n
        /\ new.saved = ch.saved /\ new.buf # Gone
        /\ ch.buf = Gone => new.buf = Node(n, v) /\ new.bufpos = n
        /\ ch.buf # Gone => new.buf = ch.buf \o Node(n, v) /\ new.bufpos = ch.bufpos + n
    BY <1>1, AddedOK
  <1>3. /\ ch.bufsize \in Nat /\ ch.bufpos \in Nat
        /\ ch.buf # Gone => ch.buf \in Seq(Values)
    BY ChunkParts
  <1>4. new.bufsize = IF ch.buf = Gone THEN LongEnough(n) ELSE ch.bufsize
    BY DEF Added, Chunk
  <1> HIDE DEF new
  <1>5. CASE ch.buf # Gone
    <2> SUFFICES FitOK(new, f) /\ new.bufsize = ch.bufsize
      BY <1>5 DEF new
    <2>1. Len(new.buf) = Len(ch.buf) + n /\ Len(ch.buf) \in Nat
      <3> DEFINE node == Node(n, v)
                 b == ch.buf
      <3>1. /\ node \in Seq(Values) /\ b \in Seq(Values) /\ Len(node) = n
            /\ new.buf = b \o node
        BY <1>2, <1>3, <1>5
      <3> HIDE DEF node, b
      <3>3. Len(b \o node) = Len(b) + Len(node)
        BY <3>1, ConcatSeq, Zenon
      <3>2. Len(new.buf) = Len(b) + n /\ Len(b) \in Nat
        BY <3>1, <3>3
      <3> QED BY <3>2 DEF b
    <2>2. /\ ch.bufsize <= LargestChunk /\ Len(ch.buf) <= ch.bufpos
          /\ ch.saved => Len(f) <= LargestChunk /\ Len(f) <= ch.bufpos
      BY <1>5 DEF FitOK
    <2>3. ch.bufsize - ch.bufpos >= n
      BY <1>5 DEF Room
    <2> DEFINE x == Len(ch.buf)
               p == ch.bufpos
               z == ch.bufsize
    <2>4. x + n <= z /\ x + n <= p + n
      <3>1. x \in Nat /\ p \in Nat /\ z \in Nat /\ x <= p /\ z - p >= n
        BY <1>3, <2>1, <2>2, <2>3
      <3> HIDE DEF x, p, z
      <3> QED BY <1>1, <3>1
    <2>5. ch.saved => Len(f) <= p + n
      <3> DEFINE y == Len(f)
      <3> SUFFICES ASSUME ch.saved PROVE y <= p + n
        OBVIOUS
      <3>1. y \in Int
        BY <2>2, <1>5
      <3>2. p \in Nat /\ y <= p
        BY <1>3, <2>2
      <3> HIDE DEF y, p
      <3> QED BY <1>1, <3>1, <3>2
    <2> QED BY <1>2, <1>4, <1>5, <2>1, <2>2, <2>4, <2>5 DEF FitOK
  <1>6. CASE ch.buf = Gone
    <2> SUFFICES ASSUME ~ ch.saved PROVE FitOK(new, f) /\ new.bufsize = LongEnough(n)
      BY <1>6 DEF new
    <2> QED BY <1>1, <1>2, <1>4, <1>6 DEF FitOK
  <1> QED BY <1>5, <1>6 DEF new

LEMMA AllocHereMem ==
    ASSUME IInv, MemInv, NEW n \in Sizes, NEW v \in Values, AllocHere(n, v)
    PROVE  MemInv'
  <1> DEFINE ch == store.chunks[active]
             new == Added(ch, n, v)
             u == WithChunk(store, active, new)
  <1>1. /\ store' = u /\ ~ Raw /\ active # 0 /\ Room(ch, n)
        /\ lru' = lru /\ active' = active /\ saved' = saved /\ clean' = clean
    BY DEF AllocHere, AddNode, saving
  <1>2. /\ SizesFit(store) /\ Listed(store, lru) /\ Bounded(store) /\ InMemory(store, active)
        /\ StoreOK(store, {}) /\ active \in DOMAIN store.chunks
        /\ store.chunks \in Seq(ChunkSet)
        /\ clean => SavedFits(store.file, saved)
    BY <1>1 DEF MemInv, IInv, DataOK, Chunks, StoreOK
  <1>3. /\ ch \in ChunkSet /\ ch.buf # Gone /\ FitOK(ch, store.file[active])
    BY <1>2 DEF InMemory, SizesFit
  <1>4. n \in Nat
    BY LargestIs
  <1>5. /\ new \in ChunkSet /\ new.buf # Gone
        /\ FitOK(new, store.file[active]) /\ new.bufsize = ch.bufsize
    <2> DEFINE f == store.file[active]
    <2> HIDE DEF ch, f
    <2> QED BY <1>1, <1>3, <1>4, AddedOK, AddedFits DEF f
  <1> HIDE DEF new
  <1>6. SizesFit(u) /\ Unpackeds(u) = Unpackeds(store)
    BY <1>2, <1>5, WithFits, SameWith
  <1>7. /\ DOMAIN u.chunks = DOMAIN store.chunks /\ u.chunks[active] = new
        /\ \A d \in DOMAIN store.chunks : d # active => u.chunks[d] = store.chunks[d]
        /\ u.file = store.file
    BY <1>2 DEF WithChunk
  <1> HIDE DEF u
  <1>8. \A d \in DOMAIN u.chunks : InMemory(u, d) => InMemory(store, d)
    BY <1>2, <1>7 DEF InMemory
  <1>9. Listed(u, lru)
    BY <1>2, <1>7, <1>8, ListedSame
  <1>10. InMemory(u, active)
    BY <1>5, <1>7 DEF InMemory
  <1>11. Bounded(u)
    BY <1>2, <1>6 DEF Bounded
  <1> QED BY <1>1, <1>2, <1>6, <1>7, <1>9, <1>10, <1>11 DEF MemInv, Bounded

\* A new chunk joins, and the others are compacted.
LEMMA JoinMem ==
    ASSUME IInv, MemInv, Len(store.chunks) < MaxChunks, NEW c, c = Len(store.chunks) + 1,
           NEW ch \in ChunkSet, ~ ch.saved, FitOK(ch, store.file[c]),
           NEW act, act = c \/ act = 0, act = c => ch.bufsize = 0,
           NEW r \in AddChunk(store, ch, act)
    PROVE  /\ r.store.chunks \in Seq(ChunkSet) /\ SizesFit(r.store)
           /\ Listed(r.store, ToFront(lru, c))
           /\ CacheOpens = {TRUE} => Unpackeds(r.store) <= Limit
  <1> DEFINE n == Len(store.chunks)
             u == [chunks |-> Append(store.chunks, ch), file |-> store.file]
  <1>0. /\ n \in Nat /\ DOMAIN store.chunks = 1 .. n /\ store.file \in [Slots -> Buffers]
        /\ c \in Nat /\ c <= MaxChunks /\ MaxChunks \in Nat /\ c \in Slots
        /\ store.chunks \in Seq(ChunkSet)
        /\ StoreOK(store, {}) /\ cache \in BOOLEAN
    BY DataStorageAssumption DEF IInv, DataOK, StoreOK, Slots
  <1>1. /\ u = [chunks |-> u.chunks, file |-> u.file] /\ u.file = store.file
        /\ u.chunks = [d \in 1 .. c |-> u.chunks[d]] /\ Len(u.chunks) = c
        /\ u.chunks[c] = ch /\ \A d \in 1 .. n : u.chunks[d] = store.chunks[d]
    BY <1>0
  <1>2. r \in Compact(u, ToFront(lru, c), act, 0, 0)
    BY <1>1 DEF AddChunk
  <1> HIDE DEF u
  <1>3. ASSUME NEW d \in 1 .. c
        PROVE  /\ ChunkOK(u.chunks[d], u.file[d]) /\ FitOK(u.chunks[d], u.file[d])
               /\ d # c => (u.chunks[d].buf = Gone => u.chunks[d].saved)
               /\ d # c => d \in DOMAIN store.chunks /\ u.chunks[d] = store.chunks[d]
    <2>1. CASE d = c
      BY <1>0, <1>1, <2>1 DEF ChunkOK
    <2>2. CASE d # c
      <3>1. d \in 1 .. n
        BY <1>0, <2>2
      <3> QED BY <1>0, <1>1, <3>1 DEF StoreOK, MemInv, SizesFit
    <2> QED BY <2>1, <2>2
  <1>4. StoreOK(u, {c}) /\ DOMAIN u.chunks = 1 .. c
    BY <1>0, <1>1, <1>3, StoreFromChunks
  <1>5. SizesFit(u)
    BY <1>3, <1>4 DEF SizesFit
  <1>6. Listed(u, ToFront(lru, c))
    <2>1. c \in DOMAIN u.chunks /\ DOMAIN store.chunks \subseteq DOMAIN u.chunks
      BY <1>0, <1>4
    <2>2. \A d \in DOMAIN u.chunks :
              d # c /\ InMemory(u, d) => d \in DOMAIN store.chunks /\ InMemory(store, d)
      BY <1>3, <1>4 DEF InMemory
    <2>3. Listed(store, lru)
      BY DEF MemInv
    <2> QED BY <1>0, <2>1, <2>2, <2>3, ListedFront
  <1>7. SizeOf(u, act) = 0 /\ SizeOf(u, 0) = 0
    <2>1. 0 \notin DOMAIN u.chunks
      BY <1>0, <1>4
    <2>2. u.chunks[c].bufsize = ch.bufsize
      BY <1>1
    <2> QED BY <2>1, <2>2 DEF SizeOf
  <1>8. 0 \in Nat
    OBVIOUS
  <1> DEFINE l == ToFront(lru, c)
  <1>9. Compacted(r.store, u, l, act, 0)
    <2> HIDE DEF l
    <2>1. r \in Compact(u, l, act, 0, 0) /\ Listed(u, l)
      BY <1>2, <1>6 DEF l
    <2> QED BY <1>0, <1>4, <1>5, <1>8, <2>1, AfterCompact
  <1>10. /\ r.store.chunks \in Seq(ChunkSet) /\ SizesFit(r.store) /\ Listed(r.store, l)
         /\ CacheOpens = {TRUE} => Unpackeds(r.store) <= Limit + 0 + 0
    BY <1>7, <1>9 DEF Compacted
  <1>11. Limit + 0 + 0 = Limit
    BY LimitIs
  <1> QED BY <1>10, <1>11

LEMMA AllocInNewMem ==
    ASSUME IInv, MemInv, NEW n \in Sizes, NEW v \in Values, AllocInNew(n, v)
    PROVE  MemInv'
  <1> DEFINE m == Len(store.chunks)
             c == m + 1
             new == Added(NodeChunk, n, v)
  <1>1. PICK r \in AddChunk(store, NodeChunk, c) : store' = AddNode(r.store, c, n, v)
    BY DEF AllocInNew
  <1>2. /\ active' = c /\ lru' = ToFront(lru, c) /\ m < MaxChunks /\ NoteWrites
        /\ ~ Raw /\ saved' = saved
    BY DEF AllocInNew, saving
  <1>3. /\ NodeChunk \in ChunkSet /\ ~ NodeChunk.saved /\ NodeChunk.buf = Gone
        /\ NodeChunk.bufsize = 0
    BY NewChunks DEF NodeChunk, Chunk
  <1>4. FitOK(NodeChunk, store.file[c])
    <2>1. 0 <= LargestChunk
      BY LargestIs
    <2> QED BY <1>3, <2>1 DEF FitOK
  <1>5. /\ m \in Nat /\ c \in Slots /\ c # 0
        /\ StoreOK(store, {}) /\ StoreHolds(store, truth, appended)
        /\ truth \in Seq(Seq(Values)) /\ Len(truth) = m /\ cache \in BOOLEAN
    BY <1>2, ChunksAreSlots DEF IInv, DataOK, Slots
  <1>6. /\ r.store.chunks \in Seq(ChunkSet) /\ SizesFit(r.store)
        /\ Listed(r.store, ToFront(lru, c))
        /\ CacheOpens = {TRUE} => Unpackeds(r.store) <= Limit
    BY <1>2, <1>3, <1>4, JoinMem
  <1>7. /\ StoreOK(r.store, {c}) /\ Len(r.store.chunks) = c
        /\ r.store.chunks[c] = NodeChunk
    <2>1. ChunkOK(NodeChunk, store.file[c]) /\ Holds(NodeChunk, store.file[c], <<>>)
      BY <1>3, NewChunks DEF ChunkOK, Holds
    <2>2. Addable(store, truth, appended, NodeChunk, <<>>)
      BY <1>2, <1>5, <2>1 DEF Addable
    <2>3. Joined(store, truth, appended, NodeChunk, <<>>, r)
      BY <1>1, <2>2, AddChunkOK
    <2> QED BY <1>3, <2>3 DEF Joined
  <1> DEFINE s == r.store
             u == WithChunk(s, c, new)
  <1>8. store' = u /\ c \in DOMAIN s.chunks
    BY <1>1, <1>5, <1>7 DEF AddNode, StoreOK
  <1>9. /\ new \in ChunkSet /\ new.buf # Gone
        /\ FitOK(new, s.file[c]) /\ new.bufsize = LongEnough(n)
    <2>1. n \in Nat /\ Room(NodeChunk, n)
      BY <1>3, LargestIs DEF Room
    <2>2. FitOK(NodeChunk, s.file[c])
      BY <1>6, <1>7, <1>8 DEF SizesFit
    <2> QED BY <1>3, <2>1, <2>2, AddedOK, AddedFits
  <1> HIDE DEF new
  <1>10. SizesFit(u)
    BY <1>6, <1>8, <1>9, WithFits
  <1>11. Unpackeds(u) = Unpackeds(s) + LongEnough(n)
    <2>1. s.chunks[c].bufsize = 0
      BY <1>3, <1>7
    <2> HIDE DEF u, c, s
    <2>2. Unpackeds(u) = Unpackeds(s) + new.bufsize
      BY <1>6, <1>8, <1>9, <2>1, MoreWith DEF u, s
    <2> QED BY <1>9, <2>2
  <1>12. Bounded(u)
    <2> SUFFICES ASSUME CacheOpens = {TRUE} PROVE Unpackeds(u) <= Allowed
      BY DEF Bounded
    <2>1. Unpackeds(s) \in Nat /\ Unpackeds(s) <= Limit
      BY <1>6, UnpackedsIsNat
    <2>2. LongEnough(n) \in Nat /\ LongEnough(n) <= LargestChunk
      BY LargestIs
    <2> DEFINE x == Unpackeds(s)
               y == Unpackeds(u)
               z == LongEnough(n)
    <2>3. x \in Nat /\ x <= Limit /\ z \in Nat /\ z <= LargestChunk /\ y = x + z
      BY <1>11, <2>1, <2>2
    <2> HIDE DEF x, y, z
    <2>4. y <= Allowed
      BY <2>3, AllowedIs
    <2> QED BY <2>4 DEF y
  <1>13. /\ DOMAIN u.chunks = DOMAIN s.chunks /\ u.chunks[c] = new
         /\ \A d \in DOMAIN s.chunks : d # c => u.chunks[d] = s.chunks[d]
    BY <1>8 DEF WithChunk
  <1> HIDE DEF u
  <1>14. Listed(u, ToFront(lru, c)) /\ InMemory(u, c)
    <2>1. Listed(u, ToFront(ToFront(lru, c), c))
      <3>1. \A d \in DOMAIN u.chunks :
                d # c /\ InMemory(u, d) => d \in DOMAIN s.chunks /\ InMemory(s, d)
        BY <1>13 DEF InMemory
      <3>2. c \in DOMAIN u.chunks /\ DOMAIN s.chunks \subseteq DOMAIN u.chunks
        BY <1>8, <1>13
      <3> HIDE DEF c, s
      <3> QED BY <1>5, <1>6, <3>1, <3>2, ListedFront DEF s
    <2>2. ToFront(ToFront(lru, c), c) = ToFront(lru, c)
      BY DEF ToFront
    <2> QED BY <1>9, <1>13, <2>1, <2>2 DEF InMemory
  <1>15. clean' => SavedFits(store'.file, saved')
    BY <1>2, NoteFits
  <1> QED BY <1>2, <1>8, <1>10, <1>12, <1>14, <1>15 DEF MemInv, Bounded

LEMMA GrowMem ==
    ASSUME IInv, MemInv, Grow
    PROVE  MemInv'
  <1> DEFINE m == Len(store.chunks)
             c == m + 1
  <1>1. PICK r \in AddChunk(store, RawChunk, 0) : store' = r.store
    BY DEF Grow
  <1>2. /\ lru' = ToFront(lru, c) /\ NoteWrites /\ active' = active /\ saved' = saved
    BY DEF Grow, saving
  <1>3. m \in Nat /\ MaxChunks \in Nat /\ want \in Nat /\ m < want /\ want <= MaxChunks /\ Raw
    BY ChunksAreSlots DEF IInv, Slots, Grow, Idle
  <1>4. m < MaxChunks /\ c # 0
    BY <1>3
  <1>5. /\ RawChunk \in ChunkSet /\ ~ RawChunk.saved /\ RawChunk.buf # Gone
        /\ RawChunk.bufpos = ChunkSize /\ RawChunk.bufsize = ChunkSize
        /\ Len(RawChunk.buf) = ChunkSize
    BY NewChunks DEF RawChunk, Chunk
  <1>6. FitOK(RawChunk, store.file[c])
    <2>1. ChunkSize \in Nat /\ ChunkSize <= LargestChunk /\ ChunkSize <= ChunkSize
      BY LargestIs
    <2> QED BY <1>5, <2>1 DEF FitOK
  <1>7. /\ r.store.chunks \in Seq(ChunkSet) /\ SizesFit(r.store)
        /\ Listed(r.store, ToFront(lru, c))
        /\ CacheOpens = {TRUE} => Unpackeds(r.store) <= Limit
    BY <1>4, <1>5, <1>6, JoinMem
  <1>8. Bounded(r.store)
    <2>1. Unpackeds(r.store) \in Nat
      BY <1>7, UnpackedsIsNat
    <2> DEFINE x == Unpackeds(r.store)
    <2>2. CacheOpens = {TRUE} => x <= Allowed
      <3>1. x \in Nat /\ (CacheOpens = {TRUE} => x <= Limit)
        BY <1>7, <2>1
      <3> HIDE DEF x
      <3> QED BY <3>1, AllowedIs
    <2> QED BY <2>2 DEF Bounded
  <1>9. active = 0
    BY <1>3 DEF MemInv
  <1>10. clean' => SavedFits(store'.file, saved')
    BY <1>2, NoteFits
  <1> QED BY <1>1, <1>2, <1>7, <1>8, <1>9, <1>10 DEF MemInv, Bounded

LEMMA CompactAllMem ==
    ASSUME IInv, MemInv, CompactAll
    PROVE  MemInv'
  <1>1. PICK r \in Compact(store, lru, active, 2 * MaxUnpacked, 0) : store' = r.store
    BY DEF CompactAll
  <1>2. NoteWrites /\ lru' = lru /\ active' = active /\ saved' = saved
    BY DEF CompactAll, saving
  <1>3. /\ StoreOK(store, {}) /\ SizesFit(store) /\ Listed(store, lru) /\ cache \in BOOLEAN
        /\ active # 0 => ~ Raw /\ active \in DOMAIN store.chunks /\ InMemory(store, active)
    BY DEF IInv, DataOK, MemInv, Chunks
  <1> DEFINE z == 2 * MaxUnpacked
  <1>4. z \in Nat
    BY LimitIs
  <1>5. /\ SizesFit(r.store) /\ Listed(r.store, lru) /\ Bounded(r.store)
        /\ active # 0 => InMemory(r.store, active)
    <2>1. r \in Compact(store, lru, active, z, 0)
      BY <1>1
    <2> HIDE DEF z
    <2> QED BY <1>3, <1>4, <2>1, CompactMem
  <1>6. clean' => SavedFits(store'.file, saved')
    BY <1>2, NoteFits
  <1> QED BY <1>1, <1>2, <1>3, <1>5, <1>6 DEF MemInv, Bounded

\* Saving leaves what is in memory.
LEMMA SavedMem ==
    ASSUME IInv, MemInv, NEW W
    PROVE  /\ SizesFit(Save(store, W)) /\ Listed(Save(store, W), lru)
           /\ Bounded(Save(store, W))
           /\ active # 0 => ~ Raw /\ InMemory(Save(store, W), active)
  <1> DEFINE s == Save(store, W)
             n == Len(store.chunks)
  <1>1. /\ StoreOK(store, {}) /\ StoreHolds(store, truth, appended)
        /\ SizesFit(store) /\ Listed(store, lru) /\ Bounded(store)
        /\ active # 0 => ~ Raw /\ active \in DOMAIN store.chunks /\ InMemory(store, active)
        /\ store.chunks \in Seq(ChunkSet) /\ DOMAIN store.chunks = 1 .. n
    BY DEF IInv, DataOK, MemInv, StoreOK, Chunks
  <1>2. /\ StoreOK(s, {}) /\ Len(s.chunks) = n
        /\ \A c \in DOMAIN store.chunks : s.chunks[c].buf = store.chunks[c].buf
    BY <1>1, SaveOK
  <1>3. /\ SizesFit(s)
        /\ \A c \in DOMAIN store.chunks : s.chunks[c].bufsize = store.chunks[c].bufsize
    BY <1>1, SaveFits
  <1> HIDE DEF s
  <1>4. s.chunks \in Seq(ChunkSet) /\ DOMAIN s.chunks = DOMAIN store.chunks
    BY <1>1, <1>2 DEF StoreOK
  <1>5. Unpackeds(s) = Unpackeds(store)
    BY <1>1, <1>2, <1>3, <1>4, SameSizes
  <1>6. Listed(s, lru)
    BY <1>1, <1>2, <1>4, ListedSame DEF InMemory
  <1>7. Bounded(s)
    BY <1>1, <1>5 DEF Bounded
  <1>8. active # 0 => ~ Raw /\ InMemory(s, active)
    BY <1>1, <1>2 DEF InMemory
  <1> QED BY <1>3, <1>6, <1>7, <1>8 DEF s

LEMMA SavePartMem ==
    ASSUME IInv, MemInv, NEW n \in Chunks, SavePart(n)
    PROVE  MemInv'
  <1>1. /\ store' = Save(store, 1 .. n) /\ NoteWrites
        /\ lru' = lru /\ active' = active /\ saved' = saved
    BY DEF SavePart, saving
  <1>2. clean' => SavedFits(store'.file, saved')
    BY <1>1, NoteFits
  <1> QED BY <1>1, <1>2, SavedMem DEF MemInv, Bounded

LEMMA SaveAllMem ==
    ASSUME IInv, MemInv, SaveAll
    PROVE  MemInv'
  <1>1. /\ store' = Save(store, Chunks) /\ lru' = lru /\ active' = active
        /\ saved' = [c \in Chunks |-> store.chunks[c].bufpos]
    BY DEF SaveAll
  <1>2. /\ SizesFit(store') /\ Listed(store', lru) /\ Bounded(store')
        /\ active # 0 => ~ Raw /\ InMemory(store', active)
    BY <1>1, SavedMem
  <1>3. ASSUME NEW c \in Chunks
        PROVE  Len(store'.file[c]) <= LargestChunk /\ Len(store'.file[c]) <= saved'[c]
    <2>1. /\ store'.chunks[c].saved /\ store'.chunks[c].bufpos = store.chunks[c].bufpos
          /\ DOMAIN store'.chunks = Chunks
      BY <1>1, SaveHere
    <2>2. FitOK(store'.chunks[c], store'.file[c])
      BY <1>2, <2>1 DEF SizesFit
    <2>3. saved'[c] = store.chunks[c].bufpos
      BY <1>1
    <2> QED BY <2>1, <2>2, <2>3 DEF FitOK
  <1>4. SavedFits(store'.file, saved')
    BY <1>1, <1>3 DEF SavedFits
  <1> QED BY <1>1, <1>2, <1>4 DEF MemInv, Bounded

LEMMA ReloadMem ==
    ASSUME IInv, MemInv, Reload
    PROVE  MemInv'
  <1> DEFINE m == Len(saved)
             read(c) == Chunk(Gone, 0, saved[c], TRUE)
  <1>1. /\ store' = [chunks |-> [c \in DOMAIN saved |-> read(c)], file |-> store.file]
        /\ lru' = NoList /\ active' = 0 /\ clean /\ saved' = saved
        /\ SavedFits(store.file, saved)
    BY DEF Reload, saving, MemInv
  <1>2. /\ saved \in Seq(Nat) /\ m \in Nat /\ DOMAIN saved = 1 .. m
    BY DEF IInv
  <1>3. store'.file = store.file /\ DOMAIN store'.chunks = 1 .. m
        /\ \A c \in 1 .. m : store'.chunks[c] = read(c)
    BY <1>1, <1>2
  <1>4. \A c \in 1 .. m : /\ read(c).buf = Gone /\ read(c).bufsize = 0
                          /\ read(c).bufpos = saved[c] /\ read(c).saved
    BY DEF Chunk
  <1> HIDE DEF read
  <1>5. SizesFit(store')
    <2>1. 0 <= LargestChunk
      BY LargestIs
    <2> QED BY <1>1, <1>2, <1>3, <1>4, <2>1 DEF SizesFit, FitOK, SavedFits
  <1>6. Visits(store', <<>>)
    BY <1>3, <1>4, EmptyRange DEF Visits, InMemory
  <1>7. Listed(store', lru')
    BY <1>1, <1>6, NoListOrders, Zenon DEF Listed
  <1>8. store'.chunks \in Seq(ChunkSet) /\ Len(store'.chunks) = m
    <2>1. DataOK(store', truth', appended')
      BY ReloadInv DEF IInv
    <2>2. store'.chunks \in Seq(ChunkSet)
      BY <2>1 DEF DataOK, StoreOK
    <2> HIDE DEF m
    <2> QED BY <1>2, <1>3, <2>2
  <1>9. Unpackeds(store') = 0
    <2> DEFINE a == SizesOf(store')
    <2>1. a \in [1 .. m -> Nat] /\ Adds(Unpackeds(store'), a, m)
      BY <1>8, SizesAreNat, UnpackedsAdds
    <2>2. \A c \in 1 .. m : a[c] = 0
      BY <1>3, <1>4, <1>8 DEF SizesOf
    <2> HIDE DEF a
    <2> QED BY <1>2, <2>1, <2>2, SumOfNothing
  <1>10. Bounded(store')
    <2>1. 0 <= Allowed
      BY AllowedIs
    <2> QED BY <1>9, <2>1 DEF Bounded
  <1> QED BY <1>1, <1>3, <1>5, <1>7, <1>10 DEF MemInv, Bounded

LEMMA NextMem ==
    ASSUME IInv, MemInv, [Next]_vars
    PROVE  MemInv'
  <1>1. ASSUME NEW c \in Chunks, Get(c) PROVE MemInv'
    BY <1>1, GetMem
  <1>2. ASSUME NEW c \in Chunks, NEW v \in Values, NEW i \in DOMAIN truth[c],
               Update(c, i, v)
        PROVE  MemInv'
    BY <1>2, UpdateMem
  <1>3. ASSUME NEW n \in Sizes, NEW v \in Values, AllocHere(n, v) PROVE MemInv'
    BY <1>3, AllocHereMem
  <1>4. ASSUME NEW n \in Sizes, NEW v \in Values, AllocInNew(n, v) PROVE MemInv'
    BY <1>4, AllocInNewMem
  <1>5. CASE UNCHANGED <<store, lru, active, saved, clean>>
    BY <1>5 DEF MemInv, Bounded
  <1>6. ASSUME NEW c \in Slots, Want(c) PROVE MemInv'
    BY <1>5, <1>6 DEF Want, saving
  <1>7. CASE Grow
    BY <1>7, GrowMem
  <1>8. CASE OpenCache
    BY <1>5, <1>8 DEF OpenCache, saving
  <1>9. CASE CompactAll
    BY <1>9, CompactAllMem
  <1>10. ASSUME NEW n \in Chunks, SavePart(n) PROVE MemInv'
    BY <1>10, SavePartMem
  <1>11. CASE SaveAll
    BY <1>11, SaveAllMem
  <1>12. CASE Reload
    BY <1>12, ReloadMem
  <1>13. CASE UNCHANGED vars
    BY <1>5, <1>13 DEF vars
  <1> QED BY <1>1, <1>2, <1>3, <1>4, <1>6, <1>7, <1>8, <1>9, <1>10, <1>11, <1>12, <1>13
          DEF Next

\* A list that orders the chunks in memory is a sound one.
LEMMA ListIsSound ==
    ASSUME Listed(store, lru)
    PROVE  RecentListSound
  <1>1. PICK o : Orders(lru, o) /\ Visits(store, o)
    BY Zenon DEF Listed
  <1>2. Order(lru) = o
    BY <1>1, OrderIs
  <1>3. o \in Seq(Slots) /\ IsInjective(o) /\ Links(lru.next, lru.prev, o, 0)
    BY <1>1 DEF Orders
  <1>4. \A m, n \in DOMAIN o : o[m] = o[n] => m = n
    BY <1>3, SameAt
  <1>5. ASSUME NEW n \in DOMAIN o
        PROVE  lru.prev[o[n]] = IF n = 1 THEN 0 ELSE o[n - 1]
    <2> DEFINE prev == lru.prev
    <2>1. /\ DOMAIN o = 1 .. Len(o) /\ Len(o) \in Nat
          /\ \A k \in 1 .. Len(o) : prev[o[k]] = At(o, k - 1)
      BY <1>3 DEF Links
    <2> HIDE DEF prev
    <2>2. prev[o[n]] = At(o, n - 1) /\ n \in Nat /\ n <= Len(o) /\ n >= 1
      BY <2>1
    <2>3. n - 1 \in 1 .. Len(o) <=> n # 1
      BY <2>1, <2>2
    <2>4. prev[o[n]] = IF n = 1 THEN 0 ELSE o[n - 1]
      BY <2>2, <2>3 DEF At
    <2> QED BY <2>4 DEF prev
  <1>6. ASSUME NEW c \in Chunks, InMemory(store, c)
        PROVE  \E n \in DOMAIN o : o[n] = c
    <2>1. c \in Range(o)
      BY <1>1, <1>6 DEF Visits, Chunks
    <2> QED BY <1>3, <2>1, RangeIs
  <1> QED BY <1>2, <1>4, <1>5, <1>6 DEF RecentListSound

\* compact() finds whatever is in memory, its list of chunks being sound through
\* every swap, save and reload, and so the unpacked chunks outgrow the limit by no
\* more than the 10%, the chunk that is asked for and the active one.
THEOREM MemoryStaysBounded == Spec => []MemoryBounded
  <1>1. Init => IInv /\ MemInv
    BY InitInv, InitMem
  <1>2. IInv /\ MemInv /\ [Next]_vars => IInv' /\ MemInv'
    BY NextInv, NextMem
  <1>3. MemInv => MemoryBounded
    BY ListIsSound, AllowedIs DEF MemInv, Bounded, MemoryBounded
  <1> QED BY <1>1, <1>2, <1>3, PTL DEF Spec

=============================================================================
