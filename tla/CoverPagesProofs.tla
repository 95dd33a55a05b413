--------------------------- MODULE CoverPagesProofs ---------------------------
(***************************************************************************)
(* For any number of covers, any size of the cache and any number of       *)
(* requests: the lists are sound, no bitmap of another font comes back,    *)
(* and every request ends with the cover on the view or with its loss.     *)
(*                                                                         *)
(* The invariant says of every view that shows something else why it will  *)
(* be drawn again (Pending): the request is in one of the lists, with a    *)
(* task that takes it from there (GuiOK, EntryOK), or the cover is being   *)
(* drawn, or the view is told.  Lists are spoken of by their ranges.       *)
(***************************************************************************)
EXTENDS CoverPages, ListFacts, TLAPS

LEMMA RemoveFromKeeps ==
    ASSUME NEW S, NEW q \in Seq(S), NEW i
    PROVE  /\ RemoveFrom(q, i) \in Seq(S)
           /\ Range(q) \subseteq Range(RemoveFrom(q, i)) \cup {i}
           /\ Range(RemoveFrom(q, i)) \subseteq Range(q)
           /\ IsInjective(q) => /\ IsInjective(RemoveFrom(q, i))
                                /\ i \notin Range(RemoveFrom(q, i))
  <1>1. CASE i \notin Range(q)
    <2>1. RemoveFrom(q, i) = q
      BY <1>1 DEF RemoveFrom
    <2> QED  BY <1>1, <2>1
  <1>2. CASE i \in Range(q)
    <2> DEFINE at == CHOOSE k \in DOMAIN q : q[k] = i
    <2>1. RemoveFrom(q, i) = RemoveAt(q, at)
      BY <1>2 DEF RemoveFrom
    <2>2. \E k \in DOMAIN q : q[k] = i
      BY <1>2 DEF Range
    <2>3. at \in DOMAIN q /\ q[at] = i
      BY <2>2
    <2> HIDE DEF at
    <2>4. at \in 1 .. Len(q)
      BY <2>3
    <2>5. /\ RemoveAt(q, at) \in Seq(S)
          /\ Range(RemoveAt(q, at)) = {q[k] : k \in (1 .. Len(q)) \ {at}}
          /\ IsInjective(q) => IsInjective(RemoveAt(q, at))
      BY <2>4, RemoveAtKeeps
    <2>6. Range(q) = {q[k] : k \in 1 .. Len(q)}
      BY RangeIs
    <2>7. IsInjective(q) => i \notin {q[k] : k \in (1 .. Len(q)) \ {at}}
      BY <2>3, <2>4 DEF IsInjective
    <2> QED  BY <2>1, <2>3, <2>5, <2>6, <2>7
  <1> QED  BY <1>1, <1>2

LEMMA AddOnTopKeeps ==
    ASSUME NEW S, NEW q \in Seq(S), NEW i \in S
    PROVE  /\ AddOnTop(q, i) \in Seq(S)
           /\ Range(AddOnTop(q, i)) = Range(q) \cup {i}
           /\ IsInjective(q) => IsInjective(AddOnTop(q, i))
  <1> DEFINE r == RemoveFrom(q, i)
             t == AddOnTop(q, i)
  <1>1. /\ r \in Seq(S) /\ Range(q) \subseteq Range(r) \cup {i} /\ Range(r) \subseteq Range(q)
        /\ IsInjective(q) => IsInjective(r) /\ i \notin Range(r)
    BY RemoveFromKeeps
  <1>2. t = <<i>> \o r
    BY DEF AddOnTop
  <1> HIDE DEF r, t
  <1>3. /\ t \in Seq(S) /\ Len(t) = Len(r) + 1 /\ t[1] = i
        /\ \A k \in 1 .. Len(r) : t[k + 1] = r[k]
        /\ Len(r) \in Nat
    <2>1. <<i>> \in Seq(S) /\ Len(<<i>>) = 1 /\ <<i>>[1] = i /\ Len(r) \in Nat
      BY <1>1
    <2>2. t \in Seq(S) /\ Len(t) = 1 + Len(r)
      BY <1>1, <1>2, <2>1, ConcatProperties
    <2> HIDE <1>2
    <2>3. \A k \in 1 .. 1 + Len(r) : t[k] = IF k <= 1 THEN <<i>>[k] ELSE r[k - 1]
      BY <1>1, <1>2, <2>1, ConcatProperties
    <2>4. t[1] = i
      BY <2>1, <2>3
    <2>5. ASSUME NEW k \in 1 .. Len(r)  PROVE t[k + 1] = r[k]
      <3>1. k + 1 \in 1 .. 1 + Len(r) /\ ~(k + 1 <= 1) /\ (k + 1) - 1 = k
        BY <2>1
      <3> QED  BY <3>1, <2>3
    <2> QED  BY <2>1, <2>2, <2>4, <2>5
  <1>4. ASSUME NEW k \in 1 .. Len(t)  PROVE k = 1 \/ (k - 1 \in 1 .. Len(r) /\ t[k] = r[k - 1])
    <2>1. CASE k # 1
      <3>1. k - 1 \in 1 .. Len(r) /\ (k - 1) + 1 = k
        BY <1>3, <2>1
      <3> QED  BY <3>1, <1>3
    <2> QED  BY <2>1
  <1>5. Range(t) \subseteq Range(r) \cup {i}
    <2>1. SUFFICES ASSUME NEW y \in Range(t)  PROVE y \in Range(r) \cup {i}
      OBVIOUS
    <2>2. PICK k \in 1 .. Len(t) : t[k] = y
      BY <1>3, RangeIs
    <2>3. CASE k = 1
      BY <2>2, <2>3, <1>3
    <2>4. CASE k - 1 \in 1 .. Len(r) /\ t[k] = r[k - 1]
      <3>1. r[k - 1] \in Range(r)
        BY <2>4, <1>1, RangeIs
      <3> QED  BY <3>1, <2>2, <2>4
    <2> QED  BY <2>3, <2>4, <1>4
  <1>6. Range(r) \subseteq Range(t) /\ i \in Range(t)
    <2>1. ASSUME NEW y \in Range(r)  PROVE y \in Range(t)
      <3>1. PICK k \in 1 .. Len(r) : r[k] = y
        BY <1>1, RangeIs
      <3>2. k + 1 \in 1 .. Len(t) /\ t[k + 1] = y
        BY <3>1, <1>3
      <3> QED  BY <3>2, <1>3, RangeIs
    <2>2. 1 \in 1 .. Len(t)
      BY <1>3
    <2> QED  BY <2>1, <2>2, <1>3, RangeIs
  <1>7. ASSUME IsInjective(r), i \notin Range(r)  PROVE IsInjective(t)
    <2>1. \A k, l \in 1 .. Len(r) : r[k] = r[l] => k = l
      BY <1>1, <1>7 DEF IsInjective
    <2>2. \A k \in 1 .. Len(r) : r[k] # i
      BY <1>1, <1>7, RangeIs
    <2>3. DOMAIN t = 1 .. Len(t)
      BY <1>3
    <2>4. SUFFICES ASSUME NEW k \in 1 .. Len(t), NEW l \in 1 .. Len(t), t[k] = t[l]
                   PROVE  k = l
      BY <2>3 DEF IsInjective
    <2>5. CASE k = 1
      <3>1. l = 1
        BY <2>2, <2>4, <2>5, <1>3, <1>4
      <3> QED  BY <3>1, <2>5
    <2>6. CASE l = 1
      <3>1. k = 1
        BY <2>2, <2>4, <2>6, <1>3, <1>4
      <3> QED  BY <3>1, <2>6
    <2>7. CASE k # 1 /\ l # 1
      <3>1. k - 1 = l - 1
        BY <2>1, <2>4, <2>7, <1>4
      <3> QED  BY <3>1
    <2> QED  BY <2>5, <2>6, <2>7
  <1>8. t \in Seq(S) /\ Range(t) = Range(q) \cup {i} /\ (IsInjective(q) => IsInjective(t))
    BY <1>1, <1>3, <1>5, <1>6, <1>7
  <1> QED  BY <1>8 DEF t

LEMMA ScheduleKeeps ==
    ASSUME NEW S, NEW q \in Seq(S), NEW task, <<task>> \in S
    PROVE  /\ Schedule(q, task) \in Seq(S)
           /\ Range(Schedule(q, task)) = Range(q) \cup {<<task>>}
  <1>1. /\ RemoveFrom(q, <<task>>) \in Seq(S)
        /\ Range(q) \subseteq Range(RemoveFrom(q, <<task>>)) \cup {<<task>>}
        /\ Range(RemoveFrom(q, <<task>>)) \subseteq Range(q)
    BY RemoveFromKeeps
  <1>2. /\ Append(RemoveFrom(q, <<task>>), <<task>>) \in Seq(S)
        /\ Range(Append(RemoveFrom(q, <<task>>), <<task>>))
               = Range(RemoveFrom(q, <<task>>)) \cup {<<task>>}
    BY <1>1, AppendKeeps
  <1> QED  BY <1>1, <1>2 DEF Schedule

-----------------------------------------------------------------------------
(* The cache. *)

Entries == [item : Items, state : {"scheduled", "drawing", "ready"},
            bitmap : Fonts \cup {NoBitmap}, held : BOOLEAN]

One(c) == \A k, l \in DOMAIN c : k # l => c[k].item # c[l].item

Caches == {c \in Seq(Entries) : One(c)}

LEMMA CacheIs ==
    ASSUME NEW c \in Caches
    PROVE  /\ c \in Seq(Entries) /\ Range(c) \subseteq Entries /\ Len(c) \in Nat
           /\ \A x, y \in Range(c) : x.item = y.item => x = y
           /\ \A i : Has(c, i) <=> \E x \in Range(c) : x.item = i
           /\ \A i : Has(c, i) => /\ Find(c, i) \in 1 .. Len(c) /\ c[Find(c, i)].item = i
                                 /\ Entry(c, i) \in Range(c) /\ Entry(c, i).item = i
  <1>1. c \in Seq(Entries) /\ One(c)
    BY DEF Caches
  <1>2. Range(c) \subseteq Entries /\ Len(c) \in Nat /\ DOMAIN c = 1 .. Len(c)
    BY <1>1, RangeIs
  <1>3. \A x, y \in Range(c) : x.item = y.item => x = y
    BY <1>1, <1>2, RangeIs DEF One
  <1>4. \A i : Has(c, i) <=> \E x \in Range(c) : x.item = i
    BY <1>1, <1>2, RangeIs DEF Has
  <1>5. ASSUME NEW i, Has(c, i)
        PROVE  /\ Find(c, i) \in 1 .. Len(c) /\ c[Find(c, i)].item = i
               /\ Entry(c, i) \in Range(c) /\ Entry(c, i).item = i
    <2>1. \E k \in DOMAIN c : c[k].item = i
      BY <1>5 DEF Has
    <2>2. Find(c, i) \in DOMAIN c /\ c[Find(c, i)].item = i
      BY <2>1 DEF Find
    <2>3. Entry(c, i) = c[Find(c, i)]
      BY DEF Entry
    <2> QED  BY <1>1, <1>2, <2>2, <2>3, RangeIs
  <1> QED  BY <1>1, <1>2, <1>3, <1>4, <1>5

LEMMA RemovedKeeps ==
    ASSUME NEW c \in Caches, NEW i
    PROVE  /\ Removed(c, i) \in Caches
           /\ Range(Removed(c, i)) = {x \in Range(c) : x.item # i}
           /\ Len(Removed(c, i)) = IF Has(c, i) THEN Len(c) - 1 ELSE Len(c)
  <1>1. CASE ~ Has(c, i)
    <2>1. Removed(c, i) = c
      BY <1>1 DEF Removed
    <2> QED  BY <1>1, <2>1, CacheIs
  <1>2. CASE Has(c, i)
    <2> DEFINE at == Find(c, i)
               r == RemoveAt(c, at)
    <2>1. Removed(c, i) = r
      BY <1>2 DEF Removed
    <2>2. at \in 1 .. Len(c) /\ c[at].item = i /\ c \in Seq(Entries) /\ Len(c) \in Nat
      BY <1>2, CacheIs
    <2> HIDE DEF at
    <2>3. /\ r \in Seq(Entries) /\ Len(r) = Len(c) - 1
          /\ \A k \in 1 .. Len(c) - 1 : r[k] = IF k < at THEN c[k] ELSE c[k + 1]
          /\ Range(r) = {c[k] : k \in (1 .. Len(c)) \ {at}}
      BY <2>2, RemoveAtKeeps
    <2>4. \A k, l \in 1 .. Len(c) : k # l => c[k].item # c[l].item
      BY <2>2 DEF Caches, One
    <2>5. Range(r) = {x \in Range(c) : x.item # i}
      <3>1. Range(c) = {c[k] : k \in 1 .. Len(c)}
        BY <2>2, RangeIs
      <3> QED  BY <3>1, <2>2, <2>3, <2>4
    <2> HIDE DEF r
    <2>6. One(r)
      <3>1. DOMAIN r = 1 .. Len(c) - 1
        BY <2>3
      <3>2. SUFFICES ASSUME NEW k \in 1 .. Len(c) - 1, NEW l \in 1 .. Len(c) - 1, k # l
                     PROVE  r[k].item # r[l].item
        BY <3>1 DEF One
      <3>3. k \in 1 .. Len(c) /\ k + 1 \in 1 .. Len(c) /\ l \in 1 .. Len(c) /\ l + 1 \in 1 .. Len(c)
        BY <2>2
      <3> DEFINE p == IF k < at THEN k ELSE k + 1
                 q == IF l < at THEN l ELSE l + 1
      <3>4. r[k] = c[p] /\ r[l] = c[q]
        BY <2>3
      <3>5. p # q /\ p \in 1 .. Len(c) /\ q \in 1 .. Len(c)
        BY <2>2, <3>2, <3>3
      <3> QED  BY <3>4, <3>5, <2>4
    <2> QED  BY <1>2, <2>1, <2>3, <2>5, <2>6 DEF Caches
  <1> QED  BY <1>1, <1>2

LEMMA AppendEntryKeeps ==
    ASSUME NEW c \in Caches, NEW e \in Entries, ~ Has(c, e.item)
    PROVE  /\ Append(c, e) \in Caches /\ Len(Append(c, e)) = Len(c) + 1
           /\ Range(Append(c, e)) = Range(c) \cup {e}
  <1> DEFINE t == Append(c, e)
  <1>1. c \in Seq(Entries) /\ Len(c) \in Nat
    BY CacheIs
  <1>2. /\ t \in Seq(Entries) /\ Range(t) = Range(c) \cup {e}
    BY <1>1, AppendKeeps
  <1>3. /\ Len(t) = Len(c) + 1 /\ t[Len(c) + 1] = e
        /\ \A k \in 1 .. Len(c) : t[k] = c[k]
    BY <1>1
  <1> HIDE DEF t
  <1>4. One(t)
    <2>1. SUFFICES ASSUME NEW k \in 1 .. Len(c) + 1, NEW l \in 1 .. Len(c) + 1, k # l
                   PROVE  t[k].item # t[l].item
      BY <1>2, <1>3 DEF One
    <2>2. \A m \in 1 .. Len(c) : c[m].item # e.item
      BY <1>1 DEF Has
    <2>3. CASE k = Len(c) + 1
      BY <1>1, <1>3, <2>1, <2>2, <2>3
    <2>4. CASE l = Len(c) + 1
      BY <1>1, <1>3, <2>1, <2>2, <2>4
    <2>5. CASE k # Len(c) + 1 /\ l # Len(c) + 1
      <3>1. k \in 1 .. Len(c) /\ l \in 1 .. Len(c)
        BY <1>1, <2>5
      <3>2. c[k].item # c[l].item
        BY <1>1, <2>1, <3>1 DEF Caches, One
      <3> QED  BY <3>1, <3>2, <1>3
    <2> QED  BY <2>3, <2>4, <2>5
  <1>5. t \in Caches
    BY <1>2, <1>4 DEF Caches
  <1> QED  BY <1>2, <1>3, <1>5 DEF t

LEMMA PutKeeps ==
    ASSUME NEW c \in Caches, NEW e \in Entries
    PROVE  /\ Put(c, e) \in Caches
           /\ Range(Put(c, e)) = {x \in Range(c) : x.item # e.item} \cup {e}
           /\ Len(Put(c, e)) = IF Has(c, e.item) THEN Len(c) ELSE Len(c) + 1
  <1> DEFINE r == Removed(c, e.item)
  <1>1. /\ r \in Caches /\ Range(r) = {x \in Range(c) : x.item # e.item}
        /\ Len(r) = IF Has(c, e.item) THEN Len(c) - 1 ELSE Len(c)
    BY RemovedKeeps
  <1>2. Put(c, e) = Append(r, e)
    BY DEF Put
  <1> HIDE DEF r
  <1>3. ~ Has(r, e.item) /\ Len(c) \in Nat
    BY <1>1, CacheIs
  <1>4. /\ Append(r, e) \in Caches /\ Len(Append(r, e)) = Len(r) + 1
        /\ Range(Append(r, e)) = Range(r) \cup {e}
    BY <1>1, <1>3, AppendEntryKeeps
  <1>5. Len(Put(c, e)) = IF Has(c, e.item) THEN Len(c) ELSE Len(c) + 1
    <2> DEFINE n == Len(c)
    <2> HIDE DEF n
    <2>1. Len(Put(c, e)) = (IF Has(c, e.item) THEN n - 1 ELSE n) + 1 /\ n \in Nat
      BY <1>1, <1>2, <1>3, <1>4 DEF n
    <2>2. Len(Put(c, e)) = IF Has(c, e.item) THEN n ELSE n + 1
      BY <2>1
    <2> QED  BY <2>2 DEF n
  <1> QED  BY <1>1, <1>2, <1>4, <1>5

LEMMA GetItemKeeps ==
    ASSUME NEW c \in Caches, NEW i
    PROVE  /\ GetItem(c, i) \in Caches /\ Range(GetItem(c, i)) = Range(c)
           /\ Len(GetItem(c, i)) = Len(c)
           /\ Has(GetItem(c, i), i) <=> Has(c, i)
           /\ Has(c, i) => Entry(GetItem(c, i), i) = Entry(c, i)
  <1>1. CASE ~ Has(c, i)
    <2>1. GetItem(c, i) = c
      BY <1>1 DEF GetItem
    <2> QED  BY <1>1, <2>1
  <1>2. CASE Has(c, i)
    <2> DEFINE e == Entry(c, i)
               g == GetItem(c, i)
    <2>1. g = Put(c, e)
      BY <1>2 DEF GetItem
    <2>2. /\ e \in Range(c) /\ e.item = i /\ e \in Entries
          /\ \A x, y \in Range(c) : x.item = y.item => x = y
      BY <1>2, CacheIs
    <2> HIDE DEF e, g
    <2>3. /\ g \in Caches /\ Range(g) = {x \in Range(c) : x.item # e.item} \cup {e}
          /\ Len(g) = Len(c)
      BY <1>2, <2>1, <2>2, PutKeeps
    <2>4. Range(g) = Range(c)
      BY <2>2, <2>3
    <2>5. Has(g, i)
      BY <2>2, <2>3, <2>4, CacheIs
    <2>6. Entry(g, i) = e
      BY <2>2, <2>3, <2>4, <2>5, CacheIs
    <2> QED  BY <1>2, <2>3, <2>4, <2>5, <2>6 DEF e, g
  <1> QED  BY <1>1, <1>2

\* The entry that is evicted is the first; what is left has one entry for an item.
LEMMA TailEntryKeeps ==
    ASSUME NEW c \in Caches, c # <<>>
    PROVE  /\ Tail(c) \in Caches /\ Len(Tail(c)) = Len(c) - 1
           /\ c[1] \in Range(c) /\ Range(Tail(c)) = {x \in Range(c) : x.item # c[1].item}
  <1>1. c \in Seq(Entries) /\ Len(c) \in Nat
    BY CacheIs
  <1>2. /\ Tail(c) \in Seq(Entries) /\ Len(c) >= 1 /\ Len(Tail(c)) = Len(c) - 1
        /\ \A k \in 1 .. Len(c) - 1 : Tail(c)[k] = c[k + 1]
        /\ Range(c) = Range(Tail(c)) \cup {Head(c)} /\ Head(c) = c[1]
    BY <1>1, TailKeeps
  <1> DEFINE t == Tail(c)
  <1> HIDE DEF t
  <1>3. One(t)
    <2>1. SUFFICES ASSUME NEW k \in 1 .. Len(c) - 1, NEW l \in 1 .. Len(c) - 1, k # l
                   PROVE  t[k].item # t[l].item
      BY <1>2 DEF One, t
    <2>2. k + 1 \in 1 .. Len(c) /\ l + 1 \in 1 .. Len(c) /\ k + 1 # l + 1
      BY <1>1, <2>1
    <2>3. c[k + 1].item # c[l + 1].item
      BY <1>1, <2>2 DEF Caches, One
    <2> QED  BY <1>2, <2>3 DEF t
  <1>4. ASSUME NEW x \in Range(t)  PROVE x.item # c[1].item
    <2> DEFINE n == Len(c) - 1
    <2> HIDE DEF n
    <2>0. t \in Seq(Entries) /\ Len(t) = n
      BY <1>2 DEF t, n
    <2>1. PICK k \in 1 .. n : t[k] = x
      BY <2>0, RangeIs
    <2>2. k + 1 \in 1 .. Len(c) /\ 1 \in 1 .. Len(c) /\ k + 1 # 1 /\ x = c[k + 1]
      BY <1>1, <1>2, <2>1 DEF t, n
    <2>3. \A k1, l1 \in 1 .. Len(c) : k1 # l1 => c[k1].item # c[l1].item
      BY <1>1 DEF Caches, One
    <2>4. c[k + 1].item # c[1].item
      BY <2>2, <2>3
    <2> QED  BY <2>2, <2>4
  <1> QED  BY <1>1, <1>2, <1>3, <1>4 DEF t, Caches

-----------------------------------------------------------------------------
(* The invariant. *)

QueueNames == {"check", "scan", "ready"}
GuiTasks == {<<"check">>, <<"scan">>} \cup ({"loaded", "missing"} \X Items)
Paintings == [item : Items, found : BOOLEAN, bitmap : Fonts \cup {NoBitmap}, recycled : BOOLEAN]
Drawings == [item : Items, font : Fonts, set : BOOLEAN]
Shown == {"no", "title", "blank"} \cup Fonts

Types ==
    /\ kind \in [Items -> Kinds]
    /\ cache \in Caches /\ Len(cache) <= MaxSize
    /\ queues \in [QueueNames -> Seq(Items)] /\ \A q \in QueueNames : IsInjective(queues[q])
    /\ gui \in Seq(GuiTasks) /\ notifying \in BOOLEAN
    /\ painting \in {Nothing} \cup Paintings
    /\ database \in Seq(Items) /\ downloads \in Seq(Items)
    /\ background \in Seq({"scan", "draw"} \X Items)
    /\ drawing \in {Nothing} \cup Drawings
    /\ font \in Fonts
    /\ views \in [Items -> [shown : Shown, dirty : BOOLEAN, lost : BOOLEAN]]

\* The views of i will hear of it.
Told(i) == notifying /\ i \in Range(queues["ready"])
Painted(i) == painting # Nothing /\ painting.item = i
DrawnNow(i) == drawing # Nothing /\ drawing.item = i
Ordered(i) == \E e \in Range(cache) : e.item = i /\ e.state = "scheduled"

\* A task of the GUI thread takes what is queued.
GuiOK == \A q \in {"check", "scan"} : Range(queues[q]) # {} => <<q>> \in Range(gui)

EntryFine(e) ==
    /\ e.state = "ready" => e.bitmap # NoBitmap
    /\ e.bitmap \in {NoBitmap, font}
    /\ e.held => DrawnNow(e.item) /\ drawing.font = font
    /\ e.held /\ drawing.set => e.bitmap # NoBitmap
    /\ e.state = "scheduled" => <<"draw", e.item>> \in Range(background)
    /\ e.state = "drawing" => e.held \/ views[e.item].lost
    /\ e.state = "ready" /\ Painted(e.item) /\ ~ painting.found => Told(e.item)

EntryOK == \A e \in Range(cache) : EntryFine(e)

PaintOK ==
    painting # Nothing /\ painting.found =>
        IF painting.recycled
        THEN views[painting.item].lost \/ Told(painting.item) \/ DrawnNow(painting.item)
        ELSE painting.bitmap = font

\* Something will have the view of i drawn, or it is being drawn.
Pending(i) ==
    \/ views[i].dirty \/ Painted(i) \/ Told(i) \/ Ordered(i) \/ DrawnNow(i)
    \/ i \in Range(queues["check"]) \/ i \in Range(queues["scan"])
    \/ i \in Range(database) \/ i \in Range(downloads)
    \/ <<"loaded", i>> \in Range(gui) \/ <<"missing", i>> \in Range(gui)
    \/ <<"scan", i>> \in Range(background)

ViewOK == \A i \in Items : views[i].shown \in {"no", font} \/ views[i].lost \/ Pending(i)

IInv == Types /\ GuiOK /\ EntryOK /\ PaintOK /\ ViewOK

BackgroundTasks == {"scan", "draw"} \X Items

LEMMA InitOK == Init => IInv
  <1> SUFFICES ASSUME Init  PROVE IInv
    OBVIOUS
  <1>1. cache \in Caches /\ Len(cache) <= MaxSize
    BY CoverPagesAssumption DEF Init, Caches, One
  <1>2. /\ queues \in [QueueNames -> Seq(Items)]
        /\ \A q \in QueueNames : queues[q] = <<>>
    <2>1. queues = [q \in QueueNames |-> <<>>] /\ <<>> \in Seq(Items)
      BY DEF Init, QueueNames
    <2> QED  BY <2>1
  <1>3. \A q \in QueueNames : IsInjective(queues[q])
    BY <1>2 DEF IsInjective
  <1>4. views \in [Items -> [shown : Shown, dirty : BOOLEAN, lost : BOOLEAN]]
    BY DEF Init, Shown
  <1>5. Types
    <2>1. /\ gui \in Seq(GuiTasks) /\ database \in Seq(Items) /\ downloads \in Seq(Items)
          /\ background \in Seq({"scan", "draw"} \X Items)
      BY DEF Init
    <2>2. painting = Nothing /\ drawing = Nothing /\ notifying \in BOOLEAN /\ font \in Fonts
      BY DEF Init, Fonts
    <2>3. kind \in [Items -> Kinds]
      BY DEF Init
    <2> QED  BY <1>1, <1>2, <1>3, <1>4, <2>1, <2>2, <2>3 DEF Types
  <1>6. GuiOK /\ EntryOK
    BY <1>2, EmptyRange DEF Init, GuiOK, EntryOK, QueueNames
  <1>7. PaintOK /\ ViewOK
    BY DEF Init, PaintOK, ViewOK
  <1> QED  BY <1>5, <1>6, <1>7 DEF IInv

LEMMA PaintingIsOne == \A p \in Paintings : p # Nothing
  <1>1. \A p \in Paintings : "item" \in DOMAIN p
    BY DEF Paintings
  <1>2. "item" \notin DOMAIN Nothing
    BY DEF Nothing
  <1> QED  BY <1>1, <1>2

\* Recycled marks the painting, if it is of one of the items and has a bitmap.
LEMMA RecycledKeeps ==
    ASSUME painting \in {Nothing} \cup Paintings, NEW gone, Recycled(gone)
    PROVE  /\ painting' \in {Nothing} \cup Paintings
           /\ painting = Nothing => painting' = Nothing
           /\ painting # Nothing => /\ painting' # Nothing /\ painting'.item = painting.item
                                    /\ painting'.found = painting.found
                                    /\ painting'.bitmap = painting.bitmap
                                    /\ painting'.recycled <=>
                                           \/ painting.recycled
                                           \/ painting.found /\ painting.item \in gone
  <1>1. CASE painting = Nothing
    <2>1. painting' = painting
      BY <1>1 DEF Recycled
    <2> QED  BY <1>1, <2>1
  <1>2. CASE painting # Nothing
    <2>1. painting \in Paintings
      BY <1>2
    <2>2. CASE painting.item \in gone /\ painting.found
      <3>1. painting' = [painting EXCEPT !.recycled = TRUE]
        BY <1>2, <2>2 DEF Recycled
      <3>2. /\ painting' \in Paintings
            /\ painting'.item = painting.item /\ painting'.found = painting.found
            /\ painting'.bitmap = painting.bitmap /\ painting'.recycled = TRUE
        BY <2>1, <3>1 DEF Paintings
      <3>3. painting' # Nothing
        BY <3>2, PaintingIsOne
      <3> QED  BY <1>2, <2>2, <3>2, <3>3
    <2>3. CASE ~(painting.item \in gone /\ painting.found)
      <3>1. painting' = painting
        BY <2>3 DEF Recycled
      <3> QED  BY <1>2, <2>1, <2>3, <3>1
    <2> QED  BY <2>2, <2>3
  <1> QED  BY <1>1, <1>2

\* What coverpageLoaded does to the cache: the item is to be drawn, and who loses its entry
\* while it was to be drawn or painted loses its request.
LEMMA LoadedKeeps ==
    ASSUME Types, EntryOK, PaintOK, NEW i \in Items, NEW tasks \in Seq(BackgroundTasks),
           \A e \in Range(cache) : e.state = "scheduled" => <<"draw", e.item>> \in Range(tasks),
           CoverpageLoaded(i, tasks), UNCHANGED <<notifying, drawing, font>>,
           queues'["ready"] = queues["ready"]
    PROVE  /\ cache' \in Caches /\ Len(cache') <= MaxSize
           /\ background' \in Seq(BackgroundTasks)
           /\ Range(background') = Range(tasks) \cup {<<"draw", i>>}
           /\ painting' \in {Nothing} \cup Paintings
           /\ views' \in [Items -> [shown : Shown, dirty : BOOLEAN, lost : BOOLEAN]]
           /\ EntryOK' /\ PaintOK' /\ Ordered(i)'
           /\ \A v \in Items : /\ views'[v].shown = views[v].shown
                               /\ views[v].dirty => views'[v].dirty
                               /\ views[v].lost => views'[v].lost
                               /\ Ordered(v) => Ordered(v)' \/ views'[v].lost
                               /\ Painted(v) => Painted(v)'
  <1>1. /\ cache \in Caches /\ Len(cache) <= MaxSize /\ Range(cache) \subseteq Entries
        /\ Len(cache) \in Nat /\ MaxSize \in Nat \ {0}
        /\ \A x, y \in Range(cache) : x.item = y.item => x = y
        /\ \A v : Has(cache, v) <=> \E x \in Range(cache) : x.item = v
        /\ \A v : Has(cache, v) => Entry(cache, v) \in Range(cache) /\ Entry(cache, v).item = v
    BY CacheIs, CoverPagesAssumption DEF Types
  <1>2. /\ background' \in Seq(BackgroundTasks)
        /\ Range(background') = Range(tasks) \cup {<<"draw", i>>}
    <2>1. <<"draw", i>> \in BackgroundTasks /\ background' = Append(tasks, <<"draw", i>>)
      BY DEF BackgroundTasks, CoverpageLoaded
    <2> QED  BY <2>1, AppendKeeps
  <1>3. CASE Has(cache, i)
    <2>1. PICK e \in Entries : e = Entry(cache, i) /\ e \in Range(cache) /\ e.item = i
      BY <1>1, <1>3
    <2>2. PICK n \in Entries : n = [e EXCEPT !.state = "scheduled"]
      BY <2>1 DEF Entries
    <2>3. /\ n.item = i /\ n.state = "scheduled" /\ n.bitmap = e.bitmap /\ n.held = e.held
          /\ cache' = Put(cache, n) /\ painting' = painting /\ views' = views
      <3>1. n.item = i /\ n.state = "scheduled" /\ n.bitmap = e.bitmap /\ n.held = e.held
        BY <2>1, <2>2 DEF Entries
      <3>2. cache' = Put(cache, n) /\ painting' = painting /\ views' = views
        BY <1>3, <2>1, <2>2 DEF CoverpageLoaded
      <3> QED  BY <3>1, <3>2
    <2>4. /\ cache' \in Caches /\ Len(cache') = Len(cache)
          /\ Range(cache') = {x \in Range(cache) : x.item # i} \cup {n}
      BY <1>1, <1>3, <2>3, PutKeeps
    <2>5. EntryOK'
      <3>1. EntryFine(n)'
        <4>1. EntryFine(e)
          BY <2>1 DEF EntryOK
        <4> QED  BY <1>2, <2>1, <2>3, <4>1 DEF EntryFine, DrawnNow
      <3>2. ASSUME NEW x \in Range(cache)  PROVE EntryFine(x)'
        <4>1. EntryFine(x)
          BY DEF EntryOK
        <4> QED  BY <1>2, <2>3, <4>1 DEF EntryFine, DrawnNow, Painted, Told
      <3> QED  BY <2>4, <3>1, <3>2 DEF EntryOK
    <2>6. PaintOK'
      BY <1>2, <2>3 DEF PaintOK, Told, DrawnNow
    <2>7. Ordered(i)' /\ \A v \in Items : Ordered(v) => Ordered(v)'
      BY <2>3, <2>4 DEF Ordered
    <2>8. \A v : Painted(v) => Painted(v)'
      BY <2>3 DEF Painted
    <2> QED  BY <1>1, <1>2, <2>3, <2>4, <2>5, <2>6, <2>7, <2>8 DEF Types
  <1>4. CASE ~ Has(cache, i)
    <2> DEFINE gone == Evicted(cache)
               rest == IF gone = {} THEN cache ELSE Tail(cache)
               n == NewEntry(i)
    <2>1. /\ cache' = Append(rest, n) /\ Recycled(gone)
          /\ views' = [v \in Items |->
                [views[v] EXCEPT !.lost = @ \/ /\ v \in gone
                                               /\ \/ cache[1].state = "scheduled"
                                                  \/ painting # Nothing /\ painting.item = v]]
      BY <1>4 DEF CoverpageLoaded
    <2>2. /\ n \in Entries /\ n.item = i /\ n.state = "scheduled"
          /\ n.bitmap = NoBitmap /\ n.held = FALSE
      BY DEF Entries, NewEntry
    <2> HIDE DEF n
    <2>3. /\ rest \in Caches /\ Len(rest) + 1 <= MaxSize
          /\ Range(rest) = {x \in Range(cache) : x.item \notin gone}
          /\ gone # {} => cache[1] \in Range(cache) /\ gone = {cache[1].item}
      <3>1. CASE Len(cache) < MaxSize
        BY <1>1, <3>1 DEF Evicted
      <3>2. CASE ~(Len(cache) < MaxSize)
        <4>1. gone = {cache[1].item}
          BY <3>2 DEF Evicted
        <4>2. cache # <<>>
          BY <1>1, <3>2
        <4>3. /\ Tail(cache) \in Caches /\ Len(Tail(cache)) = Len(cache) - 1
              /\ cache[1] \in Range(cache)
              /\ Range(Tail(cache)) = {x \in Range(cache) : x.item # cache[1].item}
          BY <1>1, <4>2, TailEntryKeeps
        <4>4. rest = Tail(cache)
          BY <4>1
        <4>5. Len(rest) + 1 <= MaxSize
          BY <4>3, <4>4, <1>1
        <4> QED  BY <4>1, <4>3, <4>4, <4>5
      <3> QED  BY <3>1, <3>2
    <2> HIDE DEF gone, rest
    <2>4. /\ cache' \in Caches /\ Len(cache') <= MaxSize
          /\ Range(cache') = {x \in Range(cache) : x.item \notin gone} \cup {n}
      <3>1. ~ Has(rest, n.item)
        BY <1>1, <1>4, <2>2, <2>3, CacheIs
      <3>2. /\ Append(rest, n) \in Caches /\ Len(Append(rest, n)) = Len(rest) + 1
            /\ Range(Append(rest, n)) = Range(rest) \cup {n}
        BY <2>2, <2>3, <3>1, AppendEntryKeeps
      <3> QED  BY <2>1, <2>3, <3>2
    <2>5. /\ views' \in [Items -> [shown : Shown, dirty : BOOLEAN, lost : BOOLEAN]]
          /\ \A v \in Items :
                /\ views'[v].shown = views[v].shown /\ views'[v].dirty = views[v].dirty
                /\ views'[v].lost <=>
                      \/ views[v].lost
                      \/ v \in gone /\ (cache[1].state = "scheduled" \/ Painted(v))
      BY <2>1 DEF Types, Painted
    <2>6. /\ painting' \in {Nothing} \cup Paintings
          /\ painting = Nothing => painting' = Nothing
          /\ painting # Nothing => /\ painting' # Nothing /\ painting'.item = painting.item
                                   /\ painting'.found = painting.found
                                   /\ painting'.bitmap = painting.bitmap
                                   /\ painting'.recycled <=>
                                          \/ painting.recycled
                                          \/ painting.found /\ painting.item \in gone
      BY <2>1, RecycledKeeps DEF Types
    <2>7. EntryOK'
      <3>1. EntryFine(n)'
        BY <1>2, <2>2 DEF EntryFine
      <3>2. ASSUME NEW e \in Range(cache), e.item \notin gone  PROVE EntryFine(e)'
        <4>1. EntryFine(e)
          BY DEF EntryOK
        <4>2. e.item \in Items
          BY <1>1 DEF Entries
        <4> QED  BY <1>2, <2>5, <2>6, <4>1, <4>2 DEF EntryFine, DrawnNow, Painted, Told
      <3> QED  BY <2>4, <3>1, <3>2 DEF EntryOK
    <2>8. PaintOK'
      BY <1>2, <2>5, <2>6 DEF PaintOK, Told, DrawnNow, Types, Painted, Paintings
    <2>9. Ordered(i)' /\ \A v \in Items : Ordered(v) => Ordered(v)' \/ views'[v].lost
      BY <1>1, <2>2, <2>3, <2>4, <2>5 DEF Ordered
    <2>10. \A v : Painted(v) => Painted(v)'
      BY <2>6 DEF Painted
    <2> QED  BY <1>2, <2>4, <2>5, <2>6, <2>7, <2>8, <2>9, <2>10
  <1> QED  BY <1>3, <1>4

LEMMA DrawViewOK == ASSUME IInv, NEW i \in Items, DrawView(i)  PROVE IInv'
  <1>1. Types /\ GuiOK /\ EntryOK /\ ViewOK /\ painting = Nothing
    BY DEF IInv, DrawView, Event
  <1>2. /\ cache \in Caches /\ Range(cache) \subseteq Entries
        /\ \A x, y \in Range(cache) : x.item = y.item => x = y
        /\ Has(cache, i) <=> \E x \in Range(cache) : x.item = i
        /\ Has(cache, i) => Entry(cache, i) \in Range(cache) /\ Entry(cache, i).item = i
    BY <1>1, CacheIs DEF Types
  <1>3. cache' \in Caches /\ Range(cache') = Range(cache) /\ Len(cache') = Len(cache)
    BY <1>2, GetItemKeeps DEF DrawView
  <1>4. PICK bmp \in Fonts \cup {NoBitmap} :
           bmp = IF Has(cache, i) THEN Entry(cache, i).bitmap ELSE NoBitmap
    BY <1>2 DEF Entries
  <1>5. painting' = [item |-> i, found |-> bmp # NoBitmap, bitmap |-> bmp, recycled |-> FALSE]
    BY <1>4 DEF DrawView
  <1>6. /\ painting' \in Paintings /\ painting' # Nothing
        /\ painting'.item = i /\ painting'.found = (bmp # NoBitmap)
        /\ painting'.bitmap = bmp /\ painting'.recycled = FALSE
    BY <1>5, PaintingIsOne DEF Paintings
  <1>7. /\ views' = [views EXCEPT ![i].dirty = FALSE]
        /\ UNCHANGED <<kind, queues, gui, notifying, database, downloads, background, drawing, font>>
    BY DEF DrawView
  <1>8. /\ views' \in [Items -> [shown : Shown, dirty : BOOLEAN, lost : BOOLEAN]]
        /\ \A v \in Items : views'[v].lost = views[v].lost
        /\ \A v \in Items \ {i} : views'[v] = views[v]
    BY <1>1, <1>7 DEF Types
  <1>9. Types'
    BY <1>1, <1>3, <1>6, <1>7, <1>8 DEF Types
  <1>10. GuiOK'
    BY <1>1, <1>7 DEF GuiOK
  <1>11. EntryOK'
    <2>1. SUFFICES ASSUME NEW e \in Range(cache)  PROVE EntryFine(e)'
      BY <1>3 DEF EntryOK
    <2>2. EntryFine(e) /\ e.item \in Items
      BY <1>1, <1>2 DEF EntryOK, Entries
    <2>3. ~(e.state = "ready" /\ Painted(e.item)' /\ ~ painting'.found)
      <3>1. SUFFICES ASSUME e.state = "ready", e.item = i  PROVE bmp # NoBitmap
        BY <1>6 DEF Painted
      <3>2. Entry(cache, i) = e /\ Has(cache, i)
        BY <1>2, <3>1
      <3> QED  BY <1>4, <2>2, <3>1, <3>2 DEF EntryFine
    <2> QED  BY <1>7, <1>8, <2>2, <2>3 DEF EntryFine, DrawnNow
  <1>12. PaintOK'
    <2>1. bmp # NoBitmap => bmp = font
      BY <1>1, <1>2, <1>4 DEF EntryOK, EntryFine
    <2> QED  BY <1>6, <1>7, <2>1 DEF PaintOK
  <1>13. ViewOK'
    <2>1. Painted(i)'
      BY <1>6 DEF Painted
    <2>2. ASSUME NEW v \in Items \ {i}, Pending(v)  PROVE Pending(v)'
      <3>1. ~ Painted(v)
        BY <1>1 DEF Painted
      <3>2. Ordered(v)' <=> Ordered(v)
        BY <1>3 DEF Ordered
      <3> QED  BY <1>7, <1>8, <2>2, <3>1, <3>2 DEF Pending, Told, DrawnNow
    <2>3. font' = font
      BY <1>7
    <2> QED  BY <1>1, <1>8, <2>1, <2>2, <2>3 DEF ViewOK, Pending
  <1> QED  BY <1>9, <1>10, <1>11, <1>12, <1>13 DEF IInv

\* Steps that leave the cache, the view that is painted and what is drawn alone: entries
\* and the painting stay right as long as the views are told and requests are not forgotten.
LEMMA CacheStays ==
    ASSUME Types, EntryOK, PaintOK, UNCHANGED <<cache, painting, drawing, font>>,
           \A v \in Items : Painted(v) /\ Told(v) => Told(v)',
           \A v \in Items : views[v].lost => views'[v].lost,
           \A v \in Items : <<"draw", v>> \in Range(background) => <<"draw", v>> \in Range(background')
    PROVE  EntryOK' /\ PaintOK'
  <1>1. Range(cache) \subseteq Entries
    BY CacheIs DEF Types
  <1>2. ASSUME NEW e \in Range(cache)  PROVE EntryFine(e)'
    <2>1. EntryFine(e) /\ e.item \in Items
      BY <1>1 DEF EntryOK, Entries
    <2>2. /\ e.state = "ready" => e.bitmap # NoBitmap
          /\ e.bitmap \in {NoBitmap, font'}
          /\ e.held => DrawnNow(e.item)' /\ drawing'.font = font'
          /\ e.held /\ drawing'.set => e.bitmap # NoBitmap
      BY <2>1 DEF EntryFine, DrawnNow
    <2>3. /\ e.state = "scheduled" => <<"draw", e.item>> \in Range(background')
          /\ e.state = "drawing" => e.held \/ views'[e.item].lost
      BY <2>1 DEF EntryFine
    <2>4. e.state = "ready" /\ Painted(e.item)' /\ ~ painting'.found => Told(e.item)'
      BY <2>1 DEF EntryFine, Painted
    <2> QED  BY <2>2, <2>3, <2>4 DEF EntryFine
  <1>3. EntryOK'
    BY <1>2 DEF EntryOK
  <1>4. ASSUME painting # Nothing, painting.found
        PROVE  IF painting.recycled
               THEN \/ views'[painting.item].lost \/ Told(painting.item)'
                    \/ DrawnNow(painting.item)'
               ELSE painting.bitmap = font
    <2>1. painting.item \in Items
      BY <1>4 DEF Types, Paintings
    <2> QED  BY <1>4, <2>1 DEF PaintOK, Painted, DrawnNow
  <1>5. PaintOK'
    BY <1>4 DEF PaintOK
  <1> QED  BY <1>3, <1>5

LEMMA GuiScheduleKeeps ==
    ASSUME NEW g \in Seq(GuiTasks), NEW task \in {"check", "scan"}
    PROVE  /\ Schedule(g, task) \in Seq(GuiTasks)
           /\ Range(Schedule(g, task)) = Range(g) \cup {<<task>>}
  <1>1. <<task>> \in GuiTasks
    BY DEF GuiTasks
  <1> QED  BY <1>1, ScheduleKeeps

LEMMA CheckTaskOK == ASSUME IInv, CheckTask  PROVE IInv'
  <1>1. Types /\ GuiOK /\ EntryOK /\ PaintOK /\ ViewOK
    BY DEF IInv
  <1>2. /\ gui \in Seq(GuiTasks) /\ gui # <<>> /\ Head(gui)[1] = "check" /\ painting = Nothing
        /\ UNCHANGED <<kind, cache, notifying, painting, downloads, background, drawing, font, views>>
    BY <1>1 DEF Types, CheckTask, Task
  <1>3. /\ Tail(gui) \in Seq(GuiTasks) /\ Head(gui) \in GuiTasks
        /\ Range(gui) = Range(Tail(gui)) \cup {Head(gui)}
    BY <1>2, TailKeeps
  <1>4. \A i : <<"loaded", i>> # Head(gui) /\ <<"missing", i>> # Head(gui) /\ <<"scan">> # Head(gui)
    BY <1>2
  <1>5. /\ queues' \in [QueueNames -> Seq(Items)] /\ \A q \in QueueNames : IsInjective(queues'[q])
        /\ gui' \in Seq(GuiTasks) /\ database' \in Seq(Items)
        /\ queues'["scan"] = queues["scan"] /\ queues'["ready"] = queues["ready"]
        /\ Range(Tail(gui)) \subseteq Range(gui')
        /\ Range(queues'["check"]) # {} => <<"check">> \in Range(gui')
        /\ Range(database) \subseteq Range(database')
        /\ Range(queues["check"]) \subseteq Range(queues'["check"]) \cup Range(database')
    <2>1. CASE queues["check"] = <<>>
      <3>1. UNCHANGED <<queues, database>> /\ gui' = Tail(gui)
        BY <2>1 DEF CheckTask
      <3>2. Range(queues["check"]) = {}
        BY <2>1, EmptyRange
      <3> QED  BY <1>1, <1>3, <3>1, <3>2 DEF Types
    <2>2. CASE queues["check"] # <<>>
      <3> DEFINE q == queues["check"]
      <3>1. q \in Seq(Items) /\ IsInjective(q) /\ q # <<>> /\ database \in Seq(Items)
        BY <1>1, <2>2 DEF Types, QueueNames
      <3>2. /\ Tail(q) \in Seq(Items) /\ Head(q) \in Items /\ IsInjective(Tail(q))
            /\ Range(q) = Range(Tail(q)) \cup {Head(q)}
        BY <3>1, TailKeeps
      <3>3. /\ queues' = [queues EXCEPT !["check"] = Tail(q)] /\ database' = Append(database, Head(q))
            /\ gui' = Schedule(Tail(gui), "check")
        BY <2>2 DEF CheckTask
      <3> HIDE DEF q
      <3>4. /\ queues' \in [QueueNames -> Seq(Items)] /\ queues'["check"] = Tail(q)
            /\ \A r \in QueueNames \ {"check"} : queues'[r] = queues[r]
        BY <1>1, <3>2, <3>3 DEF Types, QueueNames
      <3>5. database' \in Seq(Items) /\ Range(database') = Range(database) \cup {Head(q)}
        BY <3>1, <3>2, <3>3, AppendKeeps
      <3>6. gui' \in Seq(GuiTasks) /\ Range(gui') = Range(Tail(gui)) \cup {<<"check">>}
        BY <1>3, <3>3, GuiScheduleKeeps
      <3>7. \A r \in QueueNames : IsInjective(queues'[r])
        BY <1>1, <3>2, <3>4 DEF Types
      <3>8. queues'["scan"] = queues["scan"] /\ queues'["ready"] = queues["ready"]
        BY <3>4 DEF QueueNames
      <3> QED  BY <3>2, <3>4, <3>5, <3>6, <3>7, <3>8 DEF q
    <2> QED  BY <2>1, <2>2
  <1>6. Types'
    BY <1>1, <1>2, <1>5 DEF Types
  <1>7. GuiOK'
    BY <1>1, <1>3, <1>4, <1>5 DEF GuiOK
  <1>8. EntryOK' /\ PaintOK'
    <2>1. \A v : Told(v) => Told(v)'
      BY <1>2, <1>5 DEF Told
    <2> QED  BY <1>1, <1>2, <2>1, CacheStays
  <1>9. ViewOK'
    <2>1. ASSUME NEW v \in Items, Pending(v)  PROVE Pending(v)'
      <3>1. <<"loaded", v>> \in Range(gui) => <<"loaded", v>> \in Range(gui')
        BY <1>3, <1>4, <1>5
      <3>2. <<"missing", v>> \in Range(gui) => <<"missing", v>> \in Range(gui')
        BY <1>3, <1>4, <1>5
      <3>3. (Told(v)' <=> Told(v)) /\ (Ordered(v)' <=> Ordered(v)) /\ (DrawnNow(v)' <=> DrawnNow(v))
        BY <1>2, <1>5 DEF Told, Ordered, DrawnNow
      <3>4. v \in Range(queues["check"]) => v \in Range(queues'["check"]) \/ v \in Range(database')
        BY <1>5
      <3> QED  BY <1>2, <1>5, <2>1, <3>1, <3>2, <3>3, <3>4 DEF Pending, Painted
    <2> QED  BY <1>1, <1>2, <2>1 DEF ViewOK
  <1> QED  BY <1>6, <1>7, <1>8, <1>9 DEF IInv

LEMMA AnswerOK == ASSUME IInv, NEW found \in BOOLEAN, Answer(found)  PROVE IInv'
  <1>1. Types /\ GuiOK /\ EntryOK /\ PaintOK /\ ViewOK
    BY DEF IInv
  <1>2. PICK op \in {"loaded", "missing"} : op = IF found THEN "loaded" ELSE "missing"
    OBVIOUS
  <1>3. /\ gui' = Append(gui, <<op, Head(database)>>) /\ database' = Tail(database)
        /\ database \in Seq(Items) /\ database # <<>> /\ gui \in Seq(GuiTasks)
        /\ UNCHANGED <<kind, cache, queues, notifying, painting, downloads, background, drawing,
                       font, views>>
    BY <1>1, <1>2 DEF Types, Answer
  <1>4. /\ database' \in Seq(Items) /\ Head(database) \in Items
        /\ Range(database) = Range(database') \cup {Head(database)}
    BY <1>3, TailKeeps
  <1>5. gui' \in Seq(GuiTasks) /\ Range(gui') = Range(gui) \cup {<<op, Head(database)>>}
    <2> DEFINE t == <<op, Head(database)>>
    <2>1. t \in GuiTasks
      BY <1>4 DEF GuiTasks
    <2>2. gui \in Seq(GuiTasks) /\ gui' = Append(gui, t)
      BY <1>3
    <2> HIDE DEF t
    <2>3. Append(gui, t) \in Seq(GuiTasks) /\ Range(Append(gui, t)) = Range(gui) \cup {t}
      BY <2>1, <2>2, AppendKeeps
    <2> QED  BY <2>2, <2>3 DEF t
  <1>6. Types'
    BY <1>1, <1>3, <1>4, <1>5 DEF Types
  <1>7. GuiOK'
    BY <1>1, <1>3, <1>5 DEF GuiOK
  <1>8. EntryOK' /\ PaintOK'
    <2>1. \A v : Told(v) => Told(v)'
      BY <1>3 DEF Told
    <2> QED  BY <1>1, <1>3, <2>1, CacheStays
  <1>9. ViewOK'
    <2>1. ASSUME NEW v \in Items, Pending(v)  PROVE Pending(v)'
      <3>1. v \in Range(database) => v \in Range(database') \/ <<op, v>> \in Range(gui')
        BY <1>4, <1>5
      <3>2. (Told(v)' <=> Told(v)) /\ (Ordered(v)' <=> Ordered(v)) /\ (DrawnNow(v)' <=> DrawnNow(v))
        BY <1>3 DEF Told, Ordered, DrawnNow
      <3> QED  BY <1>3, <1>5, <2>1, <3>1, <3>2 DEF Pending, Painted
    <2> QED  BY <1>1, <1>3, <2>1 DEF ViewOK
  <1> QED  BY <1>6, <1>7, <1>8, <1>9 DEF IInv

LEMMA DownloadOK == ASSUME IInv, Download  PROVE IInv'
  <1>1. Types /\ GuiOK /\ EntryOK /\ PaintOK /\ ViewOK
    BY DEF IInv
  <1>3. /\ gui' = Append(gui, <<"loaded", Head(downloads)>>) /\ downloads' = Tail(downloads)
        /\ downloads \in Seq(Items) /\ downloads # <<>> /\ gui \in Seq(GuiTasks)
        /\ UNCHANGED <<kind, cache, queues, notifying, painting, database, background, drawing,
                       font, views>>
    BY <1>1 DEF Types, Download
  <1>4. /\ downloads' \in Seq(Items) /\ Head(downloads) \in Items
        /\ Range(downloads) = Range(downloads') \cup {Head(downloads)}
    BY <1>3, TailKeeps
  <1>5. gui' \in Seq(GuiTasks) /\ Range(gui') = Range(gui) \cup {<<"loaded", Head(downloads)>>}
    <2> DEFINE t == <<"loaded", Head(downloads)>>
    <2>1. t \in GuiTasks
      BY <1>4 DEF GuiTasks
    <2>2. gui \in Seq(GuiTasks) /\ gui' = Append(gui, t)
      BY <1>3
    <2> HIDE DEF t
    <2>3. Append(gui, t) \in Seq(GuiTasks) /\ Range(Append(gui, t)) = Range(gui) \cup {t}
      BY <2>1, <2>2, AppendKeeps
    <2> QED  BY <2>2, <2>3 DEF t
  <1>6. Types'
    BY <1>1, <1>3, <1>4, <1>5 DEF Types
  <1>7. GuiOK'
    BY <1>1, <1>3, <1>5 DEF GuiOK
  <1>8. EntryOK' /\ PaintOK'
    <2>1. \A v : Told(v) => Told(v)'
      BY <1>3 DEF Told
    <2> QED  BY <1>1, <1>3, <2>1, CacheStays
  <1>9. ViewOK'
    <2>1. ASSUME NEW v \in Items, Pending(v)  PROVE Pending(v)'
      <3>1. v \in Range(downloads) => v \in Range(downloads') \/ <<"loaded", v>> \in Range(gui')
        BY <1>4, <1>5
      <3>2. (Told(v)' <=> Told(v)) /\ (Ordered(v)' <=> Ordered(v)) /\ (DrawnNow(v)' <=> DrawnNow(v))
        BY <1>3 DEF Told, Ordered, DrawnNow
      <3> QED  BY <1>3, <1>5, <2>1, <3>1, <3>2 DEF Pending, Painted
    <2> QED  BY <1>1, <1>3, <2>1 DEF ViewOK
  <1> QED  BY <1>6, <1>7, <1>8, <1>9 DEF IInv

\* The head of the tasks of the GUI thread.
LEMMA TaskIs ==
    ASSUME Types, NEW op, Task(op)
    PROVE  /\ painting = Nothing /\ Head(gui) \in GuiTasks /\ Head(gui)[1] = op
           /\ Tail(gui) \in Seq(GuiTasks) /\ Range(gui) = Range(Tail(gui)) \cup {Head(gui)}
           /\ op \in {"loaded", "missing"} => Head(gui)[2] \in Items /\ Head(gui) = <<op, Head(gui)[2]>>
  <1>1. gui \in Seq(GuiTasks) /\ gui # <<>> /\ painting = Nothing /\ Head(gui)[1] = op
    BY DEF Types, Task
  <1>2. /\ Head(gui) \in GuiTasks /\ Tail(gui) \in Seq(GuiTasks)
        /\ Range(gui) = Range(Tail(gui)) \cup {Head(gui)}
    BY <1>1, TailKeeps
  <1>3. ASSUME op \in {"loaded", "missing"}  PROVE Head(gui)[2] \in Items /\ Head(gui) = <<op, Head(gui)[2]>>
    <2>1. Head(gui) \in {"loaded", "missing"} \X Items
      BY <1>1, <1>2, <1>3 DEF GuiTasks
    <2> QED  BY <1>1, <2>1
  <1> QED  BY <1>1, <1>2, <1>3

LEMMA MissingOK == ASSUME IInv, Missing  PROVE IInv'
  <1>1. Types /\ GuiOK /\ EntryOK /\ PaintOK /\ ViewOK
    BY DEF IInv
  <1>2. PICK i \in Items : Head(gui) = <<"missing", i>> /\ Head(gui)[2] = i
    BY <1>1, TaskIs DEF Missing
  <1>3. /\ Tail(gui) \in Seq(GuiTasks) /\ Range(gui) = Range(Tail(gui)) \cup {<<"missing", i>>}
    BY <1>1, <1>2, TaskIs DEF Missing
  <1>4. /\ queues' = [queues EXCEPT !["scan"] = AddOnTop(queues["scan"], i)]
        /\ gui' = Schedule(Tail(gui), "scan")
        /\ UNCHANGED <<kind, cache, notifying, painting, database, downloads, background, drawing,
                       font, views>>
    BY <1>2 DEF Missing
  <1>5. gui' \in Seq(GuiTasks) /\ Range(gui') = Range(Tail(gui)) \cup {<<"scan">>}
    BY <1>3, <1>4, GuiScheduleKeeps
  <1> DEFINE q == queues["scan"]
             r == AddOnTop(q, i)
  <1>6. q \in Seq(Items) /\ IsInjective(q)
    BY <1>1 DEF Types, QueueNames
  <1>7. r \in Seq(Items) /\ IsInjective(r) /\ Range(r) = Range(q) \cup {i}
    BY <1>6, AddOnTopKeeps
  <1>8. /\ queues' \in [QueueNames -> Seq(Items)] /\ queues'["scan"] = r
        /\ queues'["check"] = queues["check"] /\ queues'["ready"] = queues["ready"]
        /\ \A p \in QueueNames : IsInjective(queues'[p])
    <2> HIDE DEF r
    <2>1. queues' = [queues EXCEPT !["scan"] = r]
      BY <1>4 DEF r
    <2> QED  BY <1>1, <1>7, <2>1 DEF Types, QueueNames
  <1> HIDE DEF r
  <1>9. Types'
    BY <1>1, <1>4, <1>5, <1>8 DEF Types
  <1>10. GuiOK'
    <2>1. <<"check">> \in Range(gui) => <<"check">> \in Range(gui')
      BY <1>3, <1>5
    <2>2. <<"scan">> \in Range(gui')
      BY <1>5
    <2> QED  BY <1>1, <1>8, <2>1, <2>2 DEF GuiOK
  <1>11. EntryOK' /\ PaintOK'
    <2>1. \A v : Told(v) => Told(v)'
      BY <1>4, <1>8 DEF Told
    <2> QED  BY <1>1, <1>4, <2>1, CacheStays
  <1>12. ViewOK'
    <2>1. ASSUME NEW v \in Items, Pending(v)  PROVE Pending(v)'
      <3>1. <<"missing", v>> \in Range(gui) => <<"missing", v>> \in Range(gui') \/ v = i
        BY <1>3, <1>5
      <3>2. <<"loaded", v>> \in Range(gui) => <<"loaded", v>> \in Range(gui')
        BY <1>3, <1>5
      <3>3. (Told(v)' <=> Told(v)) /\ (Ordered(v)' <=> Ordered(v)) /\ (DrawnNow(v)' <=> DrawnNow(v))
        BY <1>4, <1>8 DEF Told, Ordered, DrawnNow
      <3>4. v \in Range(q) \/ v = i => v \in Range(queues'["scan"])
        BY <1>7, <1>8
      <3> QED  BY <1>4, <1>8, <2>1, <3>1, <3>2, <3>3, <3>4 DEF Pending, Painted
    <2> QED  BY <1>1, <1>4, <2>1 DEF ViewOK
  <1> QED  BY <1>9, <1>10, <1>11, <1>12 DEF IInv

LEMMA NotifyOK == ASSUME IInv, Notify  PROVE IInv'
  <1>1. Types /\ GuiOK /\ EntryOK /\ PaintOK /\ ViewOK
    BY DEF IInv
  <1>2. /\ painting = Nothing /\ queues' = [queues EXCEPT !["ready"] = <<>>] /\ notifying' = FALSE
        /\ UNCHANGED <<kind, cache, gui, painting, database, downloads, background, drawing, font>>
    BY DEF Notify
  <1>3. /\ views' \in [Items -> [shown : Shown, dirty : BOOLEAN, lost : BOOLEAN]]
        /\ \A v \in Items : /\ views'[v].shown = views[v].shown /\ views'[v].lost = views[v].lost
                            /\ views'[v].dirty <=>
                                  \/ views[v].dirty
                                  \/ views[v].shown # "no" /\ v \in Range(queues["ready"])
    BY <1>1 DEF Notify, Types
  <1>4. /\ queues' \in [QueueNames -> Seq(Items)] /\ queues'["ready"] = <<>>
        /\ queues'["check"] = queues["check"] /\ queues'["scan"] = queues["scan"]
        /\ \A q \in QueueNames : IsInjective(queues'[q])
    <2>1. <<>> \in Seq(Items) /\ IsInjective(<<>>)
      BY DEF IsInjective
    <2>2. \A q \in QueueNames \ {"ready"} : queues'[q] = queues[q]
      BY <1>1, <1>2 DEF Types
    <2>3. queues' \in [QueueNames -> Seq(Items)] /\ queues'["ready"] = <<>>
      BY <1>1, <1>2, <2>1 DEF Types, QueueNames
    <2> QED  BY <1>1, <2>1, <2>2, <2>3 DEF Types, QueueNames
  <1>5. Types'
    BY <1>1, <1>2, <1>3, <1>4 DEF Types
  <1>6. GuiOK'
    BY <1>1, <1>2, <1>4 DEF GuiOK
  <1>7. EntryOK' /\ PaintOK'
    <2>1. \A v : ~ Painted(v)
      BY <1>2 DEF Painted
    <2> QED  BY <1>1, <1>2, <1>3, <2>1, CacheStays
  <1>8. ViewOK'
    <2>1. ASSUME NEW v \in Items, Pending(v), views[v].shown # "no"  PROVE Pending(v)'
      <3>1. Told(v) => views'[v].dirty
        BY <1>3, <2>1 DEF Told
      <3>2. (Ordered(v)' <=> Ordered(v)) /\ (DrawnNow(v)' <=> DrawnNow(v))
        BY <1>2 DEF Ordered, DrawnNow
      <3> QED  BY <1>2, <1>3, <1>4, <2>1, <3>1, <3>2 DEF Pending, Painted
    <2> QED  BY <1>1, <1>2, <1>3, <2>1 DEF ViewOK
  <1> QED  BY <1>5, <1>6, <1>7, <1>8 DEF IInv

LEMMA UnqueueOK == ASSUME IInv, NEW i \in Items, Unqueue(i)  PROVE IInv'
  <1>1. Types /\ GuiOK /\ EntryOK /\ PaintOK /\ ViewOK /\ painting = Nothing
    BY DEF IInv, Unqueue, Event
  <1>2. DOMAIN queues = QueueNames
    BY <1>1 DEF Types
  <1>3. /\ queues' = [q \in QueueNames |-> RemoveFrom(queues[q], i)]
        /\ views' = [views EXCEPT ![i].lost = @ \/ \E q \in QueueNames : i \in Range(queues[q])]
        /\ UNCHANGED <<kind, cache, gui, notifying, painting, database, downloads, background,
                       drawing, font>>
    BY <1>2 DEF Unqueue
  <1>4. ASSUME NEW q \in QueueNames
        PROVE  /\ queues'[q] \in Seq(Items) /\ IsInjective(queues'[q])
               /\ Range(queues[q]) \subseteq Range(queues'[q]) \cup {i}
               /\ Range(queues'[q]) \subseteq Range(queues[q])
    <2>1. queues[q] \in Seq(Items) /\ IsInjective(queues[q])
      BY <1>1 DEF Types
    <2>2. queues'[q] = RemoveFrom(queues[q], i)
      BY <1>3
    <2> QED  BY <2>1, <2>2, RemoveFromKeeps
  <1>5. queues' \in [QueueNames -> Seq(Items)]
    BY <1>3, <1>4
  <1>6. /\ views' \in [Items -> [shown : Shown, dirty : BOOLEAN, lost : BOOLEAN]]
        /\ \A v \in Items : /\ views'[v].shown = views[v].shown /\ views'[v].dirty = views[v].dirty
                            /\ views[v].lost => views'[v].lost
        /\ (\E q \in QueueNames : i \in Range(queues[q])) => views'[i].lost
    <2>1. PICK gone \in BOOLEAN : gone <=> \E q \in QueueNames : i \in Range(queues[q])
      OBVIOUS
    <2>2. views' = [views EXCEPT ![i].lost = @ \/ gone]
      BY <1>3, <2>1
    <2>3. /\ views' \in [Items -> [shown : Shown, dirty : BOOLEAN, lost : BOOLEAN]]
          /\ \A v \in Items : /\ views'[v].shown = views[v].shown /\ views'[v].dirty = views[v].dirty
                              /\ views[v].lost => views'[v].lost
          /\ gone => views'[i].lost
      BY <1>1, <2>2 DEF Types
    <2> QED  BY <2>1, <2>3
  <1>7. Types'
    BY <1>1, <1>3, <1>4, <1>5, <1>6 DEF Types
  <1>8. GuiOK'
    BY <1>1, <1>3, <1>4 DEF GuiOK, QueueNames
  <1>9. EntryOK' /\ PaintOK'
    <2>1. \A v : ~ Painted(v)
      BY <1>1 DEF Painted
    <2> QED  BY <1>1, <1>3, <1>6, <2>1, CacheStays
  <1>10. ViewOK'
    <2>1. ASSUME NEW v \in Items, Pending(v)  PROVE Pending(v)' \/ views'[v].lost
      <3>1. \A q \in QueueNames : v \in Range(queues[q]) => v \in Range(queues'[q]) \/ views'[v].lost
        BY <1>4, <1>6
      <3>2. Told(v) => Told(v)' \/ views'[v].lost
        BY <1>3, <3>1 DEF Told, QueueNames
      <3>3. /\ v \in Range(queues["check"]) => v \in Range(queues'["check"]) \/ views'[v].lost
            /\ v \in Range(queues["scan"]) => v \in Range(queues'["scan"]) \/ views'[v].lost
        BY <3>1 DEF QueueNames
      <3>4. (Ordered(v)' <=> Ordered(v)) /\ (DrawnNow(v)' <=> DrawnNow(v))
        BY <1>3 DEF Ordered, DrawnNow
      <3> QED  BY <1>3, <1>6, <2>1, <3>2, <3>3, <3>4 DEF Pending, Painted
    <2> QED  BY <1>1, <1>3, <1>6, <2>1 DEF ViewOK
  <1> QED  BY <1>7, <1>8, <1>9, <1>10 DEF IInv

LEMMA SetFontFaceOK == ASSUME IInv, NEW f \in Fonts, SetFontFace(f)  PROVE IInv'
  <1>1. Types /\ ViewOK /\ painting = Nothing
    BY DEF IInv, SetFontFace, Event
  <1>2. DOMAIN queues = QueueNames
    BY <1>1 DEF Types
  <1>3. /\ cache' = <<>> /\ queues' = [q \in QueueNames |-> <<>>] /\ font' = f
        /\ views' = [i \in Items |->
              IF f # font THEN [views[i] EXCEPT !.dirty = @ \/ views[i].shown # "no"]
              ELSE [views[i] EXCEPT !.lost = TRUE]]
        /\ UNCHANGED <<kind, gui, notifying, painting, database, downloads, background, drawing>>
    BY <1>2 DEF SetFontFace
  <1>4. cache' \in Caches /\ Len(cache') <= MaxSize /\ Range(cache') = {}
    BY <1>3, EmptyRange, CoverPagesAssumption DEF Caches, One
  <1>5. /\ queues' \in [QueueNames -> Seq(Items)]
        /\ \A q \in QueueNames : IsInjective(queues'[q]) /\ Range(queues'[q]) = {}
    <2>1. <<>> \in Seq(Items) /\ IsInjective(<<>>)
      BY DEF IsInjective
    <2> QED  BY <1>3, <2>1, EmptyRange
  <1>6. /\ views' \in [Items -> [shown : Shown, dirty : BOOLEAN, lost : BOOLEAN]]
        /\ \A v \in Items : /\ views'[v].shown = views[v].shown
                            /\ f # font => (views[v].shown # "no" => views'[v].dirty)
                            /\ f = font => views'[v].lost
    BY <1>1, <1>3 DEF Types
  <1>7. Types'
    BY <1>1, <1>3, <1>4, <1>5, <1>6 DEF Types
  <1>8. GuiOK' /\ EntryOK'
    BY <1>4, <1>5 DEF GuiOK, EntryOK, QueueNames
  <1>9. PaintOK'
    BY <1>1, <1>3 DEF PaintOK
  <1>10. ViewOK'
    BY <1>6 DEF ViewOK, Pending
  <1> QED  BY <1>7, <1>8, <1>9, <1>10 DEF IInv

LEMMA LoadedOK == ASSUME IInv, Loaded  PROVE IInv'
  <1>1. Types /\ GuiOK /\ EntryOK /\ PaintOK /\ ViewOK
    BY DEF IInv
  <1>2. PICK i \in Items : Head(gui) = <<"loaded", i>> /\ Head(gui)[2] = i
    BY <1>1, TaskIs DEF Loaded
  <1>3. /\ Tail(gui) \in Seq(GuiTasks) /\ Range(gui) = Range(Tail(gui)) \cup {<<"loaded", i>>}
    BY <1>1, <1>2, TaskIs DEF Loaded
  <1>4. /\ CoverpageLoaded(i, background) /\ gui' = Tail(gui)
        /\ UNCHANGED <<kind, queues, notifying, database, downloads, drawing, font>>
    BY <1>2 DEF Loaded
  <1>5. /\ background \in Seq(BackgroundTasks)
        /\ \A e \in Range(cache) : e.state = "scheduled" => <<"draw", e.item>> \in Range(background)
    BY <1>1 DEF Types, BackgroundTasks, EntryOK, EntryFine
  <1>6. /\ cache' \in Caches /\ Len(cache') <= MaxSize
        /\ background' \in Seq(BackgroundTasks)
        /\ Range(background') = Range(background) \cup {<<"draw", i>>}
        /\ painting' \in {Nothing} \cup Paintings
        /\ views' \in [Items -> [shown : Shown, dirty : BOOLEAN, lost : BOOLEAN]]
        /\ EntryOK' /\ PaintOK' /\ Ordered(i)'
        /\ \A v \in Items : /\ views'[v].shown = views[v].shown
                            /\ views[v].dirty => views'[v].dirty
                            /\ views[v].lost => views'[v].lost
                            /\ Ordered(v) => Ordered(v)' \/ views'[v].lost
                            /\ Painted(v) => Painted(v)'
    BY <1>1, <1>4, <1>5, LoadedKeeps
  <1>7. Types'
    BY <1>1, <1>3, <1>4, <1>6 DEF Types, BackgroundTasks
  <1>8. GuiOK'
    BY <1>1, <1>3, <1>4 DEF GuiOK
  <1>9. ViewOK'
    <2>1. ASSUME NEW v \in Items, Pending(v)  PROVE Pending(v)' \/ views'[v].lost
      <3>1. <<"loaded", v>> \in Range(gui) => <<"loaded", v>> \in Range(gui') \/ v = i
        BY <1>3, <1>4
      <3>2. <<"missing", v>> \in Range(gui) => <<"missing", v>> \in Range(gui')
        BY <1>3, <1>4
      <3>3. (Told(v)' <=> Told(v)) /\ (DrawnNow(v)' <=> DrawnNow(v))
        BY <1>4 DEF Told, DrawnNow
      <3> QED  BY <1>4, <1>6, <2>1, <3>1, <3>2, <3>3 DEF Pending
    <2> QED  BY <1>1, <1>4, <1>6, <2>1 DEF ViewOK
  <1> QED  BY <1>6, <1>7, <1>8, <1>9 DEF IInv

LEMMA ScanOK == ASSUME IInv, Scan  PROVE IInv'
  <1>1. Types /\ GuiOK /\ EntryOK /\ PaintOK /\ ViewOK
    BY DEF IInv
  <1>2. /\ background \in Seq(BackgroundTasks) /\ background # <<>> /\ Head(background)[1] = "scan"
        /\ CoverpageLoaded(Head(background)[2], Tail(background))
        /\ UNCHANGED <<kind, queues, gui, notifying, database, downloads, drawing, font>>
    BY <1>1 DEF Types, BackgroundTasks, Scan, Work
  <1>3. /\ Head(background) \in BackgroundTasks /\ Tail(background) \in Seq(BackgroundTasks)
        /\ Range(background) = Range(Tail(background)) \cup {Head(background)}
    BY <1>2, TailKeeps
  <1>4. PICK i \in Items : Head(background) = <<"scan", i>> /\ Head(background)[2] = i
    BY <1>2, <1>3 DEF BackgroundTasks
  <1>5. \A e \in Range(cache) : e.state = "scheduled" => <<"draw", e.item>> \in Range(Tail(background))
    BY <1>1, <1>3, <1>4 DEF EntryOK, EntryFine
  <1>6. /\ cache' \in Caches /\ Len(cache') <= MaxSize
        /\ background' \in Seq(BackgroundTasks)
        /\ Range(background') = Range(Tail(background)) \cup {<<"draw", i>>}
        /\ painting' \in {Nothing} \cup Paintings
        /\ views' \in [Items -> [shown : Shown, dirty : BOOLEAN, lost : BOOLEAN]]
        /\ EntryOK' /\ PaintOK' /\ Ordered(i)'
        /\ \A v \in Items : /\ views'[v].shown = views[v].shown
                            /\ views[v].dirty => views'[v].dirty
                            /\ views[v].lost => views'[v].lost
                            /\ Ordered(v) => Ordered(v)' \/ views'[v].lost
                            /\ Painted(v) => Painted(v)'
    BY <1>1, <1>2, <1>3, <1>4, <1>5, LoadedKeeps
  <1>7. Types'
    BY <1>1, <1>2, <1>6 DEF Types, BackgroundTasks
  <1>8. GuiOK'
    BY <1>1, <1>2 DEF GuiOK
  <1>9. ViewOK'
    <2>1. ASSUME NEW v \in Items, Pending(v)  PROVE Pending(v)' \/ views'[v].lost
      <3>1. <<"scan", v>> \in Range(background) => <<"scan", v>> \in Range(background') \/ v = i
        BY <1>3, <1>4, <1>6
      <3>2. (Told(v)' <=> Told(v)) /\ (DrawnNow(v)' <=> DrawnNow(v))
        BY <1>2 DEF Told, DrawnNow
      <3> QED  BY <1>2, <1>6, <2>1, <3>1, <3>2 DEF Pending
    <2> QED  BY <1>1, <1>2, <1>6, <2>1 DEF ViewOK
  <1> QED  BY <1>6, <1>7, <1>8, <1>9 DEF IInv

LEMMA DrawStartsOK == ASSUME IInv, DrawStarts  PROVE IInv'
  <1>1. Types /\ GuiOK /\ EntryOK /\ PaintOK /\ ViewOK
    BY DEF IInv
  <1>2. /\ background \in Seq(BackgroundTasks) /\ background # <<>> /\ Head(background)[1] = "draw"
        /\ drawing = Nothing /\ background' = Tail(background)
        /\ UNCHANGED <<kind, queues, gui, notifying, painting, database, downloads, font, views>>
    BY <1>1 DEF Types, BackgroundTasks, DrawStarts, Work
  <1>3. /\ Head(background) \in BackgroundTasks /\ background' \in Seq(BackgroundTasks)
        /\ Range(background) = Range(background') \cup {Head(background)}
    BY <1>2, TailKeeps
  <1>4. PICK i \in Items : Head(background) = <<"draw", i>> /\ Head(background)[2] = i
    BY <1>2, <1>3 DEF BackgroundTasks
  <1>5. PICK c \in Caches : c = GetItem(cache, i) /\ Len(c) = Len(cache) /\ Range(c) = Range(cache)
    BY <1>1, GetItemKeeps DEF Types
  <1>6. /\ Range(c) \subseteq Entries /\ \A x, y \in Range(c) : x.item = y.item => x = y
        /\ Has(c, i) <=> \E x \in Range(c) : x.item = i
        /\ Has(c, i) => Entry(c, i) \in Range(c) /\ Entry(c, i).item = i
    BY CacheIs
  <1>7. \A e \in Range(cache) : ~ e.held
    BY <1>1, <1>2 DEF EntryOK, EntryFine, DrawnNow
  <1>8. ASSUME NEW e \in Range(cache), e.state = "scheduled", e.item # i
        PROVE  <<"draw", e.item>> \in Range(background')
    BY <1>1, <1>3, <1>4, <1>8 DEF EntryOK, EntryFine
  <1>9. ASSUME NEW e \in Range(cache), ~(e.state = "scheduled" /\ e.item = i)
        PROVE  EntryFine(e)'
    <2>1. EntryFine(e)
      BY <1>1 DEF EntryOK
    <2> QED  BY <1>2, <1>7, <1>8, <1>9, <2>1 DEF EntryFine, Painted, Told
  <1>10. GuiOK'
    BY <1>1, <1>2 DEF GuiOK
  <1>11. PaintOK'
    <2>1. \A v : ~ DrawnNow(v)
      BY <1>2 DEF DrawnNow
    <2> QED  BY <1>1, <1>2, <2>1 DEF PaintOK, Told
  <1>12. ASSUME NEW v \in Items, Pending(v), Ordered(v) => Ordered(v)' \/ DrawnNow(v)'
         PROVE  Pending(v)'
    <2>1. ~ DrawnNow(v)
      BY <1>2 DEF DrawnNow
    <2>2. <<"scan", v>> \in Range(background) => <<"scan", v>> \in Range(background')
      BY <1>3, <1>4
    <2>3. (Told(v)' <=> Told(v)) /\ (Painted(v)' <=> Painted(v))
      BY <1>2 DEF Told, Painted
    <2> QED  BY <1>2, <1>12, <2>1, <2>2, <2>3 DEF Pending
  <1>13. CASE Has(c, i) /\ Entry(c, i).state = "scheduled"
    <2>1. PICK e \in Entries : e = Entry(c, i) /\ e \in Range(cache) /\ e.item = i
                              /\ e.state = "scheduled"
      BY <1>5, <1>6, <1>13
    <2>2. PICK n \in Entries : n = [e EXCEPT !.state = "drawing", !.held = TRUE]
      <3>1. [e EXCEPT !.state = "drawing"] \in Entries
        BY DEF Entries
      <3>2. [[e EXCEPT !.state = "drawing"] EXCEPT !.held = TRUE] \in Entries
        BY <3>1 DEF Entries
      <3> QED  BY <3>2
    <2>3. n.item = i /\ n.state = "drawing" /\ n.held = TRUE /\ n.bitmap = e.bitmap
      BY <2>1, <2>2 DEF Entries
    <2>4. cache' = Put(c, n) /\ drawing' = [item |-> i, font |-> font, set |-> FALSE]
      BY <1>4, <1>5, <1>13, <2>1, <2>2 DEF DrawStarts
    <2>5. /\ cache' \in Caches /\ Len(cache') = Len(cache)
          /\ Range(cache') = {x \in Range(cache) : x.item # i} \cup {n}
      BY <1>5, <1>6, <1>13, <2>3, <2>4, PutKeeps
    <2>6. /\ drawing' \in Drawings /\ drawing'.item = i /\ drawing'.font = font
          /\ ~ drawing'.set /\ drawing' # Nothing
      <3>1. /\ drawing' \in Drawings /\ drawing'.item = i /\ drawing'.font = font
            /\ ~ drawing'.set
        BY <1>1, <2>4 DEF Types, Drawings
      <3>2. "item" \in DOMAIN drawing' /\ "item" \notin DOMAIN Nothing
        BY <2>4 DEF Nothing
      <3> QED  BY <3>1, <3>2
    <2>7. Types'
      BY <1>1, <1>2, <1>3, <2>5, <2>6 DEF Types, BackgroundTasks
    <2>8. EntryFine(n)'
      <3>1. EntryFine(e)
        BY <1>1, <2>1 DEF EntryOK
      <3> QED  BY <1>2, <2>3, <2>6, <3>1 DEF EntryFine, DrawnNow
    <2>9. EntryOK'
      BY <1>9, <2>5, <2>8 DEF EntryOK
    <2>10. ViewOK'
      <3>1. DrawnNow(i)'
        BY <2>6 DEF DrawnNow
      <3>2. \A v \in Items \ {i} : Ordered(v) => Ordered(v)'
        BY <2>5 DEF Ordered
      <3>3. \A v \in Items : Pending(v) => Pending(v)'
        BY <1>12, <3>1, <3>2 DEF Pending
      <3> QED  BY <1>1, <1>2, <3>3 DEF ViewOK
    <2> QED  BY <1>10, <1>11, <2>7, <2>9, <2>10 DEF IInv
  <1>14. CASE ~(Has(c, i) /\ Entry(c, i).state = "scheduled")
    <2>1. cache' = c /\ drawing' = drawing
      BY <1>4, <1>5, <1>14 DEF DrawStarts
    <2>2. ASSUME NEW e \in Range(cache)  PROVE ~(e.state = "scheduled" /\ e.item = i)
      BY <1>5, <1>6, <1>14
    <2>3. Types'
      BY <1>1, <1>2, <1>3, <1>5, <2>1 DEF Types, BackgroundTasks
    <2>4. EntryOK'
      BY <1>5, <1>9, <2>1, <2>2 DEF EntryOK
    <2>5. ViewOK'
      <3>1. \A v \in Items : Ordered(v)' <=> Ordered(v)
        BY <1>5, <2>1 DEF Ordered
      <3>2. \A v \in Items : Pending(v) => Pending(v)'
        BY <1>12, <3>1
      <3> QED  BY <1>1, <1>2, <3>2 DEF ViewOK
    <2> QED  BY <1>10, <1>11, <2>3, <2>4, <2>5 DEF IInv
  <1> QED  BY <1>13, <1>14

\* An entry that is drawn gets its bitmap, and is ready.
WithBitmap(e, f) == IF e.held THEN [e EXCEPT !.bitmap = f] ELSE e
Finished(e) == IF e.held THEN [e EXCEPT !.state = "ready", !.held = FALSE] ELSE e

LEMMA WithBitmapKeeps ==
    ASSUME NEW e \in Entries, NEW f \in Fonts
    PROVE  /\ WithBitmap(e, f) \in Entries /\ WithBitmap(e, f).item = e.item
           /\ WithBitmap(e, f).state = e.state /\ WithBitmap(e, f).held = e.held
           /\ e.held => WithBitmap(e, f).bitmap = f
           /\ ~ e.held => WithBitmap(e, f) = e
  BY DEF WithBitmap, Entries

LEMMA FinishedKeeps ==
    ASSUME NEW e \in Entries
    PROVE  /\ Finished(e) \in Entries /\ Finished(e).item = e.item
           /\ Finished(e).bitmap = e.bitmap
           /\ e.held => Finished(e).state = "ready" /\ Finished(e).held = FALSE
           /\ ~ e.held => Finished(e) = e
  <1> DEFINE n == [e EXCEPT !.state = "ready"]
             r == [n EXCEPT !.held = FALSE]
  <1>1. Finished(e) = IF e.held THEN r ELSE e
    BY DEF Finished
  <1>2. n \in Entries /\ n.item = e.item /\ n.state = "ready" /\ n.bitmap = e.bitmap
    BY DEF Entries
  <1> HIDE DEF n
  <1>3. r \in Entries /\ r.item = e.item /\ r.state = "ready" /\ r.bitmap = e.bitmap /\ r.held = FALSE
    BY <1>2 DEF Entries
  <1> HIDE DEF r
  <1> QED  BY <1>1, <1>3

\* A cache whose entries are changed where they are, with the same items.
LEMMA ChangedKeeps ==
    ASSUME NEW c \in Caches, NEW d, d = [k \in DOMAIN c |-> d[k]],
           \A k \in DOMAIN c : d[k] \in Entries /\ d[k].item = c[k].item
    PROVE  d \in Caches /\ Len(d) = Len(c)
  <1> DEFINE n == Len(c)
  <1>1. /\ c \in Seq(Entries) /\ DOMAIN c = 1 .. n /\ n \in Nat
        /\ \A k, l \in DOMAIN c : k # l => c[k].item # c[l].item
    BY DEF Caches, One
  <1> HIDE DEF n
  <1>2. d = [k \in 1 .. n |-> d[k]] /\ \A k \in 1 .. n : d[k] \in Entries
    BY <1>1
  <1>3. d \in [1 .. n -> Entries] /\ DOMAIN d = 1 .. n
    BY <1>2
  <1>4. d \in Seq(Entries) /\ Len(d) = n
    BY <1>1, <1>3
  <1>5. One(d)
    BY <1>1, <1>3 DEF One
  <1> QED  BY <1>4, <1>5 DEF Caches, n

\* What is in it then.
LEMMA ChangedRange ==
    ASSUME NEW c \in Caches, NEW R \in [Entries -> Entries], NEW d,
           d = [k \in DOMAIN c |-> R[c[k]]],
           \A e \in Entries : R[e].item = e.item
    PROVE  d \in Caches /\ Len(d) = Len(c) /\ Range(d) = {R[e] : e \in Range(c)}
  <1>1. /\ c \in Seq(Entries) /\ DOMAIN c = 1 .. Len(c) /\ \A k \in DOMAIN c : c[k] \in Entries
    BY CacheIs
  <1>2. \A k \in DOMAIN c : d[k] = R[c[k]]
    OBVIOUS
  <1>3. \A k \in DOMAIN c : d[k] \in Entries /\ d[k].item = c[k].item
    BY <1>1, <1>2
  <1>4. d = [k \in DOMAIN c |-> d[k]]
    OBVIOUS
  <1>5. d \in Caches /\ Len(d) = Len(c)
    BY <1>3, <1>4, ChangedKeeps
  <1>6. d \in Seq(Entries)
    BY <1>5 DEF Caches
  <1>7. \A x : x \in Range(d) <=> \E k \in 1 .. Len(c) : d[k] = x
    BY <1>5, <1>6, RangeIs
  <1>8. \A x : x \in Range(c) <=> \E k \in 1 .. Len(c) : c[k] = x
    BY <1>1, RangeIs
  <1>9. Range(d) = {R[e] : e \in Range(c)}
    BY <1>1, <1>2, <1>7, <1>8
  <1> QED  BY <1>5, <1>9

LEMMA SetBitmapOK == ASSUME IInv, SetBitmap  PROVE IInv'
  <1>1. Types /\ GuiOK /\ EntryOK /\ PaintOK /\ ViewOK
    BY DEF IInv
  <1>2. /\ drawing # Nothing /\ cache' = Drawn(cache, drawing.font)
        /\ drawing' = [drawing EXCEPT !.set = TRUE]
        /\ UNCHANGED <<kind, queues, gui, notifying, database, downloads, background, font, views>>
    BY DEF SetBitmap
  <1>3. PICK i \in Items : drawing.item = i /\ drawing.font \in Fonts /\ drawing \in Drawings
    BY <1>1, <1>2 DEF Types, Drawings
  <1>4. cache \in Caches /\ Range(cache) \subseteq Entries
    BY <1>1, CacheIs DEF Types
  <1> DEFINE R(e) == WithBitmap(e, drawing.font)
  <1>5. ASSUME NEW e \in Entries
        PROVE  /\ R(e) \in Entries /\ R(e).item = e.item
               /\ R(e).state = e.state /\ R(e).held = e.held
               /\ e.held => R(e).bitmap = drawing.font
               /\ ~ e.held => R(e) = e
    BY <1>3, WithBitmapKeeps
  <1>6. cache' \in Caches /\ Len(cache') = Len(cache) /\ Range(cache') = {R(e) : e \in Range(cache)}
    <2> DEFINE F == [e \in Entries |-> R(e)]
    <2>1. cache' = [k \in DOMAIN cache |-> R(cache[k])]
      BY <1>2 DEF Drawn, WithBitmap
    <2> HIDE DEF R
    <2>2. \A k \in DOMAIN cache : cache[k] \in Entries
      BY <1>4, CacheIs
    <2>3. F \in [Entries -> Entries] /\ \A e \in Entries : F[e] = R(e) /\ F[e].item = e.item
      BY <1>5
    <2> HIDE DEF F
    <2>4. cache' = [k \in DOMAIN cache |-> F[cache[k]]]
      BY <2>1, <2>2, <2>3
    <2>5. /\ cache' \in Caches /\ Len(cache') = Len(cache)
          /\ Range(cache') = {F[e] : e \in Range(cache)}
      BY <1>4, <2>3, <2>4, ChangedRange
    <2> QED  BY <1>4, <2>3, <2>5
  <1> HIDE DEF R
  <1>7. /\ drawing' \in Drawings /\ drawing'.item = i /\ drawing'.font = drawing.font
        /\ drawing' # Nothing
    <2>1. drawing' \in Drawings /\ drawing'.item = i /\ drawing'.font = drawing.font
      BY <1>2, <1>3 DEF Drawings
    <2>2. "item" \in DOMAIN drawing' /\ "item" \notin DOMAIN Nothing
      BY <2>1 DEF Drawings, Nothing
    <2> QED  BY <2>1, <2>2
  <1>8. DrawnNow(i) /\ \A v : (DrawnNow(v)' <=> DrawnNow(v)) /\ (Told(v)' <=> Told(v))
    BY <1>2, <1>3, <1>7 DEF DrawnNow, Told
  <1>9. PICK gone : Recycled(gone) /\ gone \subseteq {i}
    BY <1>3 DEF SetBitmap
  <1>10. /\ painting' \in {Nothing} \cup Paintings
         /\ painting = Nothing => painting' = Nothing
         /\ painting # Nothing => /\ painting' # Nothing /\ painting'.item = painting.item
                                  /\ painting'.found = painting.found
                                  /\ painting'.bitmap = painting.bitmap
                                  /\ painting'.recycled <=>
                                         \/ painting.recycled
                                         \/ painting.found /\ painting.item \in gone
    BY <1>1, <1>9, RecycledKeeps DEF Types
  <1>11. Types'
    BY <1>1, <1>2, <1>6, <1>7, <1>10 DEF Types
  <1>12. GuiOK'
    BY <1>1, <1>2 DEF GuiOK
  <1>13. EntryOK'
    <2>1. SUFFICES ASSUME NEW e \in Range(cache), NEW r, r = R(e)  PROVE EntryFine(r)'
      BY <1>6 DEF EntryOK
    <2>2. EntryFine(e) /\ e \in Entries
      BY <1>1, <1>4 DEF EntryOK
    <2>3. Painted(e.item)' => Painted(e.item) /\ painting'.found = painting.found
      BY <1>10 DEF Painted
    <2>4. r.item = e.item /\ r.state = e.state /\ r.held = e.held
      BY <1>5, <2>1, <2>2
    <2>5. CASE e.held
      <3>1. r.bitmap = font /\ drawing.font = font
        BY <1>5, <2>1, <2>2, <2>5 DEF EntryFine
      <3>2. font # NoBitmap
        BY <1>1 DEF Types, Fonts, NoBitmap
      <3> QED  BY <1>2, <1>7, <1>8, <2>2, <2>3, <2>4, <3>1, <3>2 DEF EntryFine
    <2>6. CASE ~ e.held
      <3>1. r = e
        BY <1>5, <2>1, <2>2, <2>6
      <3> QED  BY <1>2, <1>8, <2>2, <2>3, <2>6, <3>1 DEF EntryFine
    <2> QED  BY <2>5, <2>6
  <1>14. PaintOK'
    BY <1>1, <1>2, <1>8, <1>9, <1>10 DEF PaintOK
  <1>15. ViewOK'
    <2>1. \A v \in Items : Ordered(v) => Ordered(v)'
      BY <1>4, <1>5, <1>6 DEF Ordered
    <2>2. \A v \in Items : Painted(v) => Painted(v)'
      BY <1>10 DEF Painted
    <2>3. \A v \in Items : Pending(v) => Pending(v)'
      BY <1>2, <1>8, <2>1, <2>2 DEF Pending
    <2> QED  BY <1>1, <1>2, <2>3 DEF ViewOK
  <1> QED  BY <1>11, <1>12, <1>13, <1>14, <1>15 DEF IInv

LEMMA DrawEndsOK == ASSUME IInv, DrawEnds  PROVE IInv'
  <1>1. Types /\ GuiOK /\ EntryOK /\ PaintOK /\ ViewOK
    BY DEF IInv
  <1>2. /\ drawing # Nothing /\ drawing.set /\ notifying' = TRUE /\ drawing' = Nothing
        /\ UNCHANGED <<kind, gui, painting, database, downloads, background, font, views>>
    BY DEF DrawEnds
  <1>3. PICK i \in Items : drawing.item = i
    BY <1>1, <1>2 DEF Types, Drawings
  <1>4. cache \in Caches /\ Range(cache) \subseteq Entries
    BY <1>1, CacheIs DEF Types
  <1> DEFINE R(e) == Finished(e)
  <1>5. ASSUME NEW e \in Entries
        PROVE  /\ R(e) \in Entries /\ R(e).item = e.item /\ R(e).bitmap = e.bitmap
               /\ e.held => R(e).state = "ready" /\ R(e).held = FALSE
               /\ ~ e.held => R(e) = e
    BY FinishedKeeps
  <1>6. cache' \in Caches /\ Len(cache') = Len(cache) /\ Range(cache') = {R(e) : e \in Range(cache)}
    <2> DEFINE F == [e \in Entries |-> R(e)]
    <2>1. cache' = [k \in DOMAIN cache |-> R(cache[k])]
      BY DEF DrawEnds, Finished
    <2> HIDE DEF R
    <2>2. \A k \in DOMAIN cache : cache[k] \in Entries
      BY <1>4, CacheIs
    <2>3. F \in [Entries -> Entries] /\ \A e \in Entries : F[e] = R(e) /\ F[e].item = e.item
      BY <1>5
    <2> HIDE DEF F
    <2>4. cache' = [k \in DOMAIN cache |-> F[cache[k]]]
      BY <2>1, <2>2, <2>3
    <2>5. /\ cache' \in Caches /\ Len(cache') = Len(cache)
          /\ Range(cache') = {F[e] : e \in Range(cache)}
      BY <1>4, <2>3, <2>4, ChangedRange
    <2> QED  BY <1>4, <2>3, <2>5
  <1> HIDE DEF R
  <1>10. /\ queues' \in [QueueNames -> Seq(Items)] /\ \A q \in QueueNames : IsInjective(queues'[q])
         /\ queues'["check"] = queues["check"] /\ queues'["scan"] = queues["scan"]
         /\ Range(queues["ready"]) \subseteq Range(queues'["ready"]) /\ i \in Range(queues'["ready"])
    <2> DEFINE q == queues["ready"]
    <2>1. q \in Seq(Items) /\ IsInjective(q)
      BY <1>1 DEF Types, QueueNames
    <2>2. PICK r \in Seq(Items) :
             /\ r = IF i \in Range(q) THEN q ELSE Append(q, i)
             /\ IsInjective(r) /\ Range(q) \subseteq Range(r) /\ i \in Range(r)
      <3>1. CASE i \in Range(q)
        BY <2>1, <3>1
      <3>2. CASE i \notin Range(q)
        <4> DEFINE r == Append(q, i)
        <4> HIDE DEF q
        <4>1. r \in Seq(Items) /\ Range(r) = Range(q) \cup {i}
          BY <2>1, AppendKeeps
        <4>2. IsInjective(r)
          BY <2>1, <3>2, AppendIsInjective
        <4> QED  BY <3>2, <4>1, <4>2
      <3> QED  BY <3>1, <3>2
    <2>3. queues' = [queues EXCEPT !["ready"] = r]
      BY <1>3, <2>2 DEF DrawEnds
    <2> HIDE DEF q
    <2>4. /\ queues' \in [QueueNames -> Seq(Items)] /\ queues'["ready"] = r
          /\ \A p \in QueueNames \ {"ready"} : queues'[p] = queues[p]
      BY <1>1, <2>3 DEF Types, QueueNames
    <2>5. \A p \in QueueNames : IsInjective(queues'[p])
      BY <1>1, <2>2, <2>4 DEF Types
    <2>6. queues'["check"] = queues["check"] /\ queues'["scan"] = queues["scan"]
      BY <2>4 DEF QueueNames
    <2> QED  BY <2>2, <2>4, <2>5, <2>6 DEF q
  <1>11. Told(i)' /\ \A v : Told(v) => Told(v)'
    BY <1>2, <1>10 DEF Told
  <1>14. Types'
    BY <1>1, <1>2, <1>6, <1>10 DEF Types
  <1>15. GuiOK'
    BY <1>1, <1>2, <1>10 DEF GuiOK
  <1>16. EntryOK'
    <2>1. SUFFICES ASSUME NEW e \in Range(cache), NEW r, r = R(e)  PROVE EntryFine(r)'
      BY <1>6 DEF EntryOK
    <2>2. EntryFine(e) /\ e \in Entries
      BY <1>1, <1>4 DEF EntryOK
    <2>3. CASE e.held
      <3>1. /\ r.item = e.item /\ r.state = "ready" /\ r.bitmap = e.bitmap /\ r.held = FALSE
            /\ e.item = i /\ e.bitmap # NoBitmap
        BY <1>2, <1>3, <1>5, <2>1, <2>2, <2>3 DEF EntryFine, DrawnNow
      <3> QED  BY <1>2, <1>11, <2>2, <3>1 DEF EntryFine
    <2>4. CASE ~ e.held
      <3>1. r = e
        BY <1>5, <2>1, <2>2, <2>4
      <3>2. Painted(e.item)' <=> Painted(e.item)
        BY <1>2 DEF Painted
      <3> QED  BY <1>2, <1>11, <2>2, <2>4, <3>1, <3>2 DEF EntryFine
    <2> QED  BY <2>3, <2>4
  <1>17. PaintOK'
    <2>1. \A v : DrawnNow(v) => Told(v)'
      BY <1>3, <1>11 DEF DrawnNow
    <2> QED  BY <1>1, <1>2, <1>11, <2>1 DEF PaintOK
  <1>18. ViewOK'
    <2>1. \A v \in Items : Ordered(v) => Ordered(v)' \/ Told(v)'
      <3>1. SUFFICES ASSUME NEW v \in Items, NEW e \in Range(cache), e.item = v, e.state = "scheduled"
                     PROVE  Ordered(v)' \/ Told(v)'
        BY DEF Ordered
      <3>2. CASE e.held
        <4>1. v = i
          BY <1>1, <1>3, <3>1, <3>2 DEF EntryOK, EntryFine, DrawnNow
        <4> QED  BY <4>1, <1>11
      <3>3. CASE ~ e.held
        <4>1. R(e) = e
          BY <1>4, <1>5, <3>1, <3>3
        <4>2. e \in Range(cache')
          BY <1>6, <4>1, <3>1
        <4> QED  BY <3>1, <4>2 DEF Ordered
      <3> QED  BY <3>2, <3>3
    <2>2. \A v \in Items : DrawnNow(v) => Told(v)'
      BY <1>3, <1>11 DEF DrawnNow
    <2>3. \A v \in Items : Painted(v) => Painted(v)'
      BY <1>2 DEF Painted
    <2>4. \A v \in Items : Pending(v) => Pending(v)'
      BY <1>2, <1>10, <1>11, <2>1, <2>2, <2>3 DEF Pending
    <2> QED  BY <1>1, <1>2, <2>4 DEF ViewOK
  <1> QED  BY <1>14, <1>15, <1>16, <1>17, <1>18 DEF IInv

LEMMA DrawFailsOK == ASSUME IInv, DrawFails  PROVE IInv'
  <1>1. Types /\ GuiOK /\ EntryOK /\ PaintOK /\ ViewOK
    BY DEF IInv
  <1>2. /\ drawing # Nothing /\ cache' = [k \in DOMAIN cache |-> [cache[k] EXCEPT !.held = FALSE]]
        /\ views' = [views EXCEPT ![drawing.item].lost = TRUE] /\ drawing' = Nothing
        /\ UNCHANGED <<kind, queues, gui, notifying, painting, database, downloads, background, font>>
    BY DEF DrawFails
  <1>3. PICK i \in Items : drawing.item = i
    BY <1>1, <1>2 DEF Types, Drawings
  <1>4. /\ cache \in Caches /\ cache \in Seq(Entries) /\ Range(cache) \subseteq Entries
        /\ DOMAIN cache = 1 .. Len(cache)
    BY <1>1, CacheIs DEF Types
  <1> DEFINE R(e) == [e EXCEPT !.held = FALSE]
  <1>5. ASSUME NEW e \in Entries
        PROVE  /\ R(e) \in Entries /\ R(e).item = e.item /\ R(e).state = e.state
               /\ R(e).bitmap = e.bitmap /\ R(e).held = FALSE
    BY DEF Entries
  <1>6. cache' = [k \in DOMAIN cache |-> R(cache[k])]
    BY <1>2
  <1> HIDE DEF R
  <1>7. /\ cache' \in Caches /\ Len(cache') = Len(cache)
        /\ \A k \in 1 .. Len(cache) : cache'[k] = R(cache[k])
    <2>1. \A k \in DOMAIN cache : cache[k] \in Entries
      BY <1>4
    <2>2. \A k \in DOMAIN cache : cache'[k] = R(cache[k])
      BY <1>6
    <2>3. \A k \in DOMAIN cache : cache'[k] \in Entries /\ cache'[k].item = cache[k].item
      BY <1>5, <2>1, <2>2
    <2>4. cache' = [k \in DOMAIN cache |-> cache'[k]]
      BY <1>6
    <2>5. cache' \in Caches /\ Len(cache') = Len(cache)
      BY <1>4, <2>3, <2>4, ChangedKeeps
    <2> QED  BY <1>4, <2>2, <2>5
  <1>8. Range(cache') = {R(e) : e \in Range(cache)}
    <2>1. cache' \in Seq(Entries)
      BY <1>7 DEF Caches
    <2>2. \A x : x \in Range(cache') <=> \E k \in 1 .. Len(cache) : cache'[k] = x
      BY <1>7, <2>1, RangeIs
    <2>3. \A x : x \in Range(cache) <=> \E k \in 1 .. Len(cache) : cache[k] = x
      BY <1>4, RangeIs
    <2> QED  BY <1>7, <2>2, <2>3
  <1>9. /\ views' \in [Items -> [shown : Shown, dirty : BOOLEAN, lost : BOOLEAN]]
        /\ views'[i].lost
        /\ \A v \in Items : /\ views'[v].shown = views[v].shown /\ views'[v].dirty = views[v].dirty
                            /\ views[v].lost => views'[v].lost
    BY <1>1, <1>2, <1>3 DEF Types
  <1>10. Types'
    BY <1>1, <1>2, <1>7, <1>9 DEF Types
  <1>11. GuiOK'
    BY <1>1, <1>2 DEF GuiOK
  <1>12. EntryOK'
    <2>1. SUFFICES ASSUME NEW e \in Range(cache), NEW r, r = R(e)  PROVE EntryFine(r)'
      BY <1>8 DEF EntryOK
    <2>2. EntryFine(e) /\ e \in Entries /\ e.item \in Items
      BY <1>1, <1>4 DEF EntryOK, Entries
    <2>3. r.item = e.item /\ r.state = e.state /\ r.bitmap = e.bitmap /\ r.held = FALSE
      BY <1>5, <2>1, <2>2
    <2>4. e.state = "drawing" => views'[e.item].lost
      BY <1>3, <1>9, <2>2 DEF EntryFine, DrawnNow
    <2> QED  BY <1>2, <2>2, <2>3, <2>4 DEF EntryFine, Painted, Told
  <1>13. PaintOK'
    <2>1. painting # Nothing => painting.item \in Items
      BY <1>1 DEF Types, Paintings
    <2> QED  BY <1>1, <1>2, <1>3, <1>9, <2>1 DEF PaintOK, Told, DrawnNow
  <1>14. ViewOK'
    <2>1. ASSUME NEW v \in Items, Pending(v)  PROVE Pending(v)' \/ views'[v].lost
      <3>1. DrawnNow(v) => views'[v].lost
        BY <1>3, <1>9 DEF DrawnNow
      <3>2. Ordered(v) => Ordered(v)'
        BY <1>4, <1>5, <1>8 DEF Ordered
      <3>3. (Told(v)' <=> Told(v)) /\ (Painted(v)' <=> Painted(v))
        BY <1>2 DEF Told, Painted
      <3> QED  BY <1>2, <1>9, <2>1, <3>1, <3>2, <3>3 DEF Pending
    <2> QED  BY <1>1, <1>2, <1>9, <2>1 DEF ViewOK
  <1> QED  BY <1>10, <1>11, <1>12, <1>13, <1>14 DEF IInv

LEMMA ScanTaskOK == ASSUME IInv, ScanTask  PROVE IInv'
  <1>1. Types /\ GuiOK /\ EntryOK /\ PaintOK /\ ViewOK
    BY DEF IInv
  <1>2. /\ painting = Nothing /\ Tail(gui) \in Seq(GuiTasks) /\ Head(gui)[1] = "scan"
        /\ Range(gui) = Range(Tail(gui)) \cup {Head(gui)}
        /\ UNCHANGED <<kind, notifying, database, drawing, font>>
    BY <1>1, TaskIs DEF ScanTask
  <1>3. \A i : <<"loaded", i>> # Head(gui) /\ <<"missing", i>> # Head(gui) /\ <<"check">> # Head(gui)
    BY <1>2
  <1> DEFINE q == queues["scan"]
  <1>4. q \in Seq(Items) /\ IsInjective(q)
    BY <1>1 DEF Types, QueueNames
  <1>5. CASE q = <<>>
    <2>1. /\ gui' = Tail(gui)
          /\ UNCHANGED <<queues, cache, painting, downloads, background, views>>
      <3>1. UNCHANGED <<cache, painting, downloads, background, views>> /\ gui' = Tail(gui)
        BY <1>5 DEF ScanTask
      <3>2. queues' = queues
        BY <1>5 DEF ScanTask
      <3> QED  BY <3>1, <3>2
    <2>2. Range(queues["scan"]) = {}
      BY <1>5, EmptyRange
    <2>3. Types'
      BY <1>1, <1>2, <2>1 DEF Types
    <2>4. GuiOK'
      BY <1>1, <1>2, <1>3, <2>1, <2>2 DEF GuiOK
    <2>5. EntryOK' /\ PaintOK'
      <3>1. \A v : Told(v) => Told(v)'
        BY <1>2, <2>1 DEF Told
      <3> QED  BY <1>1, <1>2, <2>1, <3>1, CacheStays
    <2>6. ViewOK'
      <3>1. ASSUME NEW v \in Items, Pending(v)  PROVE Pending(v)'
        <4>1. (Told(v)' <=> Told(v)) /\ (Ordered(v)' <=> Ordered(v)) /\ (DrawnNow(v)' <=> DrawnNow(v))
          BY <1>2, <2>1 DEF Told, Ordered, DrawnNow
        <4>2. /\ <<"loaded", v>> \in Range(gui) => <<"loaded", v>> \in Range(gui')
              /\ <<"missing", v>> \in Range(gui) => <<"missing", v>> \in Range(gui')
          BY <1>2, <1>3, <2>1
        <4> QED  BY <1>2, <2>1, <3>1, <4>1, <4>2 DEF Pending, Painted
      <3> QED  BY <1>1, <1>2, <2>1, <3>1 DEF ViewOK
    <2> QED  BY <2>3, <2>4, <2>5, <2>6 DEF IInv
  <1>6. CASE q # <<>>
    <2>1. /\ Tail(q) \in Seq(Items) /\ Head(q) \in Items /\ IsInjective(Tail(q))
          /\ Range(q) = Range(Tail(q)) \cup {Head(q)}
      BY <1>4, <1>6, TailKeeps
    <2>2. PICK i \in Items : i = Head(q)
      BY <2>1
    <2>3. /\ queues' = [queues EXCEPT !["scan"] = Tail(q)]
          /\ gui' = Schedule(Tail(gui), "scan")
          /\ \/ /\ background' = Append(background, <<"scan", i>>)
                /\ UNCHANGED <<cache, painting, downloads, views>>
             \/ /\ CoverpageLoaded(i, background) /\ UNCHANGED downloads
             \/ \E links \in {<<>>, <<i>>, <<i, i>>} :
                   /\ downloads' = downloads \o links
                   /\ views' = [views EXCEPT ![i].lost = @ \/ links = <<>>]
                   /\ UNCHANGED <<cache, painting, background>>
      BY <1>6, <2>2 DEF ScanTask
    <2>4. gui' \in Seq(GuiTasks) /\ Range(gui') = Range(Tail(gui)) \cup {<<"scan">>}
      BY <1>2, <2>3, GuiScheduleKeeps
    <2> HIDE DEF q
    <2>5. /\ queues' \in [QueueNames -> Seq(Items)] /\ queues'["scan"] = Tail(q)
          /\ \A r \in QueueNames \ {"scan"} : queues'[r] = queues[r]
      BY <1>1, <2>1, <2>3 DEF Types, QueueNames
    <2>6. /\ \A r \in QueueNames : IsInjective(queues'[r])
          /\ queues'["check"] = queues["check"] /\ queues'["ready"] = queues["ready"]
      <3>1. \A r \in QueueNames : IsInjective(queues'[r])
        BY <1>1, <2>1, <2>5 DEF Types
      <3> QED  BY <3>1, <2>5 DEF QueueNames
    <2>7. \A v \in Items : v \in Range(queues["scan"]) => v \in Range(queues'["scan"]) \/ v = i
      BY <2>1, <2>2, <2>5 DEF q
    <2>8. GuiOK'
      <3>1. <<"check">> \in Range(gui) => <<"check">> \in Range(gui')
        BY <1>2, <2>4
      <3>2. <<"scan">> \in Range(gui')
        BY <2>4
      <3> QED  BY <1>1, <2>6, <3>1, <3>2 DEF GuiOK
    <2>9. \A v : (Told(v)' <=> Told(v)) /\ (DrawnNow(v)' <=> DrawnNow(v))
      BY <1>2, <2>6 DEF Told, DrawnNow
    \* What is left is the same for the three ways a cover is found.
    <2>10. ASSUME EntryOK', PaintOK', cache' \in Caches, Len(cache') <= MaxSize,
                  background' \in Seq(BackgroundTasks), downloads' \in Seq(Items),
                  painting' \in {Nothing} \cup Paintings,
                  views' \in [Items -> [shown : Shown, dirty : BOOLEAN, lost : BOOLEAN]],
                  Range(background) \subseteq Range(background'),
                  Range(downloads) \subseteq Range(downloads'),
                  Pending(i)' \/ views'[i].lost,
                  \A v \in Items : /\ views'[v].shown = views[v].shown
                                   /\ views[v].dirty => views'[v].dirty
                                   /\ views[v].lost => views'[v].lost
                                   /\ Ordered(v) => Ordered(v)' \/ views'[v].lost
                                   /\ Painted(v) => Painted(v)'
           PROVE  IInv'
      <3>1. Types'
        BY <1>1, <1>2, <2>4, <2>5, <2>6, <2>10 DEF Types, BackgroundTasks
      <3>2. ASSUME NEW v \in Items, Pending(v), v # i  PROVE Pending(v)' \/ views'[v].lost
        <4>1. /\ <<"loaded", v>> \in Range(gui) => <<"loaded", v>> \in Range(gui')
              /\ <<"missing", v>> \in Range(gui) => <<"missing", v>> \in Range(gui')
          BY <1>2, <1>3, <2>4
        <4> QED  BY <1>2, <2>6, <2>7, <2>9, <2>10, <3>2, <4>1 DEF Pending
      <3>3. ViewOK'
        BY <1>1, <1>2, <2>10, <3>2 DEF ViewOK
      <3> QED  BY <2>8, <2>10, <3>1, <3>3 DEF IInv
    <2>11. /\ background \in Seq(BackgroundTasks) /\ downloads \in Seq(Items)
           /\ cache \in Caches /\ Len(cache) <= MaxSize /\ painting \in {Nothing} \cup Paintings
           /\ views \in [Items -> [shown : Shown, dirty : BOOLEAN, lost : BOOLEAN]]
      BY <1>1 DEF Types, BackgroundTasks
    <2>12. CASE /\ background' = Append(background, <<"scan", i>>)
                /\ UNCHANGED <<cache, painting, downloads, views>>
      <3>1. <<"scan", i>> \in BackgroundTasks
        BY DEF BackgroundTasks
      <3>2. /\ background' \in Seq(BackgroundTasks)
            /\ Range(background') = Range(background) \cup {<<"scan", i>>}
        <4>1. PICK t : t = <<"scan", i>>
          OBVIOUS
        <4>2. background \in Seq(BackgroundTasks) /\ background' = Append(background, t)
          BY <2>11, <2>12, <4>1
        <4>3. t \in BackgroundTasks
          BY <3>1, <4>1
        <4>4. /\ Append(background, t) \in Seq(BackgroundTasks)
              /\ Range(Append(background, t)) = Range(background) \cup {t}
          BY <4>2, <4>3, AppendKeeps
        <4> QED  BY <4>1, <4>2, <4>4
      <3>3. EntryOK' /\ PaintOK'
        BY <1>1, <1>2, <2>9, <2>12, <3>2, CacheStays
      <3>4. Pending(i)'
        BY <3>2 DEF Pending
      <3>5. \A v \in Items : (Ordered(v) => Ordered(v)') /\ (Painted(v) => Painted(v)')
        BY <2>12 DEF Ordered, Painted
      <3> QED  BY <2>10, <2>11, <2>12, <3>2, <3>3, <3>4, <3>5
    <2>13. CASE CoverpageLoaded(i, background) /\ UNCHANGED downloads
      <3>1. \A e \in Range(cache) : e.state = "scheduled" => <<"draw", e.item>> \in Range(background)
        BY <1>1 DEF EntryOK, EntryFine
      <3>2. /\ cache' \in Caches /\ Len(cache') <= MaxSize
            /\ background' \in Seq(BackgroundTasks)
            /\ Range(background') = Range(background) \cup {<<"draw", i>>}
            /\ painting' \in {Nothing} \cup Paintings
            /\ views' \in [Items -> [shown : Shown, dirty : BOOLEAN, lost : BOOLEAN]]
            /\ EntryOK' /\ PaintOK' /\ Ordered(i)'
            /\ \A v \in Items : /\ views'[v].shown = views[v].shown
                                /\ views[v].dirty => views'[v].dirty
                                /\ views[v].lost => views'[v].lost
                                /\ Ordered(v) => Ordered(v)' \/ views'[v].lost
                                /\ Painted(v) => Painted(v)'
        BY <1>1, <1>2, <2>6, <2>11, <2>13, <3>1, LoadedKeeps
      <3>3. Pending(i)'
        BY <3>2 DEF Pending
      <3> QED  BY <2>10, <2>11, <2>13, <3>2, <3>3
    <2>14. CASE \E links \in {<<>>, <<i>>, <<i, i>>} :
                   /\ downloads' = downloads \o links
                   /\ views' = [views EXCEPT ![i].lost = @ \/ links = <<>>]
                   /\ UNCHANGED <<cache, painting, background>>
      <3>1. PICK links \in {<<>>, <<i>>, <<i, i>>} :
                   /\ downloads' = downloads \o links
                   /\ views' = [views EXCEPT ![i].lost = @ \/ links = <<>>]
                   /\ UNCHANGED <<cache, painting, background>>
        BY <2>14
      <3>2. links \in Seq(Items) /\ (links # <<>> => i \in Range(links))
        <4>1. CASE links = <<>>
          BY <4>1
        <4>2. CASE links = <<i>>
          BY <4>2 DEF Range
        <4>3. CASE links = <<i, i>>
          BY <4>3 DEF Range
        <4> QED  BY <4>1, <4>2, <4>3
      <3>3. downloads' \in Seq(Items) /\ Range(downloads') = Range(downloads) \cup Range(links)
        BY <2>11, <3>1, <3>2, RangeOfConcat
      <3>4. /\ views' \in [Items -> [shown : Shown, dirty : BOOLEAN, lost : BOOLEAN]]
            /\ \A v \in Items : /\ views'[v].shown = views[v].shown /\ views'[v].dirty = views[v].dirty
                                /\ views[v].lost => views'[v].lost
            /\ links = <<>> => views'[i].lost
        <4>1. PICK none \in BOOLEAN : none <=> links = <<>>
          OBVIOUS
        <4>2. views' = [views EXCEPT ![i].lost = @ \/ none]
          BY <3>1, <4>1
        <4>3. /\ views' \in [Items -> [shown : Shown, dirty : BOOLEAN, lost : BOOLEAN]]
              /\ \A v \in Items : /\ views'[v].shown = views[v].shown /\ views'[v].dirty = views[v].dirty
                                  /\ views[v].lost => views'[v].lost
              /\ none => views'[i].lost
          BY <2>11, <4>2
        <4> QED  BY <4>1, <4>3
      <3>5. EntryOK' /\ PaintOK'
        BY <1>1, <1>2, <2>9, <3>1, <3>4, CacheStays
      <3>6. Pending(i)' \/ views'[i].lost
        BY <3>2, <3>3, <3>4 DEF Pending
      <3>7. \A v \in Items : (Ordered(v) => Ordered(v)') /\ (Painted(v) => Painted(v)')
        BY <3>1 DEF Ordered, Painted
      <3> QED  BY <2>10, <2>11, <3>1, <3>3, <3>4, <3>5, <3>6, <3>7
    <2> QED  BY <2>3, <2>12, <2>13, <2>14
  <1> QED  BY <1>5, <1>6

LEMMA DrawViewEndsOK == ASSUME IInv, DrawViewEnds  PROVE IInv'
  <1>1. Types /\ GuiOK /\ EntryOK /\ PaintOK /\ ViewOK
    BY DEF IInv
  <1>2. /\ painting # Nothing /\ painting' = Nothing
        /\ UNCHANGED <<kind, notifying, database, downloads, background, drawing, font>>
    BY DEF DrawViewEnds
  <1>3. painting \in Paintings
    BY <1>1, <1>2 DEF Types
  <1>4. PICK i \in Items : painting.item = i
    BY <1>3 DEF Paintings
  <1>5. /\ cache \in Caches /\ Len(cache) <= MaxSize /\ Len(cache) \in Nat
        /\ Range(cache) \subseteq Entries /\ MaxSize \in Nat
        /\ \A x, y \in Range(cache) : x.item = y.item => x = y
        /\ Has(cache, i) <=> \E x \in Range(cache) : x.item = i
    BY <1>1, CacheIs, CoverPagesAssumption DEF Types
  <1>6. PaintOK' /\ \A v : ~ Painted(v)'
    BY <1>2 DEF PaintOK, Painted
  <1>7. \A v \in Items \ {i} : ~ Painted(v)
    BY <1>4 DEF Painted
  \* The view shows something else; nothing but the cache changes.
  <1>8. ASSUME UNCHANGED <<queues, gui>>, NEW s \in Shown, views' = [views EXCEPT ![i].shown = s],
               cache' = cache \/ cache' = Removed(cache, i),
               s = font \/ views[i].lost \/ Told(i) \/ DrawnNow(i)
        PROVE  IInv'
    <2>1. /\ views' \in [Items -> [shown : Shown, dirty : BOOLEAN, lost : BOOLEAN]]
          /\ views'[i].shown = s
          /\ \A v \in Items : views'[v].dirty = views[v].dirty /\ views'[v].lost = views[v].lost
          /\ \A v \in Items \ {i} : views'[v].shown = views[v].shown
      BY <1>1, <1>8 DEF Types
    <2>2. /\ cache' \in Caches /\ Len(cache') <= MaxSize /\ Range(cache') \subseteq Range(cache)
          /\ \A e \in Range(cache) : e.item # i => e \in Range(cache')
      <3>1. CASE cache' = cache
        BY <1>5, <3>1
      <3>2. CASE cache' = Removed(cache, i)
        <4>1. /\ cache' \in Caches /\ Range(cache') = {x \in Range(cache) : x.item # i}
              /\ Len(cache') = IF Has(cache, i) THEN Len(cache) - 1 ELSE Len(cache)
          BY <1>5, <3>2, RemovedKeeps
        <4>2. Len(cache') <= MaxSize
          BY <1>5, <4>1
        <4> QED  BY <4>1, <4>2
      <3> QED  BY <1>8, <3>1, <3>2
    <2>3. Types'
      BY <1>1, <1>2, <1>8, <2>1, <2>2 DEF Types
    <2>4. GuiOK'
      BY <1>1, <1>8 DEF GuiOK
    <2>5. EntryOK'
      <3>1. SUFFICES ASSUME NEW e \in Range(cache)  PROVE EntryFine(e)'
        BY <2>2 DEF EntryOK
      <3>2. EntryFine(e) /\ e.item \in Items
        BY <1>1, <1>5 DEF EntryOK, Entries
      <3> QED  BY <1>2, <1>6, <2>1, <3>2 DEF EntryFine, DrawnNow
    <2>6. ViewOK'
      <3>1. ASSUME NEW v \in Items \ {i}, Pending(v)  PROVE Pending(v)'
        <4>1. Ordered(v) => Ordered(v)'
          BY <2>2 DEF Ordered
        <4>2. (Told(v)' <=> Told(v)) /\ (DrawnNow(v)' <=> DrawnNow(v)) /\ ~ Painted(v)
          BY <1>2, <1>7, <1>8 DEF Told, DrawnNow
        <4> QED  BY <1>2, <1>8, <2>1, <3>1, <4>1, <4>2 DEF Pending
      <3>2. (Told(i) => Told(i)') /\ (DrawnNow(i) => DrawnNow(i)')
        BY <1>2, <1>8 DEF Told, DrawnNow
      <3>3. views'[i].shown \in {"no", font'} \/ views'[i].lost \/ Pending(i)'
        BY <1>2, <1>8, <2>1, <3>2 DEF Pending
      <3> QED  BY <1>1, <1>2, <2>1, <3>1, <3>3 DEF ViewOK
    <2> QED  BY <1>6, <2>3, <2>4, <2>5, <2>6 DEF IInv
  <1>9. CASE painting.found /\ ~ painting.recycled
    <2>1. painting.bitmap = font /\ font \in Shown
      BY <1>1, <1>2, <1>9 DEF PaintOK, Types, Shown
    <2>2. /\ views' = [views EXCEPT ![i].shown = font] /\ UNCHANGED <<cache, queues, gui>>
      BY <1>4, <1>9, <2>1 DEF DrawViewEnds
    <2> QED  BY <1>8, <2>1, <2>2
  <1>10. CASE painting.found /\ painting.recycled
    <2>1. views[i].lost \/ Told(i) \/ DrawnNow(i)
      BY <1>1, <1>2, <1>4, <1>10 DEF PaintOK
    <2>2. /\ views' = [views EXCEPT ![i].shown = "blank"] /\ cache' \in {cache, Removed(cache, i)}
          /\ UNCHANGED <<queues, gui>>
      BY <1>4, <1>10 DEF DrawViewEnds
    <2>3. "blank" \in Shown
      BY DEF Shown
    <2> QED  BY <1>8, <2>1, <2>2, <2>3
  <1>11. CASE ~ painting.found
    <2> DEFINE t == [views EXCEPT ![i].shown = "title"]
    <2>1. QueueForDrawing(i, t)
      BY <1>4, <1>11 DEF DrawViewEnds
    <2>2. /\ t \in [Items -> [shown : Shown, dirty : BOOLEAN, lost : BOOLEAN]]
          /\ \A v \in Items : t[v].dirty = views[v].dirty /\ t[v].lost = views[v].lost
          /\ \A v \in Items \ {i} : t[v].shown = views[v].shown
      <3>1. "title" \in Shown
        BY DEF Shown
      <3> QED  BY <1>1, <3>1 DEF Types
    <2> HIDE DEF t
    <2>9. CASE kind[i] = "unknown"
      <3>1. UNCHANGED <<cache, queues, gui>> /\ views' = [t EXCEPT ![i].lost = TRUE]
        BY <2>1, <2>9 DEF QueueForDrawing
      <3>2. /\ views' \in [Items -> [shown : Shown, dirty : BOOLEAN, lost : BOOLEAN]]
            /\ views'[i].lost /\ \A v \in Items \ {i} : views'[v] = t[v]
            /\ \A v \in Items : /\ views'[v].dirty = views[v].dirty
                                /\ views[v].lost => views'[v].lost
        BY <2>2, <3>1
      <3>3. Types' /\ GuiOK'
        BY <1>1, <1>2, <3>1, <3>2 DEF Types, GuiOK
      <3>4. EntryOK'
        <4>1. SUFFICES ASSUME NEW x \in Range(cache)  PROVE EntryFine(x)'
          BY <3>1 DEF EntryOK
        <4>2. EntryFine(x) /\ x.item \in Items
          BY <1>1, <1>5 DEF EntryOK, Entries
        <4> QED  BY <1>2, <1>6, <3>1, <3>2, <4>2 DEF EntryFine, DrawnNow
      <3>5. ViewOK'
        <4>1. \A v : /\ Told(v)' <=> Told(v)
                     /\ Ordered(v)' <=> Ordered(v)
                     /\ DrawnNow(v)' <=> DrawnNow(v)
          BY <1>2, <3>1 DEF Told, Ordered, DrawnNow
        <4>2. ASSUME NEW v \in Items \ {i}, Pending(v)  PROVE Pending(v)'
          BY <1>2, <1>7, <3>1, <3>2, <4>1, <4>2 DEF Pending
        <4> QED  BY <1>1, <1>2, <2>2, <3>2, <4>2 DEF ViewOK
      <3> QED  BY <1>6, <3>3, <3>4, <3>5 DEF IInv
    <2>10. SUFFICES ASSUME kind[i] # "unknown"  PROVE IInv'
      BY <2>9
    <2>3. PICK c \in Caches : /\ c = GetItem(cache, i) /\ Len(c) = Len(cache)
                             /\ Range(c) = Range(cache)
      BY <1>5, GetItemKeeps
    <2>4. /\ Has(c, i) <=> \E x \in Range(c) : x.item = i
          /\ Has(c, i) => Entry(c, i) \in Range(c) /\ Entry(c, i).item = i
      BY CacheIs
    <2>5. cache' = c
      BY <2>1, <2>3, <2>10 DEF QueueForDrawing
    <2>6. \A v : (Ordered(v)' <=> Ordered(v)) /\ (DrawnNow(v)' <=> DrawnNow(v))
      BY <1>2, <2>3, <2>5 DEF Ordered, DrawnNow
    <2>7. CASE Has(c, i) /\ Entry(c, i).state \in {"drawing", "ready"}
      <3>1. views' = t /\ UNCHANGED <<queues, gui>>
        BY <2>1, <2>3, <2>7, <2>10 DEF QueueForDrawing
      <3>2. PICK e \in Range(cache) : e.item = i /\ e.state \in {"drawing", "ready"}
        BY <2>3, <2>4, <2>7
      <3>3. views[i].lost \/ Told(i) \/ DrawnNow(i)
        <4>1. EntryFine(e) /\ Painted(i)
          BY <1>1, <1>2, <1>4 DEF EntryOK, Painted
        <4> QED  BY <1>11, <3>2, <4>1 DEF EntryFine
      <3>4. Types'
        BY <1>1, <1>2, <2>2, <2>3, <2>5, <3>1 DEF Types
      <3>5. GuiOK'
        BY <1>1, <3>1 DEF GuiOK
      <3>6. EntryOK'
        <4>1. SUFFICES ASSUME NEW x \in Range(cache)  PROVE EntryFine(x)'
          BY <2>3, <2>5 DEF EntryOK
        <4>2. EntryFine(x) /\ x.item \in Items
          BY <1>1, <1>5 DEF EntryOK, Entries
        <4> QED  BY <1>2, <1>6, <2>2, <3>1, <4>2 DEF EntryFine, DrawnNow
      <3>7. ViewOK'
        <4>1. \A v : Told(v)' <=> Told(v)
          BY <1>2, <3>1 DEF Told
        <4>2. ASSUME NEW v \in Items \ {i}, Pending(v)  PROVE Pending(v)'
          BY <1>2, <1>7, <2>2, <2>6, <3>1, <4>1, <4>2 DEF Pending
        <4>3. views'[i].lost \/ Pending(i)'
          BY <2>2, <2>6, <3>1, <3>3, <4>1 DEF Pending
        <4> QED  BY <1>1, <1>2, <2>2, <3>1, <4>2, <4>3 DEF ViewOK
      <3> QED  BY <1>6, <3>4, <3>5, <3>6, <3>7 DEF IInv
    <2>8. CASE ~(Has(c, i) /\ Entry(c, i).state \in {"drawing", "ready"})
      <3>1. PICK q \in {"check", "scan"} :
               /\ queues' = [queues EXCEPT ![q] = AddOnTop(queues[q], i)]
               /\ gui' = IF i \in Range(queues[q]) THEN gui ELSE Schedule(gui, q)
               /\ views' = [t EXCEPT ![i].lost = FALSE]
        BY <2>1, <2>3, <2>8, <2>10 DEF QueueForDrawing
      <3> DEFINE p == queues[q]
                 r == AddOnTop(p, i)
      <3>2. q \in QueueNames /\ p \in Seq(Items) /\ IsInjective(p) /\ gui \in Seq(GuiTasks)
        BY <1>1 DEF Types, QueueNames
      <3>3. r \in Seq(Items) /\ IsInjective(r) /\ Range(r) = Range(p) \cup {i}
        BY <3>2, AddOnTopKeeps
      <3>4. /\ gui' \in Seq(GuiTasks) /\ Range(gui) \subseteq Range(gui') /\ <<q>> \in Range(gui')
            /\ Range(gui') \subseteq Range(gui) \cup {<<q>>}
        <4>1. CASE i \in Range(p)
          <5>1. gui' = gui
            BY <3>1, <4>1
          <5>2. <<q>> \in Range(gui)
            BY <1>1, <4>1 DEF GuiOK
          <5> QED  BY <3>2, <5>1, <5>2
        <4>2. CASE i \notin Range(p)
          <5>1. gui' = Schedule(gui, q)
            BY <3>1, <4>2
          <5> QED  BY <3>2, <5>1, GuiScheduleKeeps
        <4> QED  BY <4>1, <4>2
      <3>5. /\ queues' \in [QueueNames -> Seq(Items)] /\ queues'[q] = r
            /\ \A o \in QueueNames \ {q} : queues'[o] = queues[o]
        <4> HIDE DEF r
        <4>1. queues' = [queues EXCEPT ![q] = r]
          BY <3>1 DEF r
        <4> QED  BY <1>1, <3>2, <3>3, <4>1 DEF Types
      <3> HIDE DEF r, p
      <3>6. \A o \in QueueNames : /\ IsInjective(queues'[o])
                                  /\ Range(queues[o]) \subseteq Range(queues'[o])
                                  /\ o # q => Range(queues'[o]) = Range(queues[o])
        BY <1>1, <3>2, <3>3, <3>5 DEF Types, p
      <3>7. /\ views' \in [Items -> [shown : Shown, dirty : BOOLEAN, lost : BOOLEAN]]
            /\ \A v \in Items \ {i} : views'[v] = t[v]
            /\ \A v \in Items : views'[v].dirty = t[v].dirty
        BY <2>2, <3>1
      <3>8. Types'
        BY <1>1, <1>2, <2>3, <2>5, <3>4, <3>5, <3>6, <3>7 DEF Types
      <3>9. GuiOK'
        <4>1. SUFFICES ASSUME NEW o \in {"check", "scan"}, Range(queues'[o]) # {}
                       PROVE  <<o>> \in Range(gui')
          BY DEF GuiOK
        <4>2. CASE o = q
          BY <3>4, <4>2
        <4>3. CASE o # q
          BY <1>1, <3>4, <3>6, <4>1, <4>3 DEF GuiOK, QueueNames
        <4> QED  BY <4>2, <4>3
      <3>10. EntryOK'
        <4>1. SUFFICES ASSUME NEW x \in Range(cache)  PROVE EntryFine(x)'
          BY <2>3, <2>5 DEF EntryOK
        <4>2. EntryFine(x) /\ x.item \in Items
          BY <1>1, <1>5 DEF EntryOK, Entries
        <4>3. x.item = i => x.state \notin {"drawing", "ready"}
          BY <1>5, <2>3, <2>4, <2>8
        <4>4. x.state = "drawing" => x.held \/ views'[x.item].lost
          BY <2>2, <3>7, <4>2, <4>3 DEF EntryFine
        <4> QED  BY <1>2, <1>6, <4>2, <4>4 DEF EntryFine, DrawnNow
      <3>11. ViewOK'
        <4>1. \A v : Told(v) => Told(v)'
          BY <1>2, <3>6 DEF Told, QueueNames
        <4>2. \A v \in Items : /\ v \in Range(queues["check"]) => v \in Range(queues'["check"])
                               /\ v \in Range(queues["scan"]) => v \in Range(queues'["scan"])
          BY <3>6 DEF QueueNames
        <4>3. ASSUME NEW v \in Items \ {i}, Pending(v)  PROVE Pending(v)'
          BY <1>2, <1>7, <2>2, <2>6, <3>4, <3>7, <4>1, <4>2, <4>3 DEF Pending
        <4>4. i \in Range(queues'["check"]) \/ i \in Range(queues'["scan"])
          BY <3>3, <3>5
        <4> QED  BY <1>1, <1>2, <2>2, <3>7, <4>3, <4>4 DEF ViewOK, Pending
      <3> QED  BY <1>6, <3>8, <3>9, <3>10, <3>11 DEF IInv
    <2> QED  BY <2>7, <2>8
  <1> QED  BY <1>3, <1>9, <1>10, <1>11 DEF Paintings

LEMMA StutterOK == ASSUME IInv, UNCHANGED vars  PROVE IInv'
  BY DEF IInv, vars, Types, GuiOK, EntryOK, EntryFine, PaintOK, ViewOK, Pending, Told, Painted,
         DrawnNow, Ordered, Caches

LEMMA NextOK == IInv /\ [Next]_vars => IInv'
  <1> SUFFICES ASSUME IInv, [Next]_vars  PROVE IInv'
    OBVIOUS
  <1> QED  BY DrawViewOK, UnqueueOK, DrawViewEndsOK, CheckTaskOK, MissingOK, LoadedOK, ScanTaskOK,
              NotifyOK, AnswerOK, DownloadOK, ScanOK, DrawStartsOK, SetBitmapOK, DrawEndsOK,
              DrawFailsOK,
              SetFontFaceOK, StutterOK DEF Next

\* IInv is inductive.
THEOREM Invariant == Spec => []IInv
  BY InitOK, NextOK, PTL DEF Spec

-----------------------------------------------------------------------------
\* The lists and the cache are sound, for any number of covers and any size of the cache:
\* BitmapCache never has an item twice, and an entry that is READY has its bitmap.
THEOREM TypeCorrect == Spec => []TypeOK
  <1>1. IInv => TypeOK
    <2>1. SUFFICES ASSUME IInv  PROVE TypeOK
      OBVIOUS
    <2>2. Types /\ EntryOK
      BY <2>1 DEF IInv
    <2>3. /\ Len(cache) <= MaxSize /\ Range(cache) \subseteq Entries
          /\ \A k, l \in DOMAIN cache : k # l => cache[k].item # cache[l].item
      BY <2>2, CacheIs DEF Types, Caches, One
    <2>4. \A e \in Range(cache) :
             /\ e.item \in Items /\ e.state \in {"scheduled", "drawing", "ready"}
             /\ e.bitmap \in Fonts \cup {NoBitmap}
             /\ e.state = "ready" => e.bitmap # NoBitmap
             /\ e.held => drawing # Nothing /\ drawing.item = e.item
      BY <2>2, <2>3 DEF Entries, EntryOK, EntryFine, DrawnNow
    <2>5. \A q \in DOMAIN queues : IsInjective(queues[q]) /\ Range(queues[q]) \subseteq Items
      <3>1. SUFFICES ASSUME NEW q \in QueueNames
                     PROVE  IsInjective(queues[q]) /\ Range(queues[q]) \subseteq Items
        BY <2>2 DEF Types
      <3>2. queues[q] \in Seq(Items) /\ IsInjective(queues[q])
        BY <2>2 DEF Types
      <3> QED  BY <3>2, RangeIs
    <2>6. background \in Seq({"scan", "draw"} \X Items)
      BY <2>2 DEF Types
    <2>7. \A i \in Items : views[i].shown \in {"no", "title", "blank"} \cup Fonts
      BY <2>2 DEF Types, Shown
    <2> QED  BY <2>3, <2>4, <2>5, <2>6, <2>7 DEF TypeOK
  <1> QED  BY <1>1, Invariant, PTL

\* What draw puts into the entry that it took never comes back with a font that setFontFace
\* has changed since: clear() drops the entry, and a new one for the item is another one.
THEOREM FontIsFresh == Spec => []NoStaleFont
  <1>1. IInv => NoStaleFont
    BY DEF IInv, EntryOK, EntryFine, NoStaleFont
  <1> QED  BY <1>1, Invariant, PTL

\* When no thread has anything to do, a view shows its cover in the font of now, unless its
\* request was dropped: the chain of tasks of CoverpageManager, which post themselves and
\* replace each other, forgets no request.
THEOREM CoversArrive == Spec => []EveryCoverArrives
  <1>1. IInv => EveryCoverArrives
    <2>1. SUFFICES ASSUME IInv, AtRest, NEW i \in Items
                   PROVE  views[i].shown \in {"no", font} \/ views[i].lost
      BY DEF EveryCoverArrives
    <2>2. GuiOK /\ EntryOK /\ ViewOK
      BY <2>1 DEF IInv
    <2>3. Range(gui) = {} /\ Range(database) = {} /\ Range(downloads) = {} /\ Range(background) = {}
      BY <2>1, EmptyRange DEF AtRest
    <2>4. Range(queues["check"]) = {} /\ Range(queues["scan"]) = {}
      BY <2>2, <2>3 DEF GuiOK
    <2>5. ~ Ordered(i)
      BY <2>2, <2>3 DEF Ordered, EntryOK, EntryFine
    <2>6. ~ Pending(i)
      BY <2>1, <2>3, <2>4, <2>5 DEF Pending, AtRest, Painted, Told, DrawnNow
    <2> QED  BY <2>2, <2>6 DEF ViewOK
  <1> QED  BY <1>1, Invariant, PTL
=============================================================================
