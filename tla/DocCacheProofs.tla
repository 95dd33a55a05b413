---------------------------- MODULE DocCacheProofs ----------------------------
(***************************************************************************)
(* The directory of cache files, for all documents, sizes and limits.      *)
(*                                                                         *)
(* The index: what writeIndex remembers of the last list it wrote is what  *)
(* it would see in the file, unless nothing is remembered or a write       *)
(* failed.                                                                 *)
(*                                                                         *)
(* The files: reserve() is a fold, and the proofs go through its rounds.   *)
(* What every round keeps (After, Fitting, Staying) holds in the end, by   *)
(* FoldKeeps of ListFacts.                                                 *)
(***************************************************************************)
EXTENDS DocCache, ListFacts

-----------------------------------------------------------------------------
(* The rounds of reserve(). *)

Items == [filename : Docs, size : Sizes]
\* What a round of the loop of reserve() leaves.
Rests == [files : Seq(Items), dirsize : Nat, gone : SUBSET Docs]
Before0(alloc) == [files |-> <<>>, dirsize |-> alloc, gone |-> {}]

LEMMA ItemTypes ==
    ASSUME NEW f \in Items
    PROVE  f.filename \in Docs /\ f.size \in Sizes /\ f.size \in Nat
  BY DocCacheAssumption DEF Items

LEMMA VisitType ==
    ASSUME NEW r \in Rests, NEW f \in Items, NEW dir, NEW alloc, NEW stuck
    PROVE  Visit(r, f, dir, alloc, stuck) \in Rests
  <1>1. /\ f.filename \in Docs /\ f.size \in Nat
        /\ r.files \in Seq(Items) /\ r.dirsize \in Nat /\ r.gone \in SUBSET Docs
    BY ItemTypes DEF Rests
  <1>2. /\ r.gone \cup {f.filename} \in SUBSET Docs
        /\ Append(r.files, f) \in Seq(Items)
        /\ r.dirsize + f.size \in Nat
    BY <1>1
  <1> DEFINE g == r.gone \cup {f.filename}
             s == Append(r.files, f)
             n == r.dirsize + f.size
  <1>3. /\ [r EXCEPT !.gone = g] \in Rests
        /\ [r EXCEPT !.files = s, !.dirsize = n] \in Rests
    <2> HIDE DEF g, s, n
    <2>1. g \in SUBSET Docs /\ s \in Seq(Items) /\ n \in Nat
      BY <1>2 DEF g, s, n
    <2> QED  BY <2>1 DEF Rests
  <1> QED  BY <1>3 DEF Visit

\* The rounds of the loop, one after the other.
Rounds(r, list, dir, alloc, stuck) ==
    /\ r[0] = Before0(alloc)
    /\ \A k \in 1 .. Len(list) : r[k] = Visit(r[k - 1], list[k], dir, alloc, stuck)
    /\ Reserved(list, dir, alloc, stuck)
           = [files |-> r[Len(list)].files, disk |-> dir \ r[Len(list)].gone]

LEMMA ReserveRounds ==
    ASSUME NEW list \in Seq(Items), NEW dir, NEW alloc \in Nat, NEW stuck
    PROVE  \E r : Rounds(r, list, dir, alloc, stuck)
  <1> DEFINE n == Len(list)
             base == Before0(alloc)
             Step(r, f) == Visit(r, f, dir, alloc, stuck)
             it == CHOOSE f : f = [s \in SUBSET (1 .. n) |->
                                      IF s = {} THEN base
                                      ELSE Step(f[s \ {Max(s)}], list[Max(s)])]
             G == [k \in 1 .. n |-> [x \in Rests |-> Step(x, list[k])]]
  <1>1. n \in Nat /\ DOMAIN list = 1 .. n /\ \A k \in 1 .. n : list[k] \in Items
    OBVIOUS
  <1>2. base \in Rests
    BY DEF Before0, Rests
  <1>3. G \in [1 .. n -> [Rests -> Rests]]
    BY <1>1, VisitType
  <1>4. Reserved(list, dir, alloc, stuck)
            = [files |-> it[1 .. n].files, disk |-> dir \ it[1 .. n].gone]
    BY <1>1, Zenon DEF Reserved, FoldLeft, MapThenFoldSet, Before0
  <1>5. \E f : f = [s \in SUBSET (1 .. n) |->
                       IF s = {} THEN base ELSE Step(f[s \ {Max(s)}], list[Max(s)])]
    <2> HIDE DEF base, G, n, Step
    <2>0. n \in Nat
      BY <1>1
    <2>1. PICK f : FoldsOver(f, Rests, base, n, G)
      BY <2>0, <1>2, <1>3, FoldExists, Zenon
    <2>2. ASSUME NEW s \in SUBSET (1 .. n), s # {}
          PROVE  G[Max(s)][f[s \ {Max(s)}]] = Step(f[s \ {Max(s)}], list[Max(s)])
      <3>1. Max(s) \in 1 .. n /\ f[s \ {Max(s)}] \in Rests
        BY <1>1, <2>1, <2>2, LargestIn DEF FoldsOver
      <3> QED  BY <3>1 DEF G
    <2>3. [s \in SUBSET (1 .. n) |->
              IF s = {} THEN base ELSE G[Max(s)][f[s \ {Max(s)}]]]
          = [s \in SUBSET (1 .. n) |->
                IF s = {} THEN base ELSE Step(f[s \ {Max(s)}], list[Max(s)])]
      BY <2>2, Zenon
    <2>4. f = [s \in SUBSET (1 .. n) |->
                IF s = {} THEN base ELSE Step(f[s \ {Max(s)}], list[Max(s)])]
      BY <2>1, <2>3, Zenon DEF FoldsOver
    <2> QED  BY <2>4, Zenon
  <1>6. it = [s \in SUBSET (1 .. n) |->
                 IF s = {} THEN base ELSE Step(it[s \ {Max(s)}], list[Max(s)])]
    BY <1>5, Zenon
  <1> DEFINE r == [k \in 0 .. n |-> it[1 .. k]]
  <1> HIDE DEF it, base, Step, n
  <1>7. r[0] = base
    BY <1>1, <1>6
  <1>8. ASSUME NEW k \in 1 .. n  PROVE r[k] = Step(r[k - 1], list[k])
    <2>1. k \in 0 .. n /\ k - 1 \in 0 .. n
      BY <1>1
    <2>2. /\ 1 .. k \in SUBSET (1 .. n) /\ 1 .. k # {} /\ Max(1 .. k) = k
          /\ (1 .. k) \ {k} = 1 .. k - 1
      BY <1>1, FoldPlaces
    <2>3. it[1 .. k] = IF 1 .. k = {} THEN base
                       ELSE Step(it[(1 .. k) \ {Max(1 .. k)}], list[Max(1 .. k)])
      BY <1>6, <2>2, Zenon
    <2>4. it[1 .. k] = Step(it[1 .. k - 1], list[k])
      BY <2>2, <2>3, Zenon
    <2> QED  BY <2>1, <2>4, Zenon
  <1>9. r[n] = it[1 .. n]
    BY <1>1
  <1>10. Rounds(r, list, dir, alloc, stuck)
    <2> HIDE DEF r
    <2> QED  BY <1>4, <1>7, <1>8, <1>9 DEF Rounds, base, Step, n
  <1> QED  BY <1>10, Zenon

-----------------------------------------------------------------------------
(* Lists of files. *)

LEMMA ListIs ==
    ASSUME NEW list
    PROVE  IsList(list) <=>
               /\ list \in Seq(Items)
               /\ \A i, j \in 1 .. Len(list) : list[i].filename = list[j].filename => i = j
  <1> DEFINE g == [i \in DOMAIN list |-> list[i].filename]
  <1>1. ASSUME list \in Seq(Items)  PROVE DOMAIN list = 1 .. Len(list)
    BY <1>1
  <1>2. IsInjective(g) <=>
            \A i, j \in DOMAIN list : list[i].filename = list[j].filename => i = j
    BY DEF IsInjective
  <1>3. Items = [filename : Docs, size : Sizes]
    BY DEF Items
  <1> HIDE DEF g
  <1>4. IsList(list) <=> list \in Seq(Items) /\ IsInjective(g)
    BY <1>3, Zenon DEF IsList, g
  <1> QED  BY <1>1, <1>2, <1>4

LEMMA NamesAre ==
    ASSUME NEW list \in Seq(Items)
    PROVE  /\ Names(list) \subseteq Docs
           /\ \A d : d \in Names(list) <=> \E i \in 1 .. Len(list) : list[i].filename = d
  <1>1. DOMAIN list = 1 .. Len(list) /\ \A i \in 1 .. Len(list) : list[i] \in Items
    OBVIOUS
  <1> QED  BY <1>1, ItemTypes DEF Names

LEMMA NoNames ==
    ASSUME NEW list \in Seq(Items), Names(list) = {}
    PROVE  list = <<>>
  <1>1. ASSUME list # <<>>  PROVE 1 \in 1 .. Len(list)
    BY <1>1
  <1> QED  BY <1>1, NamesAre

LEMMA EmptyList == IsList(<<>>) /\ Names(<<>>) = {} /\ <<>> \in Seq(Items)
  <1>1. <<>> \in Seq(Items) /\ Len(<<>>) = 0
    OBVIOUS
  <1>2. ASSUME NEW list, list = <<>>
        PROVE  IsList(list) /\ Names(list) = {}
    <2>1. list \in Seq(Items) /\ Len(list) = 0 /\ 1 .. Len(list) = {}
      BY <1>2
    <2>2. IsList(list)
      BY <2>1, ListIs
    <2>3. \A d : d \notin Names(list)
      BY <2>1, NamesAre
    <2> QED  BY <2>2, <2>3
  <1> QED  BY <1>1, <1>2

LEMMA AppendIsList ==
    ASSUME NEW list, IsList(list), NEW f \in Items, f.filename \notin Names(list)
    PROVE  /\ IsList(Append(list, f))
           /\ Names(Append(list, f)) = Names(list) \cup {f.filename}
  <1> DEFINE t == Append(list, f)
             n == Len(list)
  <1>1. /\ list \in Seq(Items)
        /\ \A i, j \in 1 .. n : list[i].filename = list[j].filename => i = j
    BY ListIs
  <1>2. /\ t \in Seq(Items) /\ Len(t) = n + 1 /\ t[n + 1] = f
        /\ \A i \in 1 .. n : t[i] = list[i]
        /\ n \in Nat
    BY <1>1
  <1>3. \A d : d \in Names(list) <=> \E i \in 1 .. n : list[i].filename = d
    BY <1>1, NamesAre
  <1> HIDE DEF t, n
  <1>4. \A d : d \in Names(t) <=> \E i \in 1 .. n + 1 : t[i].filename = d
    BY <1>2, NamesAre
  <1>5. \A i \in 1 .. n + 1 : i = n + 1 \/ i \in 1 .. n
    BY <1>2
  <1>6. n + 1 \in 1 .. n + 1 /\ 1 .. n \subseteq 1 .. n + 1
    BY <1>2
  <1>7. \A i, j \in 1 .. n + 1 : t[i].filename = t[j].filename => i = j
    BY <1>1, <1>2, <1>3, <1>5
  <1>8. IsList(t)
    BY <1>2, <1>7, ListIs
  <1>9. \A d : d \in Names(t) <=> d \in Names(list) \cup {f.filename}
    BY <1>2, <1>3, <1>4, <1>5, <1>6
  <1> QED  BY <1>8, <1>9 DEF t

\* Where everything is after moveFileToTop: m is the place that became free.
LEMMA ToTopPlaces ==
    ASSUME NEW list \in Seq(Items), NEW d \in Docs, NEW n \in Sizes
    PROVE  /\ ToTop(list, d, n) \in Seq(Items)
           /\ ToTop(list, d, n)[1] = Item(d, n)
           /\ \E m \in 1 .. Len(list) + 1 :
                /\ \/ /\ m = Len(list) + 1 /\ d \notin Names(list)
                      /\ Len(ToTop(list, d, n)) = Len(list) + 1
                   \/ /\ m \in 1 .. Len(list) /\ list[m].filename = d
                      /\ Len(ToTop(list, d, n)) = Len(list)
                /\ \A i \in 2 .. Len(ToTop(list, d, n)) :
                       ToTop(list, d, n)[i] = IF i <= m THEN list[i - 1] ELSE list[i]
  <1> DEFINE t == ToTop(list, d, n)
             k == Len(list)
             one == <<Item(d, n)>>
  <1>1. Item(d, n) \in Items
    BY DEF Item, Items
  <1>2. one \in Seq(Items) /\ Len(one) = 1 /\ one[1] = Item(d, n)
    BY <1>1
  <1>3. k \in Nat /\ DOMAIN list = 1 .. k
    OBVIOUS
  <1> HIDE DEF one
  <1>4. ASSUME NEW u \in Seq(Items)
        PROVE  /\ one \o u \in Seq(Items) /\ Len(one \o u) = Len(u) + 1
               /\ (one \o u)[1] = Item(d, n)
               /\ \A i \in 2 .. Len(u) + 1 : (one \o u)[i] = u[i - 1]
    <2>1. /\ one \o u \in Seq(Items) /\ Len(one \o u) = Len(one) + Len(u)
          /\ \A i \in 1 .. Len(one) + Len(u) :
                (one \o u)[i] = IF i <= Len(one) THEN one[i] ELSE u[i - Len(one)]
      BY <1>2, ConcatProperties
    <2>2. Len(u) \in Nat
      OBVIOUS
    <2> QED  BY <2>1, <2>2, <1>2
  <1>5. CASE Places(list, d) = {}
    <2>1. t = one \o list
      BY <1>5 DEF ToTop, one
    <2>2. d \notin Names(list)
      BY <1>3, <1>5, NamesAre DEF Places
    <2>3. /\ one \o list \in Seq(Items) /\ Len(one \o list) = k + 1 /\ (one \o list)[1] = Item(d, n)
          /\ \A i \in 2 .. k + 1 : (one \o list)[i] = list[i - 1]
      BY <1>4
    <2> HIDE DEF t, k
    <2>4. /\ t \in Seq(Items) /\ t[1] = Item(d, n) /\ Len(t) = k + 1
          /\ \A i \in 2 .. k + 1 : t[i] = list[i - 1]
      BY <2>1, <2>3
    <2>5. k + 1 \in 1 .. k + 1 /\ \A i \in 2 .. k + 1 : i <= k + 1
      BY <1>3
    <2> QED  BY <2>2, <2>4, <2>5 DEF t, k
  <1>6. CASE Places(list, d) # {}
    <2> DEFINE m == Min(Places(list, d))
    <2>1. Places(list, d) \subseteq Nat /\ Places(list, d) \subseteq 1 .. k
      BY <1>3 DEF Places
    <2>2. \E x \in Places(list, d) : \A y \in Places(list, d) : x <= y
      BY <2>1, <1>6, SmallestIn
    <2>3. m \in Places(list, d)
      BY <2>2, Zenon DEF Min
    <2>4. m \in 1 .. k /\ list[m].filename = d
      BY <1>3, <2>3 DEF Places
    <2>5. t = one \o RemoveAt(list, m)
      BY <1>6 DEF ToTop, one
    <2> HIDE DEF m
    <2> DEFINE u == RemoveAt(list, m)
    <2>6. /\ u \in Seq(Items) /\ Len(u) = k - 1
          /\ \A i \in 1 .. k - 1 : u[i] = IF i < m THEN list[i] ELSE list[i + 1]
      BY <2>4, RemoveAtKeeps
    <2> HIDE DEF u
    <2>7. /\ one \o u \in Seq(Items) /\ Len(one \o u) = Len(u) + 1 /\ (one \o u)[1] = Item(d, n)
          /\ \A i \in 2 .. Len(u) + 1 : (one \o u)[i] = u[i - 1]
      BY <1>4, <2>6
    <2>8. t = one \o u
      BY <2>5 DEF u
    <2> HIDE DEF t, k
    <2>9. t \in Seq(Items) /\ t[1] = Item(d, n) /\ Len(t) = k
      BY <1>3, <2>6, <2>7, <2>8
    <2>10. ASSUME NEW i \in 2 .. k  PROVE t[i] = IF i <= m THEN list[i - 1] ELSE list[i]
      <3>1. /\ i - 1 \in 1 .. k - 1 /\ i \in 2 .. Len(u) + 1 /\ (i - 1) + 1 = i
            /\ i - 1 < m <=> i <= m
        BY <1>3, <2>4, <2>6
      <3>2. t[i] = u[i - 1]
        BY <3>1, <2>7, <2>8
      <3>3. u[i - 1] = IF i - 1 < m THEN list[i - 1] ELSE list[i]
        BY <3>1, <2>6
      <3> QED  BY <3>1, <3>2, <3>3
    <2>11. m \in 1 .. k + 1
      BY <1>3, <2>4
    <2> QED  BY <2>4, <2>9, <2>10, <2>11 DEF t, k
  <1> QED  BY <1>5, <1>6

LEMMA ToTopIsList ==
    ASSUME NEW list, IsList(list), NEW d \in Docs, NEW n \in Sizes
    PROVE  /\ IsList(ToTop(list, d, n))
           /\ Names(ToTop(list, d, n)) = Names(list) \cup {d}
  <1> DEFINE t == ToTop(list, d, n)
             k == Len(list)
             l == Len(t)
  <1>1. /\ list \in Seq(Items) /\ k \in Nat
        /\ \A i, j \in 1 .. k : list[i].filename = list[j].filename => i = j
    BY ListIs
  <1>2. t \in Seq(Items) /\ t[1] = Item(d, n) /\ l \in Nat
    BY <1>1, ToTopPlaces
  <1>3. PICK m \in 1 .. k + 1 :
            /\ \/ m = k + 1 /\ d \notin Names(list) /\ l = k + 1
               \/ m \in 1 .. k /\ list[m].filename = d /\ l = k
            /\ \A i \in 2 .. l : t[i] = IF i <= m THEN list[i - 1] ELSE list[i]
    BY <1>1, ToTopPlaces
  <1>4. /\ \A x : x \in Names(list) <=> \E i \in 1 .. k : list[i].filename = x
        /\ \A x : x \in Names(t) <=> \E i \in 1 .. l : t[i].filename = x
    BY <1>1, <1>2, NamesAre
  <1> HIDE DEF t, k, l
  <1>5. t[1].filename = d /\ 1 \in 1 .. l
    BY <1>1, <1>2, <1>3 DEF Item
  <1> DEFINE Old(i) == IF i <= m THEN i - 1 ELSE i
  <1>6. \A i \in 2 .. l : Old(i) \in (1 .. k) \ {m} /\ t[i] = list[Old(i)]
    BY <1>1, <1>3
  <1>7. \A i, j \in 2 .. l : Old(i) = Old(j) => i = j
    BY <1>1, <1>3
  <1>8. \A i \in (1 .. k) \ {m} : \E j \in 2 .. l : Old(j) = i
    <2> SUFFICES ASSUME NEW i \in (1 .. k) \ {m}  PROVE \E j \in 2 .. l : Old(j) = i
      OBVIOUS
    <2>1. CASE i < m
      <3>1. i + 1 \in 2 .. l /\ Old(i + 1) = i
        BY <1>1, <1>3, <2>1
      <3> QED  BY <3>1
    <2>2. CASE i > m
      <3>1. i \in 2 .. l /\ Old(i) = i
        BY <1>1, <1>3, <2>2
      <3> QED  BY <3>1
    <2> QED  BY <1>1, <1>3, <2>1, <2>2
  <1>9. \A i \in (1 .. k) \ {m} : list[i].filename # d
    BY <1>1, <1>3, <1>4
  <1>10. \A i \in 1 .. l : i = 1 \/ i \in 2 .. l
    BY <1>1, <1>3
  <1>11. 2 .. l \subseteq 1 .. l
    OBVIOUS
  <1> HIDE DEF Old
  <1>12. \A i \in 2 .. l : t[i].filename # d
    BY <1>6, <1>9
  <1>13. \A i, j \in 2 .. l : t[i].filename = t[j].filename => i = j
    BY <1>1, <1>6, <1>7
  <1>14. \A i, j \in 1 .. l : t[i].filename = t[j].filename => i = j
    BY <1>5, <1>10, <1>12, <1>13
  <1>15. \A x : x \in Names(t) => x \in Names(list) \cup {d}
    BY <1>4, <1>5, <1>6, <1>10
  <1>16. \A x \in Names(list) : x = d \/ \E i \in (1 .. k) \ {m} : list[i].filename = x
    <2> SUFFICES ASSUME NEW x \in Names(list), x # d
                 PROVE  \E i \in (1 .. k) \ {m} : list[i].filename = x
      OBVIOUS
    <2>1. PICK i \in 1 .. k : list[i].filename = x
      BY <1>4
    <2>2. i # m
      BY <1>1, <1>3, <2>1
    <2> QED  BY <2>1, <2>2
  <1>17. \A x : x \in Names(list) \cup {d} => x \in Names(t)
    BY <1>4, <1>5, <1>6, <1>8, <1>11, <1>16
  <1>18. IsList(t)
    BY <1>2, <1>14, ListIs DEF l
  <1> QED  BY <1>15, <1>17, <1>18 DEF t

-----------------------------------------------------------------------------
(* What reserve() leaves. *)

\* The names of the first k files.
NamesTo(list, k) == {list[i].filename : i \in 1 .. k}

\* After k rounds.
After(list, dir, stuck, k) ==
    {r \in Rests :
        /\ IsList(r.files)
        /\ Names(r.files) \subseteq NamesTo(list, k) \cap dir
        /\ r.gone \subseteq (NamesTo(list, k) \cap dir) \ Names(r.files)
        /\ NamesTo(list, k) \cap dir \subseteq Names(r.files) \cup r.gone
        /\ r.gone \cap stuck = {}}

LEMMA NamesGrow ==
    ASSUME NEW list, IsList(list), NEW k \in 1 .. Len(list)
    PROVE  /\ list[k] \in Items
           /\ NamesTo(list, k) = NamesTo(list, k - 1) \cup {list[k].filename}
           /\ list[k].filename \notin NamesTo(list, k - 1)
  <1>1. list \in Seq(Items) /\ Len(list) \in Nat
        /\ \A i, j \in 1 .. Len(list) : list[i].filename = list[j].filename => i = j
    BY ListIs
  <1>2. list[k] \in Items
    BY <1>1
  <1>3. \A i : i \in 1 .. k <=> i = k \/ i \in 1 .. k - 1
    BY <1>1
  <1>4. \A i \in 1 .. k - 1 : i \in 1 .. Len(list) /\ i # k
    BY <1>1
  <1>5. NamesTo(list, k) = NamesTo(list, k - 1) \cup {list[k].filename}
    BY <1>3 DEF NamesTo
  <1>6. list[k].filename \notin NamesTo(list, k - 1)
    BY <1>1, <1>4 DEF NamesTo
  <1> QED  BY <1>2, <1>5, <1>6

LEMMA AllNames ==
    ASSUME NEW list \in Seq(Items)
    PROVE  NamesTo(list, 0) = {} /\ NamesTo(list, Len(list)) = Names(list)
  <1>1. DOMAIN list = 1 .. Len(list) /\ 1 .. 0 = {}
    OBVIOUS
  <1> QED  BY <1>1 DEF NamesTo, Names

\* What a round does with the next file: it is not there, it goes, or it stays.
LEMMA VisitCases ==
    ASSUME NEW r \in Rests, NEW f \in Items, NEW dir, NEW alloc, NEW stuck, NEW v,
           v = Visit(r, f, dir, alloc, stuck)
    PROVE  /\ v \in Rests
           /\ \/ f.filename \notin dir /\ v = r
              \/ /\ f.filename \in dir
                 /\ TooMuch(r, f, alloc) /\ f.filename \notin stuck
                 /\ v.files = r.files /\ v.dirsize = r.dirsize
                 /\ v.gone = r.gone \cup {f.filename}
              \/ /\ f.filename \in dir
                 /\ ~ (TooMuch(r, f, alloc) /\ f.filename \notin stuck)
                 /\ v.files = Append(r.files, f) /\ v.dirsize = r.dirsize + f.size
                 /\ v.gone = r.gone
  <1>1. v \in Rests
    BY VisitType
  <1> DEFINE g == r.gone \cup {f.filename}
             s == Append(r.files, f)
             n == r.dirsize + f.size
             a == [r EXCEPT !.gone = g]
             b == [r EXCEPT !.files = s, !.dirsize = n]
  <1>2. /\ a.files = r.files /\ a.dirsize = r.dirsize /\ a.gone = g
        /\ b.files = s /\ b.dirsize = n /\ b.gone = r.gone
    <2> HIDE DEF g, s, n
    <2> QED  BY DEF Rests
  <1>3. v = IF f.filename \notin dir THEN r
            ELSE IF TooMuch(r, f, alloc) /\ f.filename \notin stuck THEN a ELSE b
    BY DEF Visit
  <1> HIDE DEF a, b
  <1> QED  BY <1>1, <1>2, <1>3

LEMMA AfterNext ==
    ASSUME NEW list, IsList(list), NEW k \in 1 .. Len(list), NEW dir, NEW alloc, NEW stuck,
           NEW r \in After(list, dir, stuck, k - 1), NEW v,
           v = Visit(r, list[k], dir, alloc, stuck)
    PROVE  v \in After(list, dir, stuck, k)
  <1> DEFINE d == list[k].filename
             old == NamesTo(list, k - 1)
             new == NamesTo(list, k)
  <1>1. list[k] \in Items /\ new = old \cup {d} /\ d \notin old
    BY NamesGrow
  <1>2. /\ r \in Rests
        /\ IsList(r.files)
        /\ Names(r.files) \subseteq old \cap dir
        /\ r.gone \subseteq (old \cap dir) \ Names(r.files)
        /\ old \cap dir \subseteq Names(r.files) \cup r.gone
        /\ r.gone \cap stuck = {}
    BY DEF After
  <1>3. v \in Rests
    BY <1>1, <1>2, VisitCases
  <1> HIDE DEF d, old, new
  <1> SUFFICES /\ IsList(v.files)
               /\ Names(v.files) \subseteq new \cap dir
               /\ v.gone \subseteq (new \cap dir) \ Names(v.files)
               /\ new \cap dir \subseteq Names(v.files) \cup v.gone
               /\ v.gone \cap stuck = {}
    BY <1>3 DEF After, new
  <1>4. CASE d \notin dir /\ v = r
    BY <1>1, <1>2, <1>4
  <1>5. CASE d \in dir /\ d \notin stuck /\ v.files = r.files /\ v.gone = r.gone \cup {d}
    BY <1>1, <1>2, <1>5
  <1>6. CASE d \in dir /\ v.files = Append(r.files, list[k]) /\ v.gone = r.gone
    <2>1. d \notin Names(r.files)
      BY <1>1, <1>2
    <2>2. IsList(v.files) /\ Names(v.files) = Names(r.files) \cup {d}
      BY <1>1, <1>2, <1>6, <2>1, AppendIsList DEF d
    <2> QED  BY <1>1, <1>2, <1>6, <2>1, <2>2
  <1> QED  BY <1>1, <1>2, <1>4, <1>5, <1>6, VisitCases DEF d

LEMMA ReserveLeaves ==
    ASSUME NEW list, IsList(list), NEW dir, NEW alloc \in Nat, NEW stuck, NEW left,
           left = Reserved(list, dir, alloc, stuck)
    PROVE  /\ IsList(left.files)
           /\ Names(left.files) \subseteq Names(list) \cap dir
           /\ left.disk \subseteq dir
           /\ dir \ Names(list) \subseteq left.disk
           /\ Names(list) \cap left.disk = Names(left.files)
  <1> DEFINE n == Len(list)
             P == [k \in 0 .. n |-> After(list, dir, stuck, k)]
  <1>1. list \in Seq(Items) /\ n \in Nat
    BY ListIs
  <1>0. \E r : Rounds(r, list, dir, alloc, stuck)
    BY <1>1, ReserveRounds, Zenon
  <1>2. PICK r :
            /\ r[0] = Before0(alloc)
            /\ \A k \in 1 .. n : r[k] = Visit(r[k - 1], list[k], dir, alloc, stuck)
            /\ Reserved(list, dir, alloc, stuck) = [files |-> r[n].files, disk |-> dir \ r[n].gone]
    BY <1>0, Zenon DEF Rounds
  <1>3. Before0(alloc) \in After(list, dir, stuck, 0)
    <2>1. Before0(alloc) \in Rests
      BY EmptyList DEF Before0, Rests
    <2>2. Before0(alloc).files = <<>> /\ Before0(alloc).gone = {}
      BY DEF Before0
    <2> QED  BY <1>1, <2>1, <2>2, EmptyList, AllNames DEF After
  <1>4. r[0] \in P[0]
    BY <1>1, <1>2, <1>3
  <1>5. ASSUME NEW k \in 1 .. n, r[k - 1] \in P[k - 1]  PROVE r[k] \in P[k]
    <2>1. k \in 0 .. n /\ k - 1 \in 0 .. n
      BY <1>1
    <2>2. r[k - 1] \in After(list, dir, stuck, k - 1)
      BY <1>5, <2>1
    <2>3. r[k] \in After(list, dir, stuck, k)
      BY <1>2, <2>2, AfterNext
    <2> QED  BY <2>1, <2>3
  <1> HIDE DEF P
  <1>6. \A k \in 0 .. n : r[k] \in P[k]
    BY <1>1, <1>4, <1>5, FoldKeeps
  <1>7. n \in 0 .. n
    BY <1>1
  <1>8. r[n] \in After(list, dir, stuck, n)
    BY <1>6, <1>7 DEF P
  <1>9. NamesTo(list, n) = Names(list)
    BY <1>1, AllNames
  <1> HIDE DEF n
  <1> DEFINE q == r[n]
  <1>10. /\ IsList(q.files)
         /\ Names(q.files) \subseteq Names(list) \cap dir
         /\ q.gone \subseteq (Names(list) \cap dir) \ Names(q.files)
         /\ Names(list) \cap dir \subseteq Names(q.files) \cup q.gone
    BY <1>8, <1>9 DEF After
  <1>11. left.files = q.files /\ left.disk = dir \ q.gone
    BY <1>2
  <1> HIDE DEF q
  <1> QED  BY <1>10, <1>11

-----------------------------------------------------------------------------
(* Types, and the files that are not listed. *)

LEMMA TenthOf == ASSUME NEW n \in Sizes PROVE n \div 10 \in Nat /\ n \in Nat
  <1>1. n \in Nat
    BY DocCacheAssumption
  <1> QED  BY <1>1

\* What init() reads, and what it leaves.
LEMMA StartLeaves ==
    ASSUME TypeOK, NEW stuck \in Stuck, Start(stuck)
    PROVE  /\ IsList(files') /\ Names(files') \subseteq disk'
           /\ disk' \subseteq disk
           /\ tracked' => disk' \subseteq Names(files')
           /\ tracked' \in BOOLEAN /\ up' = TRUE /\ step' = "init" /\ failed' = FALSE
           /\ UNCHANGED index
  <1> DEFINE readable == index \notin {Corrupt, Absent}
             list == IF readable THEN index ELSE <<>>
             dir == IF readable THEN disk \ (Extra(list) \ stuck) ELSE disk
             r == Reserved(list, dir, 0, stuck)
  <1>1. /\ files' = r.files /\ disk' = r.disk
        /\ tracked' = (readable /\ Extra(list) \cap stuck = {})
        /\ up' = TRUE /\ step' = "init" /\ failed' = FALSE /\ UNCHANGED index
    BY DEF Start
  <1>2. IsList(list)
    BY EmptyList DEF TypeOK
  <1> HIDE DEF list
  <1>3. /\ IsList(r.files) /\ Names(r.files) \subseteq Names(list) \cap dir
        /\ r.disk \subseteq dir
        /\ Names(list) \cap r.disk = Names(r.files)
    <2> HIDE DEF dir
    <2>1. 0 \in Nat
      OBVIOUS
    <2> QED  BY <1>2, <2>1, ReserveLeaves
  <1>4. dir \subseteq disk
    OBVIOUS
  <1>5. ASSUME readable, Extra(list) \cap stuck = {}  PROVE dir \subseteq Names(list)
    BY <1>5 DEF Extra
  <1> HIDE DEF r, dir, readable
  <1>6. tracked' => disk' \subseteq Names(files')
    BY <1>1, <1>3, <1>5
  <1>7. IsList(files') /\ Names(files') \subseteq disk' /\ disk' \subseteq disk
    BY <1>1, <1>3, <1>4
  <1>8. tracked' \in BOOLEAN
    BY <1>1
  <1> QED  BY <1>1, <1>6, <1>7, <1>8

\* What an operation leaves that reserves room first.
LEMMA CreateLeaves ==
    ASSUME TypeOK, NEW alloc \in Nat, NEW stuck, NEW r, r = Reserved(files, disk, alloc, stuck)
    PROVE  /\ IsList(r.files) /\ r.disk \subseteq disk
           /\ disk \subseteq Names(files) => r.disk \subseteq Names(r.files)
           /\ Names(r.files) \subseteq Names(files)
  <1>1. IsList(files)
    BY DEF TypeOK
  <1>2. /\ IsList(r.files) /\ r.disk \subseteq disk
        /\ Names(r.files) \subseteq Names(files) \cap disk
        /\ Names(files) \cap r.disk = Names(r.files)
    BY <1>1, ReserveLeaves
  <1> QED  BY <1>2

-----------------------------------------------------------------------------
(* The length of an index. *)

\* A length is a number.
LEMMA BytesType ==
    ASSUME NEW list \in Seq(Items)
    PROVE  Bytes(list) \in Nat
  <1> DEFINE n == Len(list)
             Step(x, f) == x + NameLen[f.filename] + 8
             it == CHOOSE f : f = [s \in SUBSET (1 .. n) |->
                                      IF s = {} THEN 57
                                      ELSE Step(f[s \ {Max(s)}], list[Max(s)])]
             G == [k \in 1 .. n |-> [x \in Nat |-> Step(x, list[k])]]
  <1>1. n \in Nat /\ DOMAIN list = 1 .. n /\ \A k \in 1 .. n : list[k] \in Items
    OBVIOUS
  <1>0. ASSUME NEW x \in Nat, NEW f \in Items  PROVE Step(x, f) \in Nat
    <2>1. f.filename \in Docs
      BY ItemTypes
    <2>2. NameLen[f.filename] \in Nat
      BY <2>1, DocCacheAssumption
    <2> QED  BY <2>2
  <1>2. G \in [1 .. n -> [Nat -> Nat]]
    <2> HIDE DEF Step
    <2> QED  BY <1>0, <1>1
  <1>3. Bytes(list) = it[1 .. n]
    BY <1>1, Zenon DEF Bytes, FoldLeft, MapThenFoldSet
  <1>4. \E f : f = [s \in SUBSET (1 .. n) |->
                       IF s = {} THEN 57 ELSE Step(f[s \ {Max(s)}], list[Max(s)])]
    <2> HIDE DEF G, n, Step
    <2>0. n \in Nat /\ 57 \in Nat
      BY <1>1
    <2>1. PICK f : FoldsOver(f, Nat, 57, n, G)
      BY <2>0, <1>2, FoldExists, Zenon
    <2>2. ASSUME NEW s \in SUBSET (1 .. n), s # {}
          PROVE  G[Max(s)][f[s \ {Max(s)}]] = Step(f[s \ {Max(s)}], list[Max(s)])
      <3>1. Max(s) \in 1 .. n /\ f[s \ {Max(s)}] \in Nat
        BY <1>1, <2>1, <2>2, LargestIn DEF FoldsOver
      <3> QED  BY <3>1 DEF G
    <2>3. [s \in SUBSET (1 .. n) |->
              IF s = {} THEN 57 ELSE G[Max(s)][f[s \ {Max(s)}]]]
          = [s \in SUBSET (1 .. n) |->
                IF s = {} THEN 57 ELSE Step(f[s \ {Max(s)}], list[Max(s)])]
      BY <2>2, Zenon
    <2>4. f = [s \in SUBSET (1 .. n) |->
                IF s = {} THEN 57 ELSE Step(f[s \ {Max(s)}], list[Max(s)])]
      BY <2>1, <2>3, Zenon DEF FoldsOver
    <2> QED  BY <2>4, Zenon
  <1>5. it = [s \in SUBSET (1 .. n) |->
                 IF s = {} THEN 57 ELSE Step(it[s \ {Max(s)}], list[Max(s)])]
    BY <1>4, Zenon
  <1> DEFINE t == [k \in 0 .. n |-> it[1 .. k]]
  <1> HIDE DEF it, Step, n
  <1>6. t[0] = 57
    BY <1>1, <1>5
  <1>7. ASSUME NEW k \in 1 .. n  PROVE t[k] = Step(t[k - 1], list[k])
    <2>1. k \in 0 .. n /\ k - 1 \in 0 .. n
      BY <1>1
    <2>2. /\ 1 .. k \in SUBSET (1 .. n) /\ 1 .. k # {} /\ Max(1 .. k) = k
          /\ (1 .. k) \ {k} = 1 .. k - 1
      BY <1>1, FoldPlaces
    <2>3. it[1 .. k] = IF 1 .. k = {} THEN 57
                       ELSE Step(it[(1 .. k) \ {Max(1 .. k)}], list[Max(1 .. k)])
      BY <1>5, <2>2, Zenon
    <2>4. it[1 .. k] = Step(it[1 .. k - 1], list[k])
      BY <2>2, <2>3, Zenon
    <2> QED  BY <2>1, <2>4, Zenon
  <1>8. t[n] = it[1 .. n]
    BY <1>1
  <1> DEFINE P == [k \in 0 .. n |-> Nat]
  <1> HIDE DEF t
  <1>9. t[0] \in P[0]
    BY <1>1, <1>6
  <1>10. ASSUME NEW k \in 1 .. n, t[k - 1] \in P[k - 1]  PROVE t[k] \in P[k]
    <2>1. k \in 0 .. n /\ k - 1 \in 0 .. n /\ list[k] \in Items
      BY <1>1 DEF n
    <2>2. t[k] \in Nat
      BY <1>0, <1>7, <1>10, <2>1
    <2> QED  BY <2>1, <2>2
  <1> HIDE DEF P
  <1>11. \A k \in 0 .. n : t[k] \in P[k]
    BY <1>1, <1>9, <1>10, FoldKeeps
  <1>12. n \in 0 .. n
    BY <1>1
  <1> QED  BY <1>3, <1>8, <1>11, <1>12 DEF P

\* What writeIndex compares an index with.
LEMMA StampIs ==
    ASSUME TypeOK
    PROVE  /\ Bytes(files) \in Nat
           /\ files \notin {Corrupt, Absent}
           /\ Stamp(index) \in Nat \cup {Corrupt, Absent}
           /\ Stamp(index) = Bytes(files) =>
                  index \notin {Corrupt, Absent} /\ Bytes(index) = Bytes(files)
  <1>1. files \in Seq(Items) /\ (index \notin {Corrupt, Absent} => index \in Seq(Items))
    BY ListIs DEF TypeOK
  <1>2. \A x \in {Corrupt, Absent} : x \notin Nat /\ x \notin Seq(Items)
    BY DocCacheAssumption DEF Items
  <1>3. Bytes(files) \in Nat /\ (index \notin {Corrupt, Absent} => Bytes(index) \in Nat)
    BY <1>1, BytesType
  <1> QED  BY <1>1, <1>2, <1>3, Zenon DEF Stamp

-----------------------------------------------------------------------------
(* Types, and files that are not listed. *)

SafeInv == TypeOK /\ NoOrphans

LEMMA InitSafe == Init => SafeInv
  BY EmptyList DEF Init, SafeInv, TypeOK, NoOrphans

LEMMA NextSafe == SafeInv /\ [Next]_vars => SafeInv'
  <1> SUFFICES ASSUME SafeInv, [Next]_vars  PROVE SafeInv'
    OBVIOUS
  <1>1. TypeOK /\ NoOrphans
    BY DEF SafeInv
  <1>2. ASSUME NEW stuck \in Stuck, Start(stuck)  PROVE SafeInv'
    <2>1. /\ IsList(files') /\ disk' \subseteq disk
          /\ tracked' => disk' \subseteq Names(files')
          /\ tracked' \in BOOLEAN /\ up' = TRUE /\ step' = "init" /\ failed' = FALSE
          /\ UNCHANGED index
      BY <1>1, <1>2, StartLeaves
    <2>2. written' = Absent
      BY <1>2 DEF Start
    <2> QED  BY <1>1, <2>1, <2>2 DEF SafeInv, TypeOK, NoOrphans
  <1>3. ASSUME NEW d \in Docs, NEW n \in Sizes, OpenExisting(d, n)  PROVE SafeInv'
    <2>1. /\ files' = ToTop(files, d, n) /\ step' = "index" /\ d \in Names(files)
          /\ UNCHANGED <<up, written, index, disk, tracked, failed>>
      BY <1>3 DEF OpenExisting
    <2>2. IsList(files') /\ Names(files') = Names(files) \cup {d}
      BY <1>1, <2>1, ToTopIsList DEF TypeOK
    <2> QED  BY <1>1, <2>1, <2>2 DEF SafeInv, TypeOK, NoOrphans
  <1>4. ASSUME NEW d \in Docs, NEW n \in Sizes, NEW stuck \in Stuck, CreateNew(d, n, stuck)
        PROVE  SafeInv'
    <2> DEFINE r == Reserved(files, disk, n \div 10, stuck)
    <2>1. /\ files' = ToTop(r.files, d, n) /\ disk' = r.disk \cup {d} /\ step' = "index"
          /\ UNCHANGED <<up, written, index, tracked, failed>>
      BY <1>4 DEF CreateNew
    <2>2. /\ IsList(r.files) /\ r.disk \subseteq disk
          /\ disk \subseteq Names(files) => r.disk \subseteq Names(r.files)
      BY <1>1, TenthOf, CreateLeaves
    <2> HIDE DEF r
    <2>3. IsList(files') /\ Names(files') = Names(r.files) \cup {d}
      BY <2>1, <2>2, ToTopIsList
    <2> QED  BY <1>1, <2>1, <2>2, <2>3 DEF SafeInv, TypeOK, NoOrphans
  <1>5. ASSUME NEW d \in Docs, NEW n \in Sizes, NEW stuck \in Stuck, CreateFails(d, n, stuck)
        PROVE  SafeInv'
    <2> DEFINE r == Reserved(files, disk, n \div 10, stuck)
    <2>1. /\ files' = r.files /\ disk' = r.disk \ ({d} \ stuck) /\ failed' = TRUE
          /\ UNCHANGED <<up, written, index, tracked, step>>
      BY <1>5 DEF CreateFails
    <2>2. /\ IsList(r.files) /\ r.disk \subseteq disk
          /\ disk \subseteq Names(files) => r.disk \subseteq Names(r.files)
      BY <1>1, TenthOf, CreateLeaves
    <2> HIDE DEF r
    <2> QED  BY <1>1, <2>1, <2>2 DEF SafeInv, TypeOK, NoOrphans
  <1>6. ASSUME NEW d \in Docs, NEW stuck \in Stuck, CreateKept(d, stuck)  PROVE SafeInv'
    BY <1>1, <1>6 DEF CreateKept, SafeInv, TypeOK, NoOrphans
  <1>7. CASE Clear
    BY <1>1, <1>7, EmptyList DEF Clear, SafeInv, TypeOK, NoOrphans
  <1>0. Bytes(files) \in Nat /\ Known \in Nat \cup {Corrupt, Absent}
    BY <1>1, StampIs DEF Known, TypeOK
  <1>8. CASE WriteNothing
    BY <1>0, <1>1, <1>8 DEF WriteNothing, Ends, SafeInv, TypeOK, NoOrphans
  <1>9. CASE Truncate
    BY <1>0, <1>1, <1>9 DEF Truncate, SafeInv, TypeOK, NoOrphans
  <1>10. CASE Write
    BY <1>0, <1>1, <1>10 DEF Write, Ends, SafeInv, TypeOK, NoOrphans
  <1>15. CASE WriteShort
    BY <1>0, <1>1, <1>15 DEF WriteShort, Ends, SafeInv, TypeOK, NoOrphans
  <1>11. CASE WriteFails
    BY <1>0, <1>1, <1>11 DEF WriteFails, Ends, SafeInv, TypeOK, NoOrphans
  <1>12. CASE Stop
    BY <1>1, <1>12, EmptyList DEF Stop, SafeInv, TypeOK, NoOrphans
  <1>13. ASSUME NEW d \in Docs, Take(d)  PROVE SafeInv'
    BY <1>1, <1>13 DEF Take, SafeInv, TypeOK, NoOrphans
  <1>14. CASE UNCHANGED vars
    BY <1>1, <1>14 DEF vars, SafeInv, TypeOK, NoOrphans
  <1> QED  BY <1>2, <1>3, <1>4, <1>5, <1>6, <1>7, <1>8, <1>9, <1>10, <1>11, <1>12, <1>13,
             <1>14, <1>15 DEF Next

LEMMA Safe == Spec => []SafeInv
  BY InitSafe, NextSafe, PTL DEF Spec

\* The list of the cache, in memory and in an index that can be read, names every file once
\* and has files of the cache only: findFileIndex finds the one there is.
THEOREM TypeCorrect == Spec => []TypeOK
  <1>1. SafeInv => TypeOK
    BY DEF SafeInv
  <1> QED  BY <1>1, Safe, PTL

\* While the program runs, reserve() and the other operations leave no file in the directory
\* that is not listed, unless the index was lost, a deletion failed or clear was called: the
\* room such a file takes would never be counted.
THEOREM NothingUnlisted == Spec => []NoOrphans
  <1>1. SafeInv => NoOrphans
    BY DEF SafeInv
  <1> QED  BY <1>1, Safe, PTL

-----------------------------------------------------------------------------
(* The index. *)

\* writeIndex compares with what it would see in the file.
Remembered ==
    up /\ ~ failed /\ step \in {"idle", "index", "init"} /\ written # Absent
        => written = Stamp(index)

IInv == Remembered /\ IndexIsAsLong

LEMMA InitOK == Init => IInv
  BY DEF Init, IInv, Remembered, IndexIsAsLong, Idle

LEMMA NextOK == SafeInv /\ IInv /\ [Next]_vars => IInv'
  <1> SUFFICES ASSUME TypeOK, IInv, [Next]_vars  PROVE IInv'
    BY DEF SafeInv
  <1> USE DEF IInv, Remembered, IndexIsAsLong, Idle
  <1>0. /\ Stamp(index) = Bytes(files) =>
               index \notin {Corrupt, Absent} /\ Bytes(index) = Bytes(files)
        /\ Stamp(files) = Bytes(files)
        /\ files \notin {Corrupt, Absent}
        /\ index' = index => Stamp(index') = Stamp(index)
        /\ index' = files => Stamp(index') = Stamp(files) /\ Bytes(index') = Bytes(files)
        /\ index' = index => Bytes(index') = Bytes(index)
        /\ files' = files => Bytes(files') = Bytes(files)
    BY StampIs DEF Stamp
  <1>1. ASSUME NEW stuck \in Stuck, Start(stuck)  PROVE IInv'
    <2>1. up' = TRUE /\ step' = "init" /\ written' = Absent
      BY <1>1 DEF Start
    <2> QED  BY <2>1
  <1>2. ASSUME NEW d \in Docs, NEW n \in Sizes, OpenExisting(d, n)  PROVE IInv'
    BY <1>0, <1>2 DEF OpenExisting
  <1>3. ASSUME NEW d \in Docs, NEW n \in Sizes, NEW stuck \in Stuck, CreateNew(d, n, stuck)
        PROVE  IInv'
    <2>1. step = "idle" /\ step' = "index" /\ UNCHANGED <<up, written, index, failed>>
      BY <1>3 DEF CreateNew
    <2> QED  BY <1>0, <2>1
  <1>4. ASSUME NEW d \in Docs, NEW n \in Sizes, NEW stuck \in Stuck, CreateFails(d, n, stuck)
        PROVE  IInv'
    <2>1. failed' = TRUE
      BY <1>4 DEF CreateFails
    <2> QED  BY <2>1
  <1>5. ASSUME NEW d \in Docs, NEW stuck \in Stuck, CreateKept(d, stuck)  PROVE IInv'
    BY <1>0, <1>5 DEF CreateKept
  <1>6. CASE Clear
    BY <1>0, <1>6 DEF Clear
  <1>7. CASE WriteNothing
    <2>1. /\ up' = up /\ failed' = failed /\ index' = index /\ files' = files
          /\ step \in {"index", "init"} /\ step' = "idle"
          /\ written' = Known /\ Known = Bytes(files)
          /\ Known = IF written = Absent THEN Stamp(index) ELSE written
      BY <1>7 DEF WriteNothing, Ends, Known
    <2>2. up /\ ~ failed => Known = Stamp(index)
      BY <2>1
    <2> QED  BY <1>0, <2>1, <2>2
  <1>8. CASE Truncate
    BY <1>8 DEF Truncate
  <1>9. CASE Write
    <2>1. /\ index' = files /\ written' = Bytes(files) /\ files' = files /\ step' = "idle"
      BY <1>9 DEF Write, Ends
    <2> QED  BY <1>0, <2>1
  <1>10. CASE WriteShort
    BY <1>10 DEF WriteShort, Ends
  <1>11. CASE WriteFails
    BY <1>11 DEF WriteFails, Ends
  <1>12. CASE Stop
    BY <1>12 DEF Stop
  <1>13. ASSUME NEW d \in Docs, Take(d)  PROVE IInv'
    BY <1>0, <1>13 DEF Take
  <1>14. CASE UNCHANGED vars
    BY <1>0, <1>14 DEF vars
  <1> QED  BY <1>1, <1>2, <1>3, <1>4, <1>5, <1>6, <1>7, <1>8, <1>9, <1>10, <1>11, <1>12,
             <1>13, <1>14 DEF Next

\* Between two operations of ldomDocCacheImpl, as long as nothing failed, the index can be
\* read and is as long as that of the list in memory: the length that writeIndex compares
\* with is the file's.
THEOREM IndexLength == Spec => []IndexIsAsLong
  <1>1. IInv => IndexIsAsLong
    BY DEF IInv
  <1> QED  BY <1>1, InitOK, Safe, NextOK, PTL DEF Spec

-----------------------------------------------------------------------------
(* The room that files take. *)

\* The sum, file after file.
Plus(n, f, D) == IF f.filename \in D THEN n + f.size ELSE n

Sums(t, list, D) ==
    /\ t[0] = 0
    /\ \A k \in 1 .. Len(list) : t[k] = Plus(t[k - 1], list[k], D)
    /\ Total(list, D) = t[Len(list)]

LEMMA PlusType ==
    ASSUME NEW x \in Nat, NEW f \in Items, NEW D
    PROVE  Plus(x, f, D) \in Nat /\ x <= Plus(x, f, D) /\ Plus(x, f, D) <= x + f.size
  BY ItemTypes DEF Plus

LEMMA TotalSums ==
    ASSUME NEW list \in Seq(Items), NEW D
    PROVE  \E t : Sums(t, list, D)
  <1> DEFINE n == Len(list)
             Step(x, f) == Plus(x, f, D)
             it == CHOOSE f : f = [s \in SUBSET (1 .. n) |->
                                      IF s = {} THEN 0
                                      ELSE Step(f[s \ {Max(s)}], list[Max(s)])]
             G == [k \in 1 .. n |-> [x \in Nat |-> Step(x, list[k])]]
  <1>1. n \in Nat /\ DOMAIN list = 1 .. n /\ \A k \in 1 .. n : list[k] \in Items
    OBVIOUS
  <1>2. G \in [1 .. n -> [Nat -> Nat]]
    BY <1>1, PlusType
  <1>3. Total(list, D) = it[1 .. n]
    BY <1>1, Zenon DEF Total, FoldLeft, MapThenFoldSet, Plus
  <1>4. \E f : f = [s \in SUBSET (1 .. n) |->
                       IF s = {} THEN 0 ELSE Step(f[s \ {Max(s)}], list[Max(s)])]
    <2> HIDE DEF G, n, Step
    <2>0. n \in Nat /\ 0 \in Nat
      BY <1>1
    <2>1. PICK f : FoldsOver(f, Nat, 0, n, G)
      BY <2>0, <1>2, FoldExists, Zenon
    <2>2. ASSUME NEW s \in SUBSET (1 .. n), s # {}
          PROVE  G[Max(s)][f[s \ {Max(s)}]] = Step(f[s \ {Max(s)}], list[Max(s)])
      <3>1. Max(s) \in 1 .. n /\ f[s \ {Max(s)}] \in Nat
        BY <1>1, <2>1, <2>2, LargestIn DEF FoldsOver
      <3> QED  BY <3>1 DEF G
    <2>3. [s \in SUBSET (1 .. n) |->
              IF s = {} THEN 0 ELSE G[Max(s)][f[s \ {Max(s)}]]]
          = [s \in SUBSET (1 .. n) |->
                IF s = {} THEN 0 ELSE Step(f[s \ {Max(s)}], list[Max(s)])]
      BY <2>2, Zenon
    <2>4. f = [s \in SUBSET (1 .. n) |->
                IF s = {} THEN 0 ELSE Step(f[s \ {Max(s)}], list[Max(s)])]
      BY <2>1, <2>3, Zenon DEF FoldsOver
    <2> QED  BY <2>4, Zenon
  <1>5. it = [s \in SUBSET (1 .. n) |->
                 IF s = {} THEN 0 ELSE Step(it[s \ {Max(s)}], list[Max(s)])]
    BY <1>4, Zenon
  <1> DEFINE t == [k \in 0 .. n |-> it[1 .. k]]
  <1> HIDE DEF it, Step, n
  <1>6. t[0] = 0
    BY <1>1, <1>5
  <1>7. ASSUME NEW k \in 1 .. n  PROVE t[k] = Step(t[k - 1], list[k])
    <2>1. k \in 0 .. n /\ k - 1 \in 0 .. n
      BY <1>1
    <2>2. /\ 1 .. k \in SUBSET (1 .. n) /\ 1 .. k # {} /\ Max(1 .. k) = k
          /\ (1 .. k) \ {k} = 1 .. k - 1
      BY <1>1, FoldPlaces
    <2>3. it[1 .. k] = IF 1 .. k = {} THEN 0
                       ELSE Step(it[(1 .. k) \ {Max(1 .. k)}], list[Max(1 .. k)])
      BY <1>5, <2>2, Zenon
    <2>4. it[1 .. k] = Step(it[1 .. k - 1], list[k])
      BY <2>2, <2>3, Zenon
    <2> QED  BY <2>1, <2>4, Zenon
  <1>8. t[n] = it[1 .. n]
    BY <1>1
  <1>9. Sums(t, list, D)
    <2> HIDE DEF t
    <2> QED  BY <1>3, <1>6, <1>7, <1>8 DEF Sums, Step, n
  <1> QED  BY <1>9, Zenon

\* The sums are numbers and grow.
LEMMA SumsGrow ==
    ASSUME NEW list \in Seq(Items), NEW D, NEW t, Sums(t, list, D)
    PROVE  /\ \A k \in 0 .. Len(list) : t[k] \in Nat
           /\ \A k \in 0 .. Len(list) : t[k] <= Total(list, D)
           /\ Total(list, D) \in Nat
  <1> DEFINE n == Len(list)
             P == [k \in 0 .. n |-> Nat]
  <1>1. n \in Nat /\ \A k \in 1 .. n : list[k] \in Items
    OBVIOUS
  <1>2. /\ t[0] = 0 /\ \A k \in 1 .. n : t[k] = Plus(t[k - 1], list[k], D)
        /\ Total(list, D) = t[n]
    BY DEF Sums
  <1> HIDE DEF n
  <1>3. t[0] \in P[0]
    BY <1>1, <1>2
  <1>4. ASSUME NEW k \in 1 .. n, t[k - 1] \in P[k - 1]  PROVE t[k] \in P[k]
    <2>1. k \in 0 .. n /\ k - 1 \in 0 .. n
      BY <1>1
    <2>2. t[k] \in Nat
      BY <1>1, <1>2, <1>4, <2>1, PlusType
    <2> QED  BY <2>1, <2>2
  <1> HIDE DEF P
  <1>5. \A k \in 0 .. n : t[k] \in P[k]
    BY <1>1, <1>3, <1>4, FoldKeeps
  <1>6. \A k \in 0 .. n : t[k] \in Nat
    BY <1>5 DEF P
  <1>7. ASSUME NEW k \in 0 .. n  PROVE t[k] <= t[n]
    <2> DEFINE Q == [j \in 0 .. n |-> {x \in Nat : j >= k => t[k] <= x}]
    <2>1. t[0] \in Q[0]
      BY <1>1, <1>6
    <2>2. ASSUME NEW j \in 1 .. n, t[j - 1] \in Q[j - 1]  PROVE t[j] \in Q[j]
      <3>1. j \in 0 .. n /\ j - 1 \in 0 .. n /\ list[j] \in Items
        BY <1>1
      <3>2. t[j] \in Nat /\ t[j - 1] \in Nat /\ t[k] \in Nat
        BY <1>6, <3>1
      <3>3. t[j - 1] <= t[j]
        BY <1>2, <3>1, <3>2, PlusType
      <3>4. j - 1 >= k => t[k] <= t[j - 1]
        BY <2>2, <3>1
      <3>5. j >= k => t[k] <= t[j]
        <4>1. j >= k => j = k \/ j - 1 >= k
          BY <3>1
        <4> HIDE DEF Q
        <4> QED  BY <3>2, <3>3, <3>4, <4>1
      <3> QED  BY <3>1, <3>2, <3>5
    <2> HIDE DEF Q
    <2>3. \A j \in 0 .. n : t[j] \in Q[j]
      BY <1>1, <2>1, <2>2, FoldKeeps
    <2>4. n \in 0 .. n /\ n >= k
      BY <1>1
    <2> QED  BY <2>3, <2>4 DEF Q
  <1>8. n \in 0 .. n
    BY <1>1
  <1> QED  BY <1>2, <1>6, <1>7, <1>8 DEF n

LEMMA TotalOfNothing == ASSUME NEW D PROVE Total(<<>>, D) = 0
  <1>1. <<>> \in Seq(Items) /\ Len(<<>>) = 0
    OBVIOUS
  <1>2. \E t : Sums(t, <<>>, D)
    BY <1>1, TotalSums
  <1> QED  BY <1>1, <1>2 DEF Sums

LEMMA TotalOfAppend ==
    ASSUME NEW list \in Seq(Items), NEW f \in Items, NEW D
    PROVE  Total(Append(list, f), D) = Plus(Total(list, D), f, D)
  <1> DEFINE u == Append(list, f)
             n == Len(list)
  <1>1. /\ u \in Seq(Items) /\ Len(u) = n + 1 /\ u[n + 1] = f
        /\ \A k \in 1 .. n : u[k] = list[k]
        /\ n \in Nat
    OBVIOUS
  <1> HIDE DEF u
  <1>2. (\E t : Sums(t, list, D)) /\ (\E v : Sums(v, u, D))
    BY <1>1, TotalSums
  <1>3. PICK t : Sums(t, list, D)
    BY <1>2
  <1>4. PICK v : Sums(v, u, D)
    BY <1>2
  <1>5. /\ t[0] = 0 /\ \A k \in 1 .. n : t[k] = Plus(t[k - 1], list[k], D)
        /\ Total(list, D) = t[n]
    BY <1>3 DEF Sums
  <1>6. /\ v[0] = 0 /\ \A k \in 1 .. n + 1 : v[k] = Plus(v[k - 1], u[k], D)
        /\ Total(u, D) = v[n + 1]
    BY <1>1, <1>4 DEF Sums
  <1> HIDE DEF n
  <1> DEFINE P == [k \in 0 .. n |-> {t[k]}]
  <1>7. v[0] \in P[0]
    BY <1>1, <1>5, <1>6
  <1>8. ASSUME NEW k \in 1 .. n, v[k - 1] \in P[k - 1]  PROVE v[k] \in P[k]
    <2>1. k \in 0 .. n /\ k - 1 \in 0 .. n /\ k \in 1 .. n + 1
      BY <1>1
    <2>2. v[k - 1] = t[k - 1] /\ u[k] = list[k]
      BY <1>1, <1>8, <2>1
    <2>3. v[k] = t[k]
      BY <1>5, <1>6, <2>1, <2>2
    <2> QED  BY <2>1, <2>3
  <1> HIDE DEF P
  <1>9. \A k \in 0 .. n : v[k] \in P[k]
    BY <1>1, <1>7, <1>8, FoldKeeps
  <1>10. n \in 0 .. n /\ n + 1 \in 1 .. n + 1 /\ (n + 1) - 1 = n
    BY <1>1
  <1>11. v[n] = t[n]
    BY <1>9, <1>10 DEF P
  <1> QED  BY <1>1, <1>5, <1>6, <1>10, <1>11 DEF u

\* moveFileToTop changes nothing for the other files.
LEMMA TotalOfToTop ==
    ASSUME NEW list, IsList(list), NEW d \in Docs, NEW n \in Sizes, NEW D, d \notin D
    PROVE  Total(ToTop(list, d, n), D) = Total(list, D)
  <1> DEFINE u == ToTop(list, d, n)
             k == Len(list)
             l == Len(u)
  <1>1. list \in Seq(Items) /\ k \in Nat
    BY ListIs
  <1>2. u \in Seq(Items) /\ u[1] = Item(d, n) /\ l \in Nat
    BY <1>1, ToTopPlaces
  <1>3. PICK m \in 1 .. k + 1 :
            /\ \/ m = k + 1 /\ d \notin Names(list) /\ l = k + 1
               \/ m \in 1 .. k /\ list[m].filename = d /\ l = k
            /\ \A i \in 2 .. l : u[i] = IF i <= m THEN list[i - 1] ELSE list[i]
    BY <1>1, ToTopPlaces
  <1>4. (\E t : Sums(t, list, D)) /\ (\E v : Sums(v, u, D))
    <2> HIDE DEF u
    <2> QED  BY <1>1, <1>2, TotalSums
  <1>5. PICK t : Sums(t, list, D)
    BY <1>4
  <1>6. PICK v : Sums(v, u, D)
    BY <1>4
  <1>7. /\ t[0] = 0 /\ \A i \in 1 .. k : t[i] = Plus(t[i - 1], list[i], D)
        /\ Total(list, D) = t[k]
    BY <1>5 DEF Sums
  <1>8. /\ v[0] = 0 /\ \A i \in 1 .. l : v[i] = Plus(v[i - 1], u[i], D)
        /\ Total(u, D) = v[l]
    BY <1>6 DEF Sums
  <1> HIDE DEF u, k, l
  <1>9. m <= k => t[m] = t[m - 1]
    <2> SUFFICES ASSUME m <= k  PROVE t[m] = t[m - 1]
      OBVIOUS
    <2>1. m \in 1 .. k /\ list[m].filename = d
      BY <1>1, <1>3
    <2> QED  BY <1>7, <2>1 DEF Plus
  <1> DEFINE P == [i \in 0 .. l |-> {IF i = 0 THEN 0 ELSE IF i <= m THEN t[i - 1] ELSE t[i]}]
  <1>10. v[0] \in P[0]
    BY <1>2, <1>8
  <1>11. ASSUME NEW i \in 1 .. l, v[i - 1] \in P[i - 1]  PROVE v[i] \in P[i]
    <2>1. i \in 0 .. l /\ i - 1 \in 0 .. l /\ i \in Nat /\ m \in Nat /\ m >= 1
      BY <1>2, <1>3
    <2>2. v[i - 1] = IF i - 1 = 0 THEN 0
                     ELSE IF i - 1 <= m THEN t[(i - 1) - 1] ELSE t[i - 1]
      BY <1>11, <2>1
    <2>3. v[i] = Plus(v[i - 1], u[i], D)
      BY <1>8
    <2>4. SUFFICES v[i] = IF i <= m THEN t[i - 1] ELSE t[i]
      BY <2>1
    <2> HIDE DEF P
    <2>5. CASE i = 1
      <3>1. v[1] = Plus(0, Item(d, n), D)
        BY <1>2, <1>8, <2>3, <2>5
      <3>2. v[1] = 0
        BY <3>1 DEF Plus, Item
      <3>3. i <= m /\ i - 1 = 0
        BY <2>1, <2>5
      <3> QED  BY <3>2, <3>3, <1>7, <2>5
    <2>6. CASE i # 1 /\ i <= m
      <3>1. i \in 2 .. l /\ i - 1 # 0 /\ i - 1 <= m /\ i - 1 \in 1 .. k
        BY <1>1, <1>3, <2>1, <2>6
      <3>2. u[i] = list[i - 1] /\ v[i - 1] = t[(i - 1) - 1]
        BY <1>3, <2>2, <2>6, <3>1
      <3>3. t[i - 1] = Plus(t[(i - 1) - 1], list[i - 1], D)
        BY <1>7, <3>1
      <3> QED  BY <2>3, <2>6, <3>2, <3>3
    <2>7. CASE i # 1 /\ i = m + 1
      <3>1. i \in 2 .. l /\ i - 1 # 0 /\ i - 1 <= m /\ ~(i <= m) /\ i - 1 = m /\ i \in 1 .. k
            /\ m <= k
        BY <1>1, <1>3, <2>1, <2>7
      <3>2. u[i] = list[i] /\ v[i - 1] = t[m - 1]
        BY <1>3, <2>2, <3>1
      <3>3. t[i] = Plus(t[m], list[i], D)
        BY <1>7, <3>1
      <3> QED  BY <1>9, <2>3, <3>1, <3>2, <3>3
    <2>8. CASE i # 1 /\ i > m + 1
      <3>1. i \in 2 .. l /\ i - 1 # 0 /\ ~(i - 1 <= m) /\ ~(i <= m) /\ i \in 1 .. k
        BY <1>1, <1>3, <2>1, <2>8
      <3>2. u[i] = list[i] /\ v[i - 1] = t[i - 1]
        BY <1>3, <2>2, <3>1
      <3>3. t[i] = Plus(t[i - 1], list[i], D)
        BY <1>7, <3>1
      <3> QED  BY <2>3, <3>1, <3>2, <3>3
    <2> QED  BY <2>1, <2>5, <2>6, <2>7, <2>8
  <1> HIDE DEF P
  <1>12. \A i \in 0 .. l : v[i] \in P[i]
    BY <1>2, <1>10, <1>11, FoldKeeps
  <1>13. l \in 0 .. l /\ l # 0
    BY <1>1, <1>2, <1>3
  <1>14. v[l] = IF l <= m THEN t[l - 1] ELSE t[l]
    BY <1>12, <1>13 DEF P
  <1>15. v[l] = t[k]
    <2>1. CASE m = k + 1 /\ l = k + 1
      <3>1. l <= m /\ l - 1 = k
        BY <1>1, <2>1
      <3> QED  BY <1>14, <3>1
    <2>2. CASE m \in 1 .. k /\ l = k
      <3>1. l <= m => l = m /\ m <= k
        BY <1>1, <2>2
      <3> QED  BY <1>9, <1>14, <2>2, <3>1
    <2> QED  BY <1>3, <2>1, <2>2
  <1> QED  BY <1>7, <1>8, <1>15 DEF u

-----------------------------------------------------------------------------
(* What reserve() makes room for, and what it keeps. *)

\* After the rounds when room is asked for and everything can be deleted.
Fitting(alloc, D) ==
    {r \in Rests : /\ Total(r.files, D) + alloc <= r.dirsize
                   /\ r.files = <<>> \/ r.dirsize <= MaxSize}

LEMMA FittingNext ==
    ASSUME NEW alloc \in Nat, alloc > 0, NEW D, NEW r \in Fitting(alloc, D), NEW f \in Items,
           NEW dir, NEW v, v = Visit(r, f, dir, alloc, {})
    PROVE  v \in Fitting(alloc, D)
  <1>1. /\ r \in Rests /\ r.files \in Seq(Items) /\ r.dirsize \in Nat
        /\ Total(r.files, D) + alloc <= r.dirsize
        /\ r.files = <<>> \/ r.dirsize <= MaxSize
    BY DEF Fitting, Rests
  <1>2. Total(r.files, D) \in Nat
    <2>1. \E t : Sums(t, r.files, D)
      BY <1>1, TotalSums
    <2> QED  BY <1>1, <2>1, SumsGrow
  <1>3. /\ v \in Rests
        /\ \/ v = r
           \/ v.files = r.files /\ v.dirsize = r.dirsize
           \/ /\ ~ TooMuch(r, f, alloc)
              /\ v.files = Append(r.files, f) /\ v.dirsize = r.dirsize + f.size
    BY <1>1, VisitCases
  <1>4. CASE v = r
    BY <1>4
  <1>5. CASE v.files = r.files /\ v.dirsize = r.dirsize
    BY <1>1, <1>3, <1>5 DEF Fitting
  <1>6. CASE /\ ~ TooMuch(r, f, alloc)
             /\ v.files = Append(r.files, f) /\ v.dirsize = r.dirsize + f.size
    <2>1. f.size \in Nat /\ MaxSize \in Nat
      BY ItemTypes, DocCacheAssumption
    <2>2. ~(r.dirsize + f.size > MaxSize)
      BY <1>6 DEF TooMuch
    <2>3. v.dirsize <= MaxSize
      BY <1>1, <1>6, <2>1, <2>2
    <2>4. Total(v.files, D) = Plus(Total(r.files, D), f, D)
      <3>1. r.files \in Seq(Items)
        BY <1>1
      <3>2. Total(Append(r.files, f), D) = Plus(Total(r.files, D), f, D)
        BY <3>1, TotalOfAppend, Zenon
      <3> QED  BY <1>6, <3>2
    <2>5. /\ Plus(Total(r.files, D), f, D) \in Nat
          /\ Plus(Total(r.files, D), f, D) <= Total(r.files, D) + f.size
      BY <1>2, PlusType
    <2>6. Total(v.files, D) + alloc <= v.dirsize
      BY <1>1, <1>2, <1>6, <2>1, <2>4, <2>5
    <2> QED  BY <1>3, <2>3, <2>6 DEF Fitting
  <1> QED  BY <1>3, <1>4, <1>5, <1>6

LEMMA ReserveFits ==
    ASSUME NEW list \in Seq(Items), NEW dir, NEW alloc \in Nat, alloc > 0, NEW D, NEW left,
           left = Reserved(list, dir, alloc, {})
    PROVE  Total(left.files, D) \in Nat
           /\ (Total(left.files, D) = 0 \/ Total(left.files, D) + alloc <= MaxSize)
  <1> DEFINE n == Len(list)
             P == [k \in 0 .. n |-> Fitting(alloc, D)]
  <1>1. n \in Nat /\ \A k \in 1 .. n : list[k] \in Items
    OBVIOUS
  <1>0. \E r : Rounds(r, list, dir, alloc, {})
    BY ReserveRounds, Zenon
  <1>2. PICK r :
            /\ r[0] = Before0(alloc)
            /\ \A k \in 1 .. n : r[k] = Visit(r[k - 1], list[k], dir, alloc, {})
            /\ Reserved(list, dir, alloc, {}) = [files |-> r[n].files, disk |-> dir \ r[n].gone]
    BY <1>0, Zenon DEF Rounds
  <1>3. Before0(alloc) \in Fitting(alloc, D)
    <2>1. Before0(alloc) \in Rests
      BY EmptyList DEF Before0, Rests
    <2>2. Before0(alloc).files = <<>> /\ Before0(alloc).dirsize = alloc
      BY DEF Before0
    <2> QED  BY <2>1, <2>2, TotalOfNothing DEF Fitting
  <1>4. r[0] \in P[0]
    BY <1>1, <1>2, <1>3
  <1>5. ASSUME NEW k \in 1 .. n, r[k - 1] \in P[k - 1]  PROVE r[k] \in P[k]
    <2>1. k \in 0 .. n /\ k - 1 \in 0 .. n /\ list[k] \in Items
      BY <1>1
    <2>2. r[k - 1] \in Fitting(alloc, D)
      BY <1>5, <2>1
    <2>3. r[k] = Visit(r[k - 1], list[k], dir, alloc, {})
      BY <1>2
    <2>4. r[k] \in Fitting(alloc, D)
      <3> HIDE DEF n, P
      <3> QED  BY <2>1, <2>2, <2>3, FittingNext
    <2> QED  BY <2>1, <2>4
  <1> HIDE DEF P
  <1>6. \A k \in 0 .. n : r[k] \in P[k]
    BY <1>1, <1>4, <1>5, FoldKeeps
  <1>7. n \in 0 .. n
    BY <1>1
  <1>8. r[n] \in Fitting(alloc, D)
    BY <1>6, <1>7 DEF P
  <1> DEFINE q == r[n]
  <1>9. left.files = q.files
    BY <1>2
  <1>10. /\ q.files \in Seq(Items) /\ q.dirsize \in Nat
         /\ Total(q.files, D) + alloc <= q.dirsize
         /\ q.files = <<>> \/ q.dirsize <= MaxSize
    BY <1>8 DEF Fitting, Rests
  <1> HIDE DEF q
  <1>11. Total(q.files, D) \in Nat
    <2>1. \E t : Sums(t, q.files, D)
      BY <1>10, TotalSums
    <2> QED  BY <1>10, <2>1, SumsGrow
  <1>12. q.files = <<>> => Total(q.files, D) = 0
    BY TotalOfNothing
  <1>13. MaxSize \in Nat
    BY DocCacheAssumption
  <1> QED  BY <1>9, <1>10, <1>11, <1>12, <1>13

\* After the rounds when i is the first file that is there.
Staying(list, dir, stuck, i, k) ==
    {r \in After(list, dir, stuck, k) : k >= i => list[i].filename \in Names(r.files)}

LEMMA StayingNext ==
    ASSUME NEW list, IsList(list), NEW k \in 1 .. Len(list), NEW dir, NEW stuck,
           NEW i \in 1 .. Len(list), list[i].filename \in dir,
           \A j \in 1 .. i - 1 : list[j].filename \notin dir,
           NEW r \in Staying(list, dir, stuck, i, k - 1), NEW v,
           v = Visit(r, list[k], dir, 0, stuck)
    PROVE  v \in Staying(list, dir, stuck, i, k)
  <1>0. Len(list) \in Nat /\ k \in Nat /\ i \in Nat /\ 0 \in Nat
    <2>1. list \in Seq(Items)
      BY ListIs
    <2> QED  BY <2>1
  <1>1. list[k] \in Items /\ list[k].filename \notin NamesTo(list, k - 1)
    BY NamesGrow
  <1>2. /\ r \in After(list, dir, stuck, k - 1)
        /\ k - 1 >= i => list[i].filename \in Names(r.files)
    BY DEF Staying
  <1>3. v \in After(list, dir, stuck, k)
    BY <1>0, <1>2, AfterNext
  <1>4. /\ r \in Rests /\ IsList(r.files) /\ r.files \in Seq(Items)
        /\ Names(r.files) \subseteq NamesTo(list, k - 1) \cap dir
    BY <1>2, ListIs DEF After
  <1>5. \/ list[k].filename \notin dir /\ v = r
        \/ /\ list[k].filename \in dir /\ TooMuch(r, list[k], 0)
           /\ v.files = r.files
        \/ /\ list[k].filename \in dir
           /\ v.files = Append(r.files, list[k])
    BY <1>0, <1>1, <1>4, VisitCases
  <1>6. list[k].filename \notin Names(r.files)
    BY <1>1, <1>4
  <1>7. Names(Append(r.files, list[k])) = Names(r.files) \cup {list[k].filename}
    BY <1>1, <1>4, <1>6, AppendIsList
  <1>8. Names(r.files) \subseteq Names(v.files)
    BY <1>5, <1>7
  <1>9. ASSUME k >= i  PROVE list[i].filename \in Names(v.files)
    <2>1. CASE k - 1 >= i
      BY <1>2, <1>8, <2>1
    <2>2. CASE k = i
      <3>1. NamesTo(list, k - 1) \cap dir = {}
        BY <2>2 DEF NamesTo
      <3>2. r.files = <<>>
        BY <1>4, <3>1, NoNames
      <3>3. ~ TooMuch(r, list[k], 0)
        BY <3>2 DEF TooMuch
      <3>4. v.files = Append(r.files, list[k])
        BY <1>5, <2>2, <3>3
      <3> QED  BY <1>7, <2>2, <3>4
    <2> QED  BY <1>0, <1>9, <2>1, <2>2
  <1> QED  BY <1>3, <1>9 DEF Staying

LEMMA FirstStays ==
    ASSUME NEW list, IsList(list), NEW dir, NEW stuck, NEW left,
           left = Reserved(list, dir, 0, stuck),
           NEW i \in 1 .. Len(list), list[i].filename \in dir,
           \A j \in 1 .. i - 1 : list[j].filename \notin dir
    PROVE  list[i].filename \in left.disk
  <1> DEFINE n == Len(list)
             P == [k \in 0 .. n |-> Staying(list, dir, stuck, i, k)]
  <1>1. list \in Seq(Items) /\ n \in Nat /\ 0 \in Nat
    BY ListIs
  <1>0. \E r : Rounds(r, list, dir, 0, stuck)
    BY <1>1, ReserveRounds, Zenon
  <1>2. PICK r :
            /\ r[0] = Before0(0)
            /\ \A k \in 1 .. n : r[k] = Visit(r[k - 1], list[k], dir, 0, stuck)
            /\ Reserved(list, dir, 0, stuck) = [files |-> r[n].files, disk |-> dir \ r[n].gone]
    BY <1>0, Zenon DEF Rounds
  <1>3. Before0(0) \in Staying(list, dir, stuck, i, 0)
    <2>1. Before0(0) \in Rests
      BY EmptyList DEF Before0, Rests
    <2>2. Before0(0).files = <<>> /\ Before0(0).gone = {}
      BY DEF Before0
    <2>3. Before0(0) \in After(list, dir, stuck, 0)
      BY <1>1, <2>1, <2>2, EmptyList, AllNames DEF After
    <2>4. ~(0 >= i)
      BY <1>1
    <2> QED  BY <2>3, <2>4 DEF Staying
  <1>4. r[0] \in P[0]
    BY <1>1, <1>2, <1>3
  <1>5. ASSUME NEW k \in 1 .. n, r[k - 1] \in P[k - 1]  PROVE r[k] \in P[k]
    <2>1. k \in 0 .. n /\ k - 1 \in 0 .. n
      BY <1>1
    <2>2. r[k - 1] \in Staying(list, dir, stuck, i, k - 1)
      BY <1>5, <2>1
    <2>3. r[k] = Visit(r[k - 1], list[k], dir, 0, stuck)
      BY <1>2
    <2>4. r[k] \in Staying(list, dir, stuck, i, k)
      BY <2>2, <2>3, StayingNext
    <2> QED  BY <2>1, <2>4
  <1> HIDE DEF P
  <1>6. \A k \in 0 .. n : r[k] \in P[k]
    BY <1>1, <1>4, <1>5, FoldKeeps
  <1>7. n \in 0 .. n /\ n >= i
    BY <1>1
  <1>8. r[n] \in Staying(list, dir, stuck, i, n)
    BY <1>6, <1>7 DEF P
  <1> HIDE DEF n
  <1> DEFINE q == r[n]
  <1>9. list[i].filename \in Names(q.files) /\ q.gone \cap Names(q.files) = {}
    BY <1>7, <1>8 DEF Staying, After
  <1>10. left.disk = dir \ q.gone
    BY <1>2
  <1> HIDE DEF q
  <1> QED  BY <1>9, <1>10

\* Where nothing is too much.
LEMMA AllStay ==
    ASSUME NEW list \in Seq(Items), NEW dir, NEW stuck, NEW left,
           left = Reserved(list, dir, 0, stuck), NEW D,
           \A i \in 1 .. Len(list) : list[i].filename \in D <=> list[i].filename \in dir,
           Total(list, D) <= MaxSize
    PROVE  left.disk = dir
  <1> DEFINE n == Len(list)
  <1>1. n \in Nat /\ 0 \in Nat /\ MaxSize \in Nat /\ \A k \in 1 .. n : list[k] \in Items
    BY DocCacheAssumption
  <1>0. \E r : Rounds(r, list, dir, 0, stuck)
    BY <1>1, ReserveRounds, Zenon
  <1>2. PICK r :
            /\ r[0] = Before0(0)
            /\ \A k \in 1 .. n : r[k] = Visit(r[k - 1], list[k], dir, 0, stuck)
            /\ Reserved(list, dir, 0, stuck) = [files |-> r[n].files, disk |-> dir \ r[n].gone]
    BY <1>0, Zenon DEF Rounds
  <1>3. PICK t : Sums(t, list, D)
    BY TotalSums
  <1>4. /\ t[0] = 0 /\ \A k \in 1 .. n : t[k] = Plus(t[k - 1], list[k], D)
        /\ \A k \in 0 .. n : t[k] \in Nat /\ t[k] <= MaxSize
    <2>1. \A k \in 0 .. n : t[k] \in Nat /\ t[k] <= Total(list, D)
      BY <1>3, SumsGrow
    <2>2. Total(list, D) \in Nat
      BY <1>3, SumsGrow
    <2> QED  BY <1>1, <1>3, <2>1, <2>2 DEF Sums
  <1> DEFINE P == [k \in 0 .. n |-> {q \in Rests : q.gone = {} /\ q.dirsize = t[k]}]
  <1>5. r[0] \in P[0]
    <2>1. Before0(0) \in Rests
      BY EmptyList DEF Before0, Rests
    <2>2. Before0(0).gone = {} /\ Before0(0).dirsize = 0
      BY DEF Before0
    <2> QED  BY <1>1, <1>2, <1>4, <2>1, <2>2
  <1>6. ASSUME NEW k \in 1 .. n, r[k - 1] \in P[k - 1]  PROVE r[k] \in P[k]
    <2> DEFINE q == r[k - 1]
               v == r[k]
               f == list[k]
    <2>1. k \in 0 .. n /\ k - 1 \in 0 .. n /\ f \in Items
      BY <1>1
    <2>2. q \in Rests /\ q.gone = {} /\ q.dirsize = t[k - 1]
      BY <1>6, <2>1
    <2>3. v = Visit(q, f, dir, 0, stuck)
      BY <1>2
    <2>4. t[k] = Plus(t[k - 1], f, D) /\ t[k] \in Nat /\ t[k] <= MaxSize /\ t[k - 1] \in Nat
      BY <1>4, <2>1
    <2>5. f.filename \in D <=> f.filename \in dir
      OBVIOUS
    <2>6. SUFFICES v \in Rests /\ v.gone = {} /\ v.dirsize = t[k]
      BY <2>1
    <2> HIDE DEF P, q, v, f, n
    <2>7. /\ v \in Rests
          /\ \/ f.filename \notin dir /\ v = q
             \/ f.filename \in dir /\ TooMuch(q, f, 0)
             \/ /\ f.filename \in dir
                /\ v.dirsize = q.dirsize + f.size
                /\ v.gone = q.gone
      BY <1>1, <2>1, <2>2, <2>3, VisitCases
    <2>8. f.filename \in dir => t[k] = t[k - 1] + f.size
      BY <2>4, <2>5 DEF Plus
    <2>9. f.filename \in dir => ~ TooMuch(q, f, 0)
      <3>1. f.size \in Nat
        BY <2>1, ItemTypes
      <3> QED  BY <1>1, <2>2, <2>4, <2>8, <3>1 DEF TooMuch
    <2>10. f.filename \notin dir => t[k] = t[k - 1]
      BY <2>4, <2>5 DEF Plus
    <2> QED  BY <2>2, <2>7, <2>8, <2>9, <2>10
  <1> HIDE DEF P
  <1>7. \A k \in 0 .. n : r[k] \in P[k]
    BY <1>1, <1>5, <1>6, FoldKeeps
  <1>8. n \in 0 .. n
    BY <1>1
  <1>9. r[n].gone = {}
    BY <1>7, <1>8 DEF P
  <1> QED  BY <1>2, <1>9

-----------------------------------------------------------------------------
(* What no step does. *)

LEMMA LargerOf ==
    ASSUME NEW x \in Int
    PROVE  Max({0, x}) \in Int /\ Max({0, x}) >= 0 /\ Max({0, x}) >= x
  <1> DEFINE m == IF x <= 0 THEN 0 ELSE x
  <1>1. m \in {0, x} /\ \A y \in {0, x} : m >= y
    OBVIOUS
  <1> HIDE DEF m
  <1>2. Max({0, x}) \in {0, x} /\ \A y \in {0, x} : Max({0, x}) >= y
    BY <1>1, Zenon DEF Max
  <1> QED  BY <1>2

RoomStep ==
    \A d \in Docs, n \in Sizes :
        n >= 10 /\ CreateNew(d, n, {}) =>
            Total(files', Docs \ {d}) <= Max({0, MaxSize - n \div 10})

LEMMA RoomStepOK == TypeOK => RoomStep
  <1> SUFFICES ASSUME TypeOK, NEW d \in Docs, NEW n \in Sizes, n >= 10, CreateNew(d, n, {})
               PROVE  Total(files', Docs \ {d}) <= Max({0, MaxSize - n \div 10})
    BY DEF RoomStep
  <1> DEFINE alloc == n \div 10
             D == Docs \ {d}
             r == Reserved(files, disk, alloc, {})
  <1>1. n \in Nat /\ MaxSize \in Nat /\ alloc \in Nat
    BY TenthOf, DocCacheAssumption
  <1>2. alloc > 0
    BY <1>1
  <1>3. IsList(files) /\ files \in Seq(Items)
    BY ListIs DEF TypeOK
  <1>4. files' = ToTop(r.files, d, n)
    BY DEF CreateNew
  <1>5. d \notin D
    OBVIOUS
  <1> HIDE DEF alloc, D
  <1>6. IsList(r.files)
    BY <1>1, <1>3, ReserveLeaves
  <1>7. /\ Total(r.files, D) \in Nat
        /\ Total(r.files, D) = 0 \/ Total(r.files, D) + alloc <= MaxSize
    BY <1>1, <1>2, <1>3, ReserveFits
  <1> HIDE DEF r
  <1>8. Total(files', D) = Total(r.files, D)
    BY <1>4, <1>5, <1>6, TotalOfToTop
  <1>9. MaxSize - alloc \in Int
    BY <1>1
  <1>10. /\ Max({0, MaxSize - alloc}) \in Int /\ Max({0, MaxSize - alloc}) >= 0
         /\ Max({0, MaxSize - alloc}) >= MaxSize - alloc
    BY <1>9, LargerOf
  <1>11. Total(files', D) <= Max({0, MaxSize - alloc})
    BY <1>1, <1>7, <1>8, <1>10
  <1> QED  BY <1>11 DEF alloc, D

StartStep ==
    \A stuck \in Stuck :
        Start(stuck) /\ index \notin {Corrupt, Absent} =>
            /\ \A i \in DOMAIN index :
                  /\ index[i].filename \in disk
                  /\ \A j \in 1 .. i - 1 : index[j].filename \notin disk
                  => index[i].filename \in disk'
            /\ Total(index, disk) <= MaxSize => Names(index) \cap disk \subseteq disk'

LEMMA StartStepOK == TypeOK => StartStep
  <1> SUFFICES ASSUME TypeOK, NEW stuck \in Stuck, Start(stuck), index \notin {Corrupt, Absent}
               PROVE  /\ \A i \in DOMAIN index :
                             /\ index[i].filename \in disk
                             /\ \A j \in 1 .. i - 1 : index[j].filename \notin disk
                             => index[i].filename \in disk'
                      /\ Total(index, disk) <= MaxSize => Names(index) \cap disk \subseteq disk'
    BY DEF StartStep
  <1> DEFINE dir == disk \ (Extra(index) \ stuck)
             r == Reserved(index, dir, 0, stuck)
  <1>1. disk' = r.disk
    BY DEF Start
  <1>2. IsList(index)
    BY DEF TypeOK
  <1>3. index \in Seq(Items) /\ DOMAIN index = 1 .. Len(index) /\ Len(index) \in Nat
    <2>1. index \in Seq(Items)
      BY <1>2, ListIs
    <2> QED  BY <2>1
  <1>4. \A i \in 1 .. Len(index) : index[i].filename \in Names(index)
    BY <1>3, NamesAre
  <1>5. \A i \in 1 .. Len(index) : index[i].filename \in disk <=> index[i].filename \in dir
    BY <1>4 DEF Extra
  <1>6. Names(index) \cap disk \subseteq dir
    BY DEF Extra
  <1> HIDE DEF dir
  <1>7. ASSUME NEW i \in 1 .. Len(index), index[i].filename \in disk,
               \A j \in 1 .. i - 1 : index[j].filename \notin disk
        PROVE  index[i].filename \in disk'
    <2>1. \A j \in 1 .. i - 1 : j \in 1 .. Len(index)
      BY <1>3
    <2>2. index[i].filename \in dir /\ \A j \in 1 .. i - 1 : index[j].filename \notin dir
      BY <1>5, <1>7, <2>1
    <2>3. index[i].filename \in r.disk
      <3> HIDE DEF r
      <3>1. r = Reserved(index, dir, 0, stuck)
        BY DEF r
      <3> QED  BY <1>2, <2>2, <3>1, FirstStays
    <2> QED  BY <1>1, <2>3
  <1>8. ASSUME Total(index, disk) <= MaxSize  PROVE r.disk = dir
    <2> HIDE DEF r
    <2>1. r = Reserved(index, dir, 0, stuck)
      BY DEF r
    <2> QED  BY <1>3, <1>5, <1>8, <2>1, AllStay
  <1> HIDE DEF r
  <1> QED  BY <1>1, <1>3, <1>6, <1>7, <1>8

\* Whatever files there are, and in whatever order, createNew leaves no more of the others than
\* fits beside the room reserved for a document of ten bytes or more, if all can be deleted.
THEOREM RoomMade == Spec => RoomIsMade
  <1>1. SafeInv => RoomStep
    BY RoomStepOK DEF SafeInv
  <1>2. [][RoomStep]_vars => RoomIsMade
    BY PTL DEF RoomStep, RoomIsMade
  <1> QED  BY <1>1, <1>2, Safe, PTL DEF Spec

\* A start with a readable index keeps the first file of the index among those in the
\* directory, and every listed file there if together they fit: reserve() removes none early.
THEOREM StartKeeps == Spec => StartKeepsFiles
  <1>1. SafeInv => StartStep
    BY StartStepOK DEF SafeInv
  <1>2. [][StartStep]_vars => StartKeepsFiles
    BY PTL DEF StartStep, StartKeepsFiles
  <1> QED  BY <1>1, <1>2, Safe, PTL DEF Spec
=============================================================================
