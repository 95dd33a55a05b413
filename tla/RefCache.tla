------------------------------ MODULE RefCache ------------------------------
(***************************************************************************)
(* LVIndexedRefCache of crengine's lvrefcache.h: a table that keeps equal  *)
(* values once, under an index, and counts the references to each.  An     *)
(* entry without references goes to a free list that runs through the      *)
(* entries.  The hash table over the entries is abstracted to Find, and    *)
(* entries beyond nextindex, which are capacity, are left out.             *)
(***************************************************************************)
EXTENDS Integers, Sequences, SequencesExt

CONSTANT Null           \* the value of a null reference

\* An index item; refcount is the next free index when the item is null.
IndexRec(v, n) == [item |-> v, refcount |-> n]

\* A cache: index[1 .. nextindex] and freeindex.
EmptyCache == [index |-> <<>>, free |-> 0]

Holds(c, n) == n \in DOMAIN c.index /\ c.index[n].item # Null

\* get(n)
Get(c, n) == IF Holds(c, n) THEN c.index[n].item ELSE Null

\* find(style): the index of an equal value, 0 when there is none.
Find(c, v) ==
    IF \E n \in DOMAIN c.index : c.index[n].item = v
    THEN CHOOSE n \in DOMAIN c.index : c.index[n].item = v
    ELSE 0

\* Mutant of AddIndexRef: no reference is added.
AddIndexRefNot(c, n) == c

\* addIndexRef(n): false, and nothing done, when there is no such entry.
AddIndexRef(c, n) == IF Holds(c, n) THEN [c EXCEPT !.index[n].refcount = @ + 1] ELSE c

\* The index that the next new value gets.
NextIndex(c) == IF c.free # 0 THEN c.free ELSE Len(c.index) + 1

\* indexItem
IndexItem(c, v) ==
    IF c.free # 0
    THEN [index |-> [c.index EXCEPT ![c.free] = IndexRec(v, 1)],
          free |-> c.index[c.free].refcount]
    ELSE [c EXCEPT !.index = Append(@, IndexRec(v, 1))]

\* cache(style), which returns CachedAt.
CachedAt(c, v) == IF Find(c, v) # 0 THEN Find(c, v) ELSE NextIndex(c)
Cache(c, v) == IF Find(c, v) # 0 THEN AddIndexRef(c, Find(c, v)) ELSE IndexItem(c, v)

\* release(n)
Release(c, n) ==
    IF ~ Holds(c, n) THEN c
    ELSE IF c.index[n].refcount > 1 THEN [c EXCEPT !.index[n].refcount = @ - 1]
    ELSE [index |-> [c.index EXCEPT ![n] = IndexRec(Null, c.free)], free |-> n]

\* cache(indexholder, style): the holder's entry becomes that of the value.
CacheFor(c, holder, v) ==
    LET d == Cache(c, v)
    IN IF holder # CachedAt(c, v) THEN Release(d, holder)
       ELSE IF d.index[holder].refcount > 1 THEN Release(d, holder) ELSE d

\* getIndex: the values by index.
GetIndex(c) == [n \in DOMAIN c.index |-> c.index[n].item]

\* setIndex(list): one reference for each value, the other entries free.
SetIndex(list) ==
    LET Add(c, v) ==
            IF v = Null
            THEN [index |-> Append(c.index, IndexRec(Null, c.free)), free |-> Len(c.index) + 1]
            ELSE [c EXCEPT !.index = Append(@, IndexRec(v, 1))]
    IN FoldLeft(Add, EmptyCache, list)

-----------------------------------------------------------------------------
(* The cache is sound: the free list runs through the entries without a    *)
(* value, each once, no two entries have the same value, and every entry   *)
(* with a value has references.                                            *)

\* The places of a list that begins at first, where next is what follows each, 0 at the end.
Chain(first, next) ==
    LET chain[k \in 0 .. Len(next)] ==
            IF k = 0 THEN first ELSE IF chain[k - 1] = 0 THEN 0 ELSE next[chain[k - 1]]
    IN chain

\* The free entries in the order of the free list.
FreeChain(c) == Chain(c.free, [n \in DOMAIN c.index |-> c.index[n].refcount])

CacheSound(c) ==
    LET empty == {n \in DOMAIN c.index : c.index[n].item = Null}
        chain == FreeChain(c)
    IN /\ c.free \in empty \cup {0}
       /\ \A n \in empty : c.index[n].refcount \in empty \cup {0}
       /\ chain[Len(c.index)] = 0
       /\ \A n \in empty : \E k \in DOMAIN chain : chain[k] = n
       /\ \A n \in DOMAIN c.index \ empty :
              /\ c.index[n].refcount \in Nat \ {0}
              /\ \A m \in DOMAIN c.index \ {n} : c.index[m].item # c.index[n].item
=============================================================================
