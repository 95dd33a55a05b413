----------------------------- MODULE CoverPages -----------------------------
(***************************************************************************)
(* The covers of books in the Android program's lists                      *)
(* (crengine/CoverpageManager.java).  A view that is drawn shows the cover *)
(* from a cache, or a title and asks for the cover: it is looked up in the *)
(* database, else scanned from the book or downloaded, and drawn in the    *)
(* background thread; a delayed task then has the view drawn again.        *)
(*                                                                         *)
(* What the GUI thread does while it draws a view interleaves with the     *)
(* background thread, which may replace, evict and recycle bitmaps.  An    *)
(* item (a file and a size) is a value; that clear removes a cover of      *)
(* every size and unqueue one of any size is left out with the sizes.      *)
(***************************************************************************)
EXTENDS Integers, Sequences, FiniteSets, SequencesExt

CONSTANTS Items,        \* covers, each with a view
          MaxSize,      \* how many the cache holds
          MaxEvents     \* bound: how often views are drawn, or requests dropped

ASSUME CoverPagesAssumption ==
    IsFiniteSet(Items) /\ MaxSize \in Nat \ {0} /\ MaxEvents \in Nat

VARIABLES
    kind,           \* how the cover of each item is found
    cache,          \* mCache.list
    queues,         \* mCheckFileCacheQueue, mScanFileQueue and mReadyQueue
    gui,            \* what is posted to the GUI thread
    notifying,      \* a delayed task of notifyBitmapIsReady is posted
    painting,       \* the view that the GUI thread is drawing, and with which bitmap
    database,       \* items that the database looks up, in order
    downloads,      \* items that are downloaded, in order
    background,     \* what is posted to the background thread
    drawing,        \* the item that it draws, with which font, and whether the bitmap is set
    font,           \* fontFace
    views,          \* what each view shows
    events          \* counts against MaxEvents

vars == <<kind, cache, queues, gui, notifying, painting, database, downloads, background,
          drawing, font, views, events>>

\* Formats whose covers are cached in the database, others that are scanned, those
\* without covers, books of a catalogue in the network, and files without a format.
Kinds == {"cached", "scanned", "none", "cloud", "unknown"}

Fonts == {"serif", "sans"}
NoBitmap == ""       \* a bitmap is the font it was drawn with
Nothing == <<>>     \* nothing is painted, or drawn

\* An entry; held says that it is the one the background thread works on, and not one
\* that was made for the same item later.
NewEntry(i) == [item |-> i, state |-> "scheduled", bitmap |-> NoBitmap, held |-> FALSE]

Init ==
    /\ kind \in [Items -> Kinds]
    /\ cache = <<>> /\ queues = [q \in {"check", "scan", "ready"} |-> <<>>]
    /\ gui = <<>> /\ notifying = FALSE /\ painting = Nothing
    /\ database = <<>> /\ downloads = <<>> /\ background = <<>> /\ drawing = Nothing
    /\ font = "serif"
    \* lost is history: a request was dropped, see EveryCoverArrives
    /\ views = [i \in Items |-> [shown |-> "no", dirty |-> FALSE, lost |-> FALSE]]
    /\ events = 0

-----------------------------------------------------------------------------
(* BitmapCache and FileInfoQueue. *)

Has(c, i) == \E k \in DOMAIN c : c[k].item = i
Find(c, i) == CHOOSE k \in DOMAIN c : c[k].item = i
Entry(c, i) == c[Find(c, i)]
Removed(c, i) == IF Has(c, i) THEN RemoveAt(c, Find(c, i)) ELSE c
\* An entry that is found moves on top, changed.
Put(c, e) == Append(Removed(c, e.item), e)
GetItem(c, i) == IF Has(c, i) THEN Put(c, Entry(c, i)) ELSE c

RemoveFrom(q, i) ==
    IF i \in Range(q) THEN RemoveAt(q, CHOOSE k \in DOMAIN q : q[k] = i) ELSE q

\* Mutant of AddOnTop: it adds what is queued already.
AddAgain(q, i) == <<i>> \o q

AddOnTop(q, i) == <<i>> \o RemoveFrom(q, i)

\* Only the task that was scheduled last does something, the others are not listed.
Schedule(q, task) == Append(RemoveFrom(q, <<task>>), <<task>>)

\* The entry that addItem evicts: its bitmap is recycled, also one that is painted.
Evicted(c) == IF Len(c) < MaxSize THEN {} ELSE {c[1].item}

Recycled(is) ==
    painting' = IF painting # Nothing /\ painting.item \in is /\ painting.found
                THEN [painting EXCEPT !.recycled = TRUE] ELSE painting

-----------------------------------------------------------------------------
(* Requests. *)

\* coverpageLoaded, with setItemState
CoverpageLoaded(i, tasks) ==
    /\ background' = Append(tasks, <<"draw", i>>)
    /\ IF Has(cache, i)
       THEN /\ cache' = Put(cache, [Entry(cache, i) EXCEPT !.state = "scheduled"])
            /\ UNCHANGED <<painting, views>>
       ELSE LET gone == Evicted(cache) IN
            /\ cache' = Append(IF gone = {} THEN cache ELSE Tail(cache), NewEntry(i))
            /\ Recycled(gone)
            /\ views' = [v \in Items |->
                  [views[v] EXCEPT !.lost = @ \/ /\ v \in gone
                                                 /\ \/ cache[1].state = "scheduled"
                                                    \/ painting # Nothing /\ painting.item = v]]

\* queueForDrawing. A file without a format is not queued at all.
QueueForDrawing(i, v) ==
    LET c == GetItem(cache, i) IN
    \/ /\ kind[i] = "unknown"
       /\ views' = [v EXCEPT ![i].lost = TRUE]
       /\ UNCHANGED <<cache, queues, gui>>
    \/ /\ kind[i] # "unknown"
       /\ cache' = c
       /\ IF Has(c, i) /\ Entry(c, i).state \in {"drawing", "ready"}
          THEN /\ views' = v
               /\ UNCHANGED <<queues, gui>>
          ELSE LET q == IF kind[i] = "cached" THEN "check" ELSE "scan" IN
               /\ queues' = [queues EXCEPT ![q] = AddOnTop(@, i)]
               /\ gui' = IF i \in Range(queues[q]) THEN gui ELSE Schedule(gui, q)
               /\ views' = [v EXCEPT ![i].lost = FALSE]

\* What the GUI thread is asked for.
Event == painting = Nothing /\ events < MaxEvents /\ events' = events + 1

\* draw of CoverImage: a view that is invalid, or that the system wants drawn, gets the
\* bitmap from the cache.
DrawView(i) ==
    /\ Event
    /\ cache' = GetItem(cache, i)
    /\ LET bmp == IF Has(cache, i) THEN Entry(cache, i).bitmap ELSE NoBitmap IN
       painting' = [item |-> i, found |-> bmp # NoBitmap, bitmap |-> bmp, recycled |-> FALSE]
    /\ views' = [views EXCEPT ![i].dirty = FALSE]
    /\ UNCHANGED <<kind, queues, gui, notifying, database, downloads, background, drawing, font>>

\* It draws the bitmap; when that throws, it removes what the cache has for the item, but not
\* when the bitmap is recycled already as draw compares it with a black one. Without a
\* bitmap it shows the title and asks for the cover.
DrawViewEnds ==
    /\ painting # Nothing
    /\ painting' = Nothing
    /\ LET i == painting.item IN
       \/ /\ painting.found /\ ~ painting.recycled
          /\ views' = [views EXCEPT ![i].shown = painting.bitmap]
          /\ UNCHANGED <<cache, queues, gui>>
       \/ /\ painting.found /\ painting.recycled
          /\ views' = [views EXCEPT ![i].shown = "blank"]
          /\ cache' \in {cache, Removed(cache, i)}
          /\ UNCHANGED <<queues, gui>>
       \/ /\ ~ painting.found
          /\ QueueForDrawing(i, [views EXCEPT ![i].shown = "title"])
    /\ UNCHANGED <<kind, notifying, database, downloads, background, drawing, font, events>>

-----------------------------------------------------------------------------
(* Tasks of the GUI thread. *)

Task(op) == painting = Nothing /\ gui # <<>> /\ Head(gui)[1] = op

\* Mutant of CheckTask: it does not post itself again.
CheckTaskOnce ==
    /\ Task("check")
    /\ IF queues.check = <<>> THEN UNCHANGED <<queues, database>>
       ELSE /\ queues' = [queues EXCEPT !.check = Tail(@)]
            /\ database' = Append(database, Head(queues.check))
    /\ gui' = Tail(gui)
    /\ UNCHANGED <<kind, cache, notifying, painting, downloads, background, drawing, font, views, events>>

\* That of scheduleCheckCache: one item at a time, then it posts itself again.
CheckTask ==
    /\ Task("check")
    /\ IF queues.check = <<>> THEN gui' = Tail(gui) /\ UNCHANGED <<queues, database>>
       ELSE /\ queues' = [queues EXCEPT !.check = Tail(@)]
            /\ database' = Append(database, Head(queues.check))
            /\ gui' = Schedule(Tail(gui), "check")
    /\ UNCHANGED <<kind, cache, notifying, painting, downloads, background, drawing, font, views, events>>

\* The database answers, in the GUI thread: it has the cover or not.
Answer(found) ==
    /\ database # <<>>
    /\ gui' = Append(gui, <<IF found THEN "loaded" ELSE "missing", Head(database)>>)
    /\ database' = Tail(database)
    /\ UNCHANGED <<kind, cache, queues, notifying, painting, downloads, background, drawing, font,
                   views, events>>

\* Its callbacks, and that of a download.
Missing ==
    /\ Task("missing")
    /\ queues' = [queues EXCEPT !.scan = AddOnTop(@, Head(gui)[2])]
    /\ gui' = Schedule(Tail(gui), "scan")
    /\ UNCHANGED <<kind, cache, notifying, painting, database, downloads, background, drawing, font,
                   views, events>>

Loaded ==
    /\ Task("loaded")
    /\ CoverpageLoaded(Head(gui)[2], background)
    /\ gui' = Tail(gui)
    /\ UNCHANGED <<kind, queues, notifying, database, downloads, drawing, font, events>>

Download ==
    /\ downloads # <<>>
    /\ gui' = Append(gui, <<"loaded", Head(downloads)>>)
    /\ downloads' = Tail(downloads)
    /\ UNCHANGED <<kind, cache, queues, notifying, painting, database, background, drawing, font,
                   views, events>>

\* That of scheduleScanFile. A catalogue has one or two links to a cover, or none.
ScanTask ==
    /\ Task("scan")
    /\ IF queues.scan = <<>>
       THEN gui' = Tail(gui) /\ UNCHANGED <<cache, queues, painting, downloads, background, views>>
       ELSE LET i == Head(queues.scan) IN
            /\ queues' = [queues EXCEPT !.scan = Tail(@)]
            /\ gui' = Schedule(Tail(gui), "scan")
            /\ \/ /\ kind[i] \in {"cached", "scanned"}
                  /\ background' = Append(background, <<"scan", i>>)
                  /\ UNCHANGED <<cache, painting, downloads, views>>
               \/ /\ kind[i] = "none"
                  /\ CoverpageLoaded(i, background)
                  /\ UNCHANGED downloads
               \/ /\ kind[i] = "cloud"
                  /\ \E links \in {<<>>, <<i>>, <<i, i>>} :
                        /\ downloads' = downloads \o links
                        /\ views' = [views EXCEPT ![i].lost = @ \/ links = <<>>]
                  /\ UNCHANGED <<cache, painting, background>>
    /\ UNCHANGED <<kind, notifying, database, drawing, font, events>>

\* That of notifyBitmapIsReady: the views of what is ready are invalid.
Notify ==
    /\ painting = Nothing /\ notifying
    /\ views' = [i \in Items |-> [views[i] EXCEPT
                    !.dirty = @ \/ (views[i].shown # "no" /\ i \in Range(queues.ready))]]
    /\ queues' = [queues EXCEPT !.ready = <<>>]
    /\ notifying' = FALSE
    /\ UNCHANGED <<kind, cache, gui, painting, database, downloads, background, drawing, font, events>>

-----------------------------------------------------------------------------
(* The background thread. *)

Work(op) == drawing = Nothing /\ background # <<>> /\ Head(background)[1] = op

\* scanBookCover
Scan ==
    /\ Work("scan")
    /\ CoverpageLoaded(Head(background)[2], Tail(background))
    /\ UNCHANGED <<kind, queues, gui, notifying, database, downloads, drawing, font, events>>

\* draw takes the entry,
DrawStarts ==
    /\ Work("draw")
    /\ background' = Tail(background)
    /\ LET i == Head(background)[2]
           c == GetItem(cache, i)
       IN IF Has(c, i) /\ Entry(c, i).state = "scheduled"
          THEN /\ cache' = Put(c, [Entry(c, i) EXCEPT !.state = "drawing", !.held = TRUE])
               /\ drawing' = [item |-> i, font |-> font, set |-> FALSE]
          ELSE cache' = c /\ UNCHANGED drawing
    /\ UNCHANGED <<kind, queues, gui, notifying, painting, database, downloads, font, views, events>>

Held(c) == \E k \in DOMAIN c : c[k].held

\* Mutant of Drawn: the bitmap goes to the entry that the cache has now.
DrawnByName(c, bitmap) ==
    [k \in DOMAIN c |->
        IF c[k].item = drawing.item THEN [c[k] EXCEPT !.bitmap = bitmap] ELSE c[k]]

\* The bitmap goes to the entry that was taken, which may have left the cache.
Drawn(c, bitmap) ==
    [k \in DOMAIN c |-> IF c[k].held THEN [c[k] EXCEPT !.bitmap = bitmap] ELSE c[k]]

\* and gives it its bitmap, without the lock, which replaces another one;
SetBitmap ==
    /\ drawing # Nothing /\ ~ drawing.set
    /\ cache' = Drawn(cache, drawing.font)
    /\ Recycled(IF Held(cache) THEN {drawing.item} ELSE {})
    /\ drawing' = [drawing EXCEPT !.set = TRUE]
    /\ UNCHANGED <<kind, queues, gui, notifying, database, downloads, background, font, views, events>>

\* then the entry is ready and it tells so. What comes between these two might as well come
\* before them: the queues and the GUI thread treat "drawing" and "ready" alike.
DrawEnds ==
    /\ drawing # Nothing /\ drawing.set
    /\ cache' = [k \in DOMAIN cache |->
                     IF cache[k].held THEN [cache[k] EXCEPT !.state = "ready", !.held = FALSE]
                     ELSE cache[k]]
    /\ queues' = [queues EXCEPT !.ready = IF drawing.item \in Range(@) THEN @ ELSE Append(@, drawing.item)]
    /\ notifying' = TRUE
    /\ drawing' = Nothing
    /\ UNCHANGED <<kind, gui, painting, database, downloads, background, font, views, events>>

\* or it fails, and the entry stays as it is.
DrawFails ==
    /\ drawing # Nothing /\ ~ drawing.set
    /\ cache' = [k \in DOMAIN cache |-> [cache[k] EXCEPT !.held = FALSE]]
    /\ views' = [views EXCEPT ![drawing.item].lost = TRUE]
    /\ drawing' = Nothing
    /\ UNCHANGED <<kind, queues, gui, notifying, painting, database, downloads, background, font, events>>

-----------------------------------------------------------------------------
(* The lists of books. *)

\* unqueue, when another directory is shown. No entry is in a state that it removes.
Unqueue(i) ==
    /\ Event
    /\ queues' = [q \in DOMAIN queues |-> RemoveFrom(queues[q], i)]
    /\ views' = [views EXCEPT ![i].lost =
                     @ \/ \E q \in DOMAIN queues : i \in Range(queues[q])]
    /\ UNCHANGED <<kind, cache, gui, notifying, painting, database, downloads, background, drawing, font>>

\* setFontFace clears all, and the lists are made anew when the font is another one.
SetFontFace(f) ==
    /\ Event
    /\ font' = f
    /\ cache' = <<>> /\ queues' = [q \in DOMAIN queues |-> <<>>]
    /\ views' = [i \in Items |-> IF f # font THEN [views[i] EXCEPT !.dirty = @ \/ views[i].shown # "no"]
                                 ELSE [views[i] EXCEPT !.lost = TRUE]]
    /\ UNCHANGED <<kind, gui, notifying, painting, database, downloads, background, drawing>>

-----------------------------------------------------------------------------
Next ==
    \/ \E i \in Items : DrawView(i) \/ Unqueue(i)
    \/ DrawViewEnds \/ CheckTask \/ Missing \/ Loaded \/ ScanTask \/ Notify
    \/ \E found \in BOOLEAN : Answer(found)
    \/ Download \/ Scan \/ DrawStarts \/ SetBitmap \/ DrawEnds \/ DrawFails
    \/ \E f \in Fonts : SetFontFace(f)

Spec == Init /\ [][Next]_vars

-----------------------------------------------------------------------------
(* Properties. *)

\* The cache has one entry for an item and no more than it holds, the background thread
\* works on one of them at most; an entry that is ready has a bitmap; no queue
\* has an item twice.
TypeOK ==
    /\ Len(cache) <= MaxSize
    /\ \A k, l \in DOMAIN cache : k # l => cache[k].item # cache[l].item
    /\ \A e \in Range(cache) :
          /\ e.item \in Items /\ e.state \in {"scheduled", "drawing", "ready"}
          /\ e.bitmap \in Fonts \cup {NoBitmap}
          /\ e.state = "ready" => e.bitmap # NoBitmap
          /\ e.held => drawing # Nothing /\ drawing.item = e.item
    /\ \A q \in DOMAIN queues : IsInjective(queues[q]) /\ Range(queues[q]) \subseteq Items
    /\ background \in Seq({"scan", "draw"} \X Items)
    /\ \A i \in Items : views[i].shown \in {"no", "title", "blank"} \cup Fonts

\* No bitmap in the cache was drawn with a font that is not the font any more: one that was
\* being drawn when the font changed does not come back.
NoStaleFont == \A e \in Range(cache) : e.bitmap \in {NoBitmap, font}

\* The threads have nothing to do.
AtRest ==
    /\ painting = Nothing /\ drawing = Nothing /\ ~ notifying
    /\ gui = <<>> /\ database = <<>> /\ downloads = <<>> /\ background = <<>>
    /\ \A i \in Items : ~ views[i].dirty

\* When all is done, a view shows its cover, in the font of now. Except when the request was
\* dropped: the file has no format, it was taken from a queue, its entry was cleared or
\* evicted before it was drawn or while the view was, drawing failed, or there is nothing
\* to download.
EveryCoverArrives ==
    AtRest => \A i \in Items : views[i].shown \in {"no", font} \/ views[i].lost
=============================================================================
