----------------------------- MODULE SaveChanges -----------------------------
(***************************************************************************)
(* How a document is saved to its cache file: ldomDocument::saveChanges,   *)
(* swapToCache, updateMap and openFromCache of crengine's lvtinydom.cpp.   *)
(* saveChanges writes the document part by part and can be interrupted by  *)
(* its timer between the parts; the next call goes on where it stopped.    *)
(* The front ends call it for every new rendering and when a book is       *)
(* closed, and the document may change between two calls.                  *)
(*                                                                         *)
(* A part stands for its version: the number of changes the document had   *)
(* seen when the part changed last.  CacheFile is the file under it, and   *)
(* DataStorage the storages that write themselves in chunks.               *)
(***************************************************************************)
EXTENDS Integers, Sequences, FiniteSetsExt

CONSTANTS Timers,       \* the timers of the calls: {"infinite"} or also "limited"
          Swapped,      \* the parts whose chunks compact() writes (a bound)
          MaxChanges    \* bound on the changes of the document

ASSUME SaveChangesAssumption ==
    /\ Timers \subseteq {"infinite", "limited"}
    /\ Swapped \subseteq {"storage", "styles"}
    /\ MaxChanges \in Nat \ {0}

VARIABLES
    mem,        \* the version of each part of the document in memory
    mutable,    \* some nodes are not in the element and text storages
    file,       \* the cache file: its parts, pointers and status (see EmptyFile)
    cache,      \* _cacheFile is set
    mapped,     \* _mapped
    maperror,   \* _maperror
    stale,      \* _cacheFileStale
    stage,      \* _mapSavingStage
    due,        \* the front end will call updateMap
    past        \* history: the documents there were, as their parts' versions

doc == <<mem, mutable, past>>
flags == <<cache, mapped, maperror>>
vars == <<mem, mutable, file, cache, mapped, maperror, stale, stage, due, past>>

Missing == 0        \* the file has no such part
Partial == -1       \* the file has some chunks of it, but not their index

\* saveChanges() from its first stage to its last.  Stages next to each other
\* that do the same are one: "storage" is the element, text and rectangle storage,
\* "maps" the properties and the id maps, "toc" the contents and the page map.
Steps == <<"persist", "storage", "blobs", "styles", "maps", "pages", "nodes",
           "params", "toc", "styledata", "fonts", "flush", "done">>

Stages == {Steps[k] : k \in DOMAIN Steps}
Parts == Stages \ {"persist", "flush", "done"}
Place == [s \in Stages |-> CHOOSE k \in DOMAIN Steps : Steps[k] = s]

\* The parts that are written in chunks, until the timer expires.
Chunked == {"storage", "blobs", "styles"}

\* The steps after which CHECK_EXPIRATION looks at the timer.
Checked == DOMAIN Steps \ {Place["params"], Place["styledata"], Place["done"]}

\* Mutant of StageOf: the stage is not remembered.
StageForgotten(k) == 1

\* Mutant of StageOf: the step that was interrupted counts as done.
StageAfter(k) == IF k = Len(Steps) THEN k ELSE k + 1

\* The step a call goes on with when the last one stopped at step k.
StageOf(k) == IF Steps[k] = "toc" THEN Place["params"] ELSE k

\* What a new rendering changes.
Rendered == {"storage", "styles", "pages", "nodes", "params", "toc", "styledata"}

\* A file with no blocks.  Its node data may have pointers to memory.
EmptyFile == [parts |-> [p \in Parts |-> Missing], pointers |-> FALSE, status |-> "dirty"]

-----------------------------------------------------------------------------
(* The document changes. *)

Version == Cardinality(past)

\* The parts in P change.
Change(P) ==
    /\ Version < MaxChanges
    /\ mem' = [p \in Parts |-> IF p \in P THEN Version + 1 ELSE mem[p]]
    /\ past' = past \cup {mem'}

\* Mutant of RenderMarks: the file is not outdated by a rendering.
RenderUnmarked == stale

\* render() marks the file stale.
RenderMarks == TRUE

\* A full render(); the front end plans to save its result.
Render ==
    /\ Change(Rendered)
    /\ mutable' = TRUE
    /\ stale' = RenderMarks
    /\ due' = TRUE
    /\ UNCHANGED <<file, flags, stage>>

\* buildAlternativeToc
BuildToc ==
    /\ Change({"toc"})
    /\ stale' = TRUE
    /\ UNCHANGED <<mutable, file, flags, stage, due>>

\* The file f with a part that is written to; an unchanged block is not.
Put(f, p, v) ==
    [f EXCEPT !.parts[p] = v, !.status = IF f.parts[p] = v THEN @ ELSE "dirty"]

\* addBlob goes to the file at once if there is one; its index follows later.
AddBlob ==
    /\ Change({"blobs"})
    /\ file' = IF cache THEN Put(file, "blobs", Partial) ELSE file
    /\ stale' = TRUE
    /\ UNCHANGED <<mutable, flags, stage, due>>

\* compact() writes some chunks of part p; without a cache file it makes one.
Swap(p) ==
    /\ file.parts[p] # mem[p]
    /\ file' = Put(IF cache THEN file ELSE EmptyFile, p, Partial)
    /\ cache' = TRUE /\ mapped' = (mapped \/ ~ cache)
    /\ stale' = TRUE
    /\ UNCHANGED <<doc, maperror, stage, due>>

-----------------------------------------------------------------------------
(* saveChanges. *)

\* Mutant of FirstStep: a full save does not start over.
FirstStepResumed(timer) == stage

\* The step a call starts with.
FirstStep(timer) == IF timer = "infinite" THEN 1 ELSE stage

Persists(a, b) == Place["persist"] \in a .. b

\* Some nodes are mutable after steps a to b.
StillMutable(a, b) == mutable /\ ~ Persists(a, b)

\* The file f after steps a to b.
Written(f, a, b) ==
    LET parts == [p \in Parts |-> IF Place[p] \in a .. b THEN mem[p] ELSE f.parts[p]]
        pointers == IF Place["nodes"] \in a .. b THEN StillMutable(a, b) ELSE f.pointers
    IN [parts |-> parts, pointers |-> pointers,
        status |-> IF Place["flush"] \in a .. b THEN "clean"
                   ELSE IF parts = f.parts /\ pointers = f.pointers THEN f.status
                   ELSE "dirty"]

\* It returns CR_DONE, having saved to the file f.
SaveDone(f, timer) ==
    LET a == FirstStep(timer) IN
        /\ file' = Written(f, a, Len(Steps))
        /\ mutable' = StillMutable(a, Len(Steps))
        /\ stale' = FALSE
        /\ stage' = Len(Steps)

\* It returns CR_TIMEOUT at the check after step k; the last of the chunks of
\* that step may be missing, and the next call starts with that step again.
SaveTimeout(k) ==
    /\ k \in Checked /\ k >= stage
    /\ \/ /\ file' = Written(file, stage, k)
          /\ mutable' = StillMutable(stage, k)
       \/ /\ Steps[k] \in Chunked
          /\ file.parts[Steps[k]] # mem[Steps[k]]
          /\ file' = Put(Written(file, stage, k - 1), Steps[k], Partial)
          /\ mutable' = StillMutable(stage, k)
       \/ /\ Steps[k] = "persist"
          /\ UNCHANGED <<file, mutable>>
    /\ stale' = TRUE
    /\ stage' = StageOf(k)

\* It returns CR_ERROR: part k, or the index, cannot be written to the file f.
SaveError(f, timer, k) ==
    LET a == FirstStep(timer) IN
        /\ k >= a /\ Steps[k] \notin {"persist", "done"}
        /\ LET g == Written(f, a, k - 1) IN
              file' = [IF Steps[k] = "flush" THEN g ELSE Put(g, Steps[k], Partial)
                       EXCEPT !.status = "dirty"]
        /\ mutable' = StillMutable(a, k)
        /\ stale' = TRUE
        /\ stage' = StageOf(k)

\* updateMap; the front end calls again after a timeout.
UpdateMap(timer) ==
    /\ timer \in Timers
    /\ IF cache /\ mapped /\ stale
       THEN \/ SaveDone(file, timer) /\ due' = FALSE
            \/ \E k \in DOMAIN Steps : \/ timer = "limited" /\ SaveTimeout(k) /\ due' = due
                                       \/ SaveError(file, timer, k) /\ due' = FALSE
       ELSE due' = FALSE /\ UNCHANGED <<file, mutable, stale, stage>>
    /\ UNCHANGED <<flags, mem, past>>

\* swapToCache makes the file, and saves to it if it may take its time.
SwapToCache(timer) ==
    /\ ~ maperror
    /\ \/ LET f == IF mapped \/ cache THEN file ELSE EmptyFile IN
             /\ cache' = TRUE /\ mapped' = TRUE
             /\ \/ /\ timer = "limited"
                   /\ file' = f
                   /\ stale' = (stale \/ ~ cache)
                   /\ UNCHANGED <<mutable, stage, maperror>>
                \/ timer = "infinite" /\ SaveDone(f, timer) /\ UNCHANGED maperror
                \/ /\ timer = "infinite"
                   /\ \E k \in DOMAIN Steps : SaveError(f, timer, k)
                   /\ maperror' = TRUE
       \/ /\ ~ mapped /\ ~ cache        \* the file cannot be made
          /\ maperror' = TRUE
          /\ UNCHANGED <<file, mutable, stale, stage, cache, mapped>>
    /\ UNCHANGED <<mem, past, due>>

-----------------------------------------------------------------------------
(* Opening a document. *)

\* loadCacheFileContent: blobs and style data may be missing, and a part
\* without an index of its own loads with an older one.
Loads(f) ==
    /\ ~ f.pointers
    /\ \A p \in Parts \ {"blobs", "styledata"} : f.parts[p] # Missing

\* openFromCache finds a clean file that loads.
OpenFromCache ==
    /\ file.status = "clean" /\ Loads(file)
    /\ mem' = file.parts
    /\ mutable' = FALSE
    /\ stale' = FALSE
    /\ stage' = 1
    /\ mapped' = TRUE /\ cache' = TRUE /\ maperror' = FALSE
    /\ due' = FALSE
    /\ UNCHANGED <<file, past>>

\* It does not: the document is parsed and rendered.  A clean file that does not
\* load stays open, as clear() does not drop it; any other one is made anew.
Parse ==
    /\ file.status # "clean" \/ ~ Loads(file)
    /\ Change(Parts)
    /\ mutable' = TRUE
    /\ stale' = TRUE
    /\ stage' = 1
    /\ mapped' = FALSE /\ cache' = (file.status = "clean") /\ maperror' = FALSE
    /\ due' = TRUE
    /\ UNCHANGED file

\* The program ends at any moment, or the document goes away after an UpdateMap;
\* the book is opened again.
Restart == OpenFromCache \/ Parse

Init ==
    /\ mem = [p \in Parts |-> 1]
    /\ mutable = TRUE
    /\ file = [EmptyFile EXCEPT !.status = "none"]
    /\ cache = FALSE /\ mapped = FALSE /\ maperror = FALSE
    /\ stale = TRUE
    /\ stage = 1
    /\ due = TRUE
    /\ past = {mem}

Next ==
    \/ Render \/ BuildToc \/ AddBlob \/ Restart
    \/ \E p \in Swapped : Swap(p)
    \/ \E timer \in Timers : UpdateMap(timer) \/ SwapToCache(timer)

Spec == Init /\ [][Next]_vars

\* The checks behind the stage a call starts with ("toc" is in that of "params").
ChecksAhead == {k \in Checked \ {Place["toc"]} : k > stage}

\* What a limited call of updateMap does at least when it is given its time: it
\* gets to the first check behind its stage, or to the end.
Advance ==
    /\ "limited" \in Timers /\ due
    /\ IF cache /\ mapped /\ stale /\ ChecksAhead # {}
       THEN SaveTimeout(Min(ChecksAhead)) /\ UNCHANGED <<due, flags, mem, past>>
       ELSE UpdateMap("limited") /\ ~ due'

\* The front end calls updateMap for as long as it returns CR_TIMEOUT.
FairSpec == Spec /\ WF_vars(Advance)

-----------------------------------------------------------------------------
(* Properties. *)

Versions == -1 .. MaxChanges

TypeOK ==
    /\ mem \in [Parts -> Versions]
    /\ file \in [parts : [Parts -> Versions], pointers : BOOLEAN,
                 status : {"none", "dirty", "clean"}]
    /\ mutable \in BOOLEAN
    /\ cache \in BOOLEAN /\ mapped \in BOOLEAN /\ maperror \in BOOLEAN
    /\ stale \in BOOLEAN /\ due \in BOOLEAN
    /\ stage \in DOMAIN Steps
    /\ past \subseteq [Parts -> Versions]

\* A file that opens holds one document as it once was, not the elements of one
\* rendering and the pages of another, and no pointers.
FileIsSnapshot == file.status = "clean" => file.parts \in past /\ ~ file.pointers

\* A document that is not stale ("No change, cache file update not needed") is
\* in the file.
NotStaleIsSaved == mapped /\ ~ stale => file.status = "clean" /\ file.parts = mem

\* A document that did not change since it was parsed is in a clean file as a
\* whole, however often its saving was interrupted, failed and went on.
ResumedSaveIsComplete ==
    file.status = "clean" /\ past = {mem} => file.parts = mem /\ ~ file.pointers

\* The front end does not call updateMap forever.
SavingEnds == due ~> ~ due
=============================================================================
