---------------------------- MODULE DocumentProofs ----------------------------
(***************************************************************************)
(* Proofs about a document: SaveChanges, with which it is written to its   *)
(* cache file, and NodeTable, its nodes with their styles and fonts.       *)
(*                                                                         *)
(* Of SaveChanges: its types; what a clean file has, and what a document   *)
(* that is not stale may rely on, when every call may take its time; and   *)
(* that a save in slices is a whole save while the document does not       *)
(* change.                                                                 *)
(*                                                                         *)
(* Of NodeTable, when no walk starts at a boundary of the parts: its types *)
(* with its free lists, its tree and its caches; that every index is       *)
(* backed by references; that the fonts are those of the styles as long as *)
(* _fontMap is right; that a hash which is there is that of the nodes; and *)
(* that a document comes back from its file as it was, or without styles.  *)
(***************************************************************************)
EXTENDS SaveChanges, NodeTable, ListFacts, FiniteSetTheorems, TLAPS

\* Every call runs from the first step to the last unless a step fails.
Unlimited == Timers = {"infinite"}

Files == [parts : [Parts -> Versions], pointers : BOOLEAN,
          status : {"none", "dirty", "clean"}]

\* The document is one of those there were, and so is a clean file, which is the
\* present one if that is not stale.
SavedOK == mem \in past /\ FileIsSnapshot /\ NotStaleIsSaved

\* The types, with finitely many documents, and what unlimited calls keep.
IInv == TypeOK /\ IsFiniteSet(past) /\ (Unlimited => SavedOK)

-----------------------------------------------------------------------------
(* The steps of a save. *)

LEMMA PlaceOf == \A k \in DOMAIN Steps : Place[Steps[k]] = k
  <1> SUFFICES ASSUME NEW k \in 1 .. 13 PROVE Place[Steps[k]] = k
    BY DEF Steps
  <1>1. Steps[k] \in Stages
    BY DEF Stages, Steps
  <1>2. \A j \in 1 .. 13 : Steps[j] = Steps[k] => j = k
    BY DEF Steps
  <1>3. Place[Steps[k]] = CHOOSE j \in DOMAIN Steps : Steps[j] = Steps[k]
    BY <1>1 DEF Place
  <1>4. DOMAIN Steps = 1 .. 13
    BY DEF Steps
  <1> QED
    BY <1>2, <1>3, <1>4

LEMMA StepPlaces ==
    /\ Place["persist"] = 1 /\ Place["nodes"] = 7 /\ Place["flush"] = 12
    /\ \A p \in Parts : Place[p] \in 2 .. 11
    /\ Len(Steps) = 13
    /\ {"nodes", "storage", "blobs"} \subseteq Parts
  <1>1. /\ Place["persist"] = 1 /\ Place["nodes"] = 7 /\ Place["flush"] = 12
    BY PlaceOf DEF Steps
  <1>2. ASSUME NEW p \in Parts PROVE Place[p] \in 2 .. 11
    <2>1. PICK k \in 1 .. 13 : p = Steps[k]
      BY DEF Parts, Stages, Steps
    <2>2. k # 1 /\ k # 12 /\ k # 13
      BY <2>1 DEF Parts, Steps
    <2> QED
      BY <2>1, <2>2, PlaceOf DEF Steps
  <1>3. Len(Steps) = 13 /\ {"nodes", "storage", "blobs"} \subseteq Parts
    BY DEF Steps, Parts, Stages
  <1> QED
    BY <1>1, <1>2, <1>3

\* A full save: the file is what the document is, without pointers.
LEMMA WrittenWhole ==
    ASSUME NEW f
    PROVE  /\ Written(f, 1, Len(Steps)) = [parts |-> [p \in Parts |-> mem[p]],
                                           pointers |-> FALSE, status |-> "clean"]
           /\ ~ StillMutable(1, Len(Steps))
  <1>1. ~ StillMutable(1, 13)
    BY StepPlaces DEF StillMutable, Persists
  <1>2. \A p \in Parts : Place[p] \in 1 .. 13
    BY StepPlaces
  <1>3. Place["nodes"] \in 1 .. 13 /\ Place["flush"] \in 1 .. 13
    BY StepPlaces
  <1>4. Len(Steps) = 13
    BY StepPlaces
  <1> DEFINE parts == [p \in Parts |-> IF Place[p] \in 1 .. 13 THEN mem[p] ELSE f.parts[p]]
             pointers == IF Place["nodes"] \in 1 .. 13 THEN StillMutable(1, 13) ELSE f.pointers
  <1>5. parts = [p \in Parts |-> mem[p]]
    BY <1>2
  <1>6. pointers = FALSE
    BY <1>1, <1>3 DEF StillMutable
  <1>7. Written(f, 1, 13) = [parts |-> parts, pointers |-> pointers, status |-> "clean"]
    BY <1>3 DEF Written
  <1> QED
    BY <1>1, <1>4, <1>5, <1>6, <1>7

\* A file that is written to by some steps keeps its type.
LEMMA WrittenType ==
    ASSUME TypeOK, NEW f \in Files, NEW a, NEW b
    PROVE  Written(f, a, b) \in Files /\ StillMutable(a, b) \in BOOLEAN
  <1>1. StillMutable(a, b) \in BOOLEAN
    BY DEF StillMutable, Persists, TypeOK
  <1> DEFINE parts == [p \in Parts |-> IF Place[p] \in a .. b THEN mem[p] ELSE f.parts[p]]
             pointers == IF Place["nodes"] \in a .. b THEN StillMutable(a, b) ELSE f.pointers
  <1>2. parts \in [Parts -> Versions]
    BY DEF TypeOK, Files
  <1>3. pointers \in BOOLEAN
    BY <1>1 DEF Files
  <1> QED
    BY <1>1, <1>2, <1>3 DEF Written, Files

\* So does one of which a part is written without its index; it is dirty then,
\* unless that is how the part was.
LEMMA PutType ==
    ASSUME NEW f \in Files, NEW p \in Parts
    PROVE  /\ Put(f, p, Partial) \in Files
           /\ Put(f, p, Partial).status = "clean" => Put(f, p, Partial) = f
  <1>1. Partial \in Versions
    BY SaveChangesAssumption DEF Partial, Versions
  <1>2. CASE f.parts[p] = Partial
    BY <1>1, <1>2 DEF Put, Files
  <1>3. CASE f.parts[p] # Partial
    BY <1>1, <1>3 DEF Put, Files
  <1> QED
    BY <1>2, <1>3

LEMMA EmptyFileType == EmptyFile \in Files /\ EmptyFile.status = "dirty"
  <1>1. Missing \in Versions
    BY SaveChangesAssumption DEF Missing, Versions
  <1> QED
    BY <1>1 DEF EmptyFile, Files

\* What a save that is done leaves.
LEMMA SaveDoneOK ==
    ASSUME TypeOK, NEW f \in Files, NEW timer, SaveDone(f, timer)
    PROVE  /\ file' \in Files /\ mutable' \in BOOLEAN /\ stale' \in BOOLEAN
           /\ stage' \in DOMAIN Steps
           /\ timer = "infinite" => /\ file'.status = "clean" /\ ~ file'.pointers
                                    /\ file'.parts = mem
  <1>1. file' \in Files /\ mutable' \in BOOLEAN
    BY WrittenType DEF SaveDone
  <1>2. stale' \in BOOLEAN /\ stage' \in DOMAIN Steps
    <2>1. stale' \in BOOLEAN
      BY DEF SaveDone
    <2>2. stage' = 13
      BY StepPlaces DEF SaveDone
    <2>3. 13 \in DOMAIN Steps
      BY DEF Steps
    <2> QED
      BY <2>1, <2>2, <2>3
  <1>3. ASSUME timer = "infinite"
        PROVE  file'.status = "clean" /\ ~ file'.pointers /\ file'.parts = mem
    <2>1. file' = Written(f, 1, Len(Steps))
      BY <1>3 DEF SaveDone, FirstStep
    <2>2. mem = [p \in Parts |-> mem[p]]
      BY DEF TypeOK
    <2> QED
      BY <2>1, <2>2, WrittenWhole
  <1> QED
    BY <1>1, <1>2, <1>3

\* What a save that fails leaves: a dirty file, and a document that is stale.
LEMMA SaveErrorOK ==
    ASSUME TypeOK, NEW f \in Files, NEW timer, NEW k \in DOMAIN Steps,
           SaveError(f, timer, k)
    PROVE  /\ file' \in Files /\ file'.status = "dirty"
           /\ mutable' \in BOOLEAN /\ stale' = TRUE /\ stage' \in DOMAIN Steps
  <1> DEFINE g == Written(f, FirstStep(timer), k - 1)
             h == IF Steps[k] = "flush" THEN g ELSE Put(g, Steps[k], Partial)
  <1>1. g \in Files
    BY WrittenType
  <1>2. Steps[k] = "flush" \/ Steps[k] \in Parts
    BY DEF SaveError, Parts, Stages
  <1>3. h \in Files
    BY <1>1, <1>2, PutType
  <1>4. file' = [h EXCEPT !.status = "dirty"]
    BY DEF SaveError
  <1>5. file' \in Files /\ file'.status = "dirty"
    BY <1>3, <1>4 DEF Files
  <1>6. mutable' \in BOOLEAN /\ stale' = TRUE
    BY WrittenType DEF SaveError
  <1>7. stage' \in DOMAIN Steps
    BY PlaceOf, StepPlaces DEF SaveError, StageOf, Steps
  <1> QED
    BY <1>5, <1>6, <1>7

\* What a save that is out of time leaves.
LEMMA SaveTimeoutOK ==
    ASSUME TypeOK, NEW k, SaveTimeout(k)
    PROVE  file' \in Files /\ mutable' \in BOOLEAN /\ stale' = TRUE /\ stage' \in DOMAIN Steps
  <1>1. k \in DOMAIN Steps /\ stale' = TRUE
    BY DEF SaveTimeout, Checked
  <1>2. stage' \in DOMAIN Steps
    BY <1>1, PlaceOf, StepPlaces DEF SaveTimeout, StageOf, Steps
  <1>3. file \in Files
    BY DEF TypeOK, Files
  <1>4. CASE file' = Written(file, stage, k) /\ mutable' = StillMutable(stage, k)
    BY <1>1, <1>2, <1>3, <1>4, WrittenType
  <1>5. CASE /\ Steps[k] \in Chunked
             /\ file' = Put(Written(file, stage, k - 1), Steps[k], Partial)
             /\ mutable' = StillMutable(stage, k)
    <2>1. Steps[k] \in Parts
      BY <1>5 DEF Chunked, Parts, Stages, Steps
    <2>2. Written(file, stage, k - 1) \in Files /\ mutable' \in BOOLEAN
      BY <1>3, <1>5, WrittenType
    <2> QED
      BY <1>1, <1>2, <1>5, <2>1, <2>2, PutType
  <1>6. CASE UNCHANGED <<file, mutable>>
    BY <1>1, <1>2, <1>3, <1>6 DEF TypeOK
  <1> QED
    BY <1>4, <1>5, <1>6 DEF SaveTimeout

-----------------------------------------------------------------------------
(* The invariant is kept. *)

\* A change makes one more document.
LEMMA ChangeOK ==
    ASSUME IInv, NEW P, Change(P)
    PROVE  /\ mem' \in [Parts -> Versions] /\ mem' \in past' /\ past \subseteq past'
           /\ past' \subseteq [Parts -> Versions] /\ IsFiniteSet(past')
  <1>1. Version \in Nat
    BY FS_CardinalityType DEF Version, IInv
  <1>2. Version + 1 \in Versions
    BY <1>1, SaveChangesAssumption DEF Versions, Change
  <1>3. mem' \in [Parts -> Versions]
    BY <1>2 DEF Change, IInv, TypeOK
  <1>4. past' = past \cup {mem'}
    BY DEF Change
  <1>5. IsFiniteSet(past')
    BY <1>4, FS_AddElement DEF IInv
  <1> QED
    BY <1>3, <1>4, <1>5 DEF IInv, TypeOK

LEMMA InitInv == Init => IInv
  <1> SUFFICES ASSUME Init PROVE IInv
    OBVIOUS
  <1>1. 1 \in Versions /\ 1 \in DOMAIN Steps
    BY SaveChangesAssumption DEF Versions, Steps
  <1>2. mem \in [Parts -> Versions] /\ past = {mem}
    BY <1>1 DEF Init
  <1>3. IsFiniteSet(past)
    BY <1>2, FS_Singleton
  <1>4. file \in Files /\ file.status = "none"
    BY EmptyFileType DEF Init, Files
  <1>5. TypeOK
    BY <1>1, <1>2, <1>4 DEF TypeOK, Init, Files
  <1>6. FileIsSnapshot /\ NotStaleIsSaved
    BY <1>4 DEF FileIsSnapshot, NotStaleIsSaved, Init
  <1> QED
    BY <1>2, <1>3, <1>5, <1>6 DEF IInv, SavedOK

\* A file that was clean is a document there was also after a change.
LEMMA SnapshotStays ==
    ASSUME IInv, Unlimited, past \subseteq past', file'.status = "clean" => file' = file
    PROVE  FileIsSnapshot'
  BY DEF IInv, SavedOK, FileIsSnapshot

LEMMA RenderInv == ASSUME IInv, Render \/ BuildToc PROVE IInv'
  <1>1. PICK P : Change(P)
    BY DEF Render, BuildToc
  <1>2. stale' = TRUE /\ file' = file
    BY DEF Render, BuildToc, RenderMarks
  <1>3. TypeOK'
    BY <1>1, <1>2, ChangeOK DEF Render, BuildToc, flags, IInv, TypeOK
  <1>4. Unlimited => SavedOK'
    BY <1>1, <1>2, ChangeOK, SnapshotStays DEF SavedOK, NotStaleIsSaved
  <1> QED
    BY <1>1, <1>3, <1>4, ChangeOK DEF IInv, Unlimited

LEMMA AddBlobInv == ASSUME IInv, AddBlob PROVE IInv'
  <1>1. Change({"blobs"}) /\ stale' = TRUE
    BY DEF AddBlob
  <1>2. file \in Files
    BY DEF IInv, TypeOK, Files
  <1>3. file' \in Files /\ (file'.status = "clean" => file' = file)
    BY <1>2, PutType, StepPlaces DEF AddBlob
  <1>4. TypeOK'
    BY <1>1, <1>3, ChangeOK DEF AddBlob, flags, IInv, TypeOK, Files
  <1>5. Unlimited => SavedOK'
    BY <1>1, <1>3, ChangeOK, SnapshotStays DEF SavedOK, NotStaleIsSaved
  <1> QED
    BY <1>1, <1>4, <1>5, ChangeOK DEF IInv, Unlimited

LEMMA SwapInv == ASSUME IInv, NEW p \in Swapped, Swap(p) PROVE IInv'
  <1>1. p \in Parts
    BY SaveChangesAssumption DEF Parts, Stages, Steps
  <1> DEFINE f == IF cache THEN file ELSE EmptyFile
  <1>2. f \in Files /\ (f.status = "clean" => f = file)
    BY EmptyFileType DEF IInv, TypeOK, Files
  <1>3. file' = Put(f, p, Partial) /\ stale' = TRUE
    BY DEF Swap
  <1>4. file' \in Files /\ (file'.status = "clean" => file' = file)
    BY <1>1, <1>2, <1>3, PutType
  <1>5. TypeOK'
    BY <1>3, <1>4 DEF Swap, doc, IInv, TypeOK, Files
  <1>6. Unlimited => SavedOK'
    BY <1>3, <1>4, SnapshotStays DEF IInv, SavedOK, NotStaleIsSaved, Swap, doc
  <1> QED
    BY <1>5, <1>6 DEF IInv, Unlimited, Swap, doc

\* updateMap saves, to the end, to a check of the timer or to a failure, or it
\* finds nothing to do.
LEMMA UpdateMapInv == ASSUME IInv, NEW timer \in Timers, UpdateMap(timer) PROVE IInv'
  <1>1. file \in Files /\ TypeOK
    BY DEF IInv, TypeOK, Files
  <1>2. UNCHANGED <<cache, mapped, maperror, mem, past>> /\ due' \in BOOLEAN
    BY <1>1 DEF UpdateMap, flags, TypeOK
  <1>3. ASSUME file' \in Files, mutable' \in BOOLEAN, stale' \in BOOLEAN, stage' \in DOMAIN Steps,
               Unlimited => SavedOK'
        PROVE  IInv'
    BY <1>1, <1>2, <1>3 DEF IInv, TypeOK, Files, Unlimited
  <1>4. CASE SaveDone(file, timer)
    <2>1. Unlimited => timer = "infinite"
      BY DEF Unlimited
    <2>2. Unlimited => SavedOK'
      BY <1>1, <1>2, <1>4, <2>1, SaveDoneOK DEF IInv, SavedOK, FileIsSnapshot, NotStaleIsSaved
    <2> QED
      BY <1>1, <1>3, <1>4, <2>2, SaveDoneOK
  <1>5. ASSUME NEW k \in DOMAIN Steps, timer = "limited", SaveTimeout(k)
        PROVE  IInv'
    <2>1. ~ Unlimited
      BY <1>5 DEF Unlimited
    <2> QED
      BY <1>1, <1>3, <1>5, <2>1, SaveTimeoutOK
  <1>6. ASSUME NEW k \in DOMAIN Steps, SaveError(file, timer, k)
        PROVE  IInv'
    <2>1. Unlimited => SavedOK'
      BY <1>1, <1>2, <1>6, SaveErrorOK DEF IInv, SavedOK, FileIsSnapshot, NotStaleIsSaved
    <2> QED
      BY <1>1, <1>3, <1>6, <2>1, SaveErrorOK
  <1>7. CASE UNCHANGED <<file, mutable, stale, stage>>
    <2>1. Unlimited => SavedOK'
      BY <1>2, <1>7 DEF IInv, SavedOK, FileIsSnapshot, NotStaleIsSaved
    <2> QED
      BY <1>1, <1>3, <1>7, <2>1 DEF TypeOK
  <1> QED
    BY <1>4, <1>5, <1>6, <1>7 DEF UpdateMap

\* swapToCache makes a file if there is none, and saves to it if it has the time.
LEMMA SwapToCacheInv == ASSUME IInv, NEW timer \in Timers, SwapToCache(timer) PROVE IInv'
  <1> DEFINE f == IF mapped \/ cache THEN file ELSE EmptyFile
  <1>1. TypeOK /\ f \in Files /\ (f.status = "clean" => f = file)
    BY EmptyFileType DEF IInv, TypeOK, Files
  <1>2. UNCHANGED <<mem, past, due>>
    BY DEF SwapToCache
  <1>3. ASSUME file' \in Files, mutable' \in BOOLEAN, stale' \in BOOLEAN, stage' \in DOMAIN Steps,
               cache' \in BOOLEAN, mapped' \in BOOLEAN, maperror' \in BOOLEAN,
               Unlimited => SavedOK'
        PROVE  IInv'
    BY <1>1, <1>2, <1>3 DEF IInv, TypeOK, Files, Unlimited
  <1>4. CASE /\ timer = "limited" /\ cache' = TRUE /\ mapped' = TRUE
             /\ file' = f /\ stale' = (stale \/ ~ cache)
             /\ UNCHANGED <<mutable, stage, maperror>>
    <2>1. ~ Unlimited
      BY <1>4 DEF Unlimited
    <2> QED
      BY <1>1, <1>3, <1>4, <2>1 DEF TypeOK
  <1>5. CASE /\ timer = "infinite" /\ cache' = TRUE /\ mapped' = TRUE
             /\ SaveDone(f, timer) /\ UNCHANGED maperror
    <2>1. Unlimited => SavedOK'
      BY <1>1, <1>2, <1>5, SaveDoneOK DEF IInv, SavedOK, FileIsSnapshot, NotStaleIsSaved
    <2> QED
      BY <1>1, <1>3, <1>5, <2>1, SaveDoneOK DEF TypeOK
  <1>6. ASSUME NEW k \in DOMAIN Steps, SaveError(f, timer, k),
               cache' = TRUE, mapped' = TRUE, maperror' = TRUE
        PROVE  IInv'
    <2>1. Unlimited => SavedOK'
      BY <1>1, <1>2, <1>6, SaveErrorOK DEF IInv, SavedOK, FileIsSnapshot, NotStaleIsSaved
    <2> QED
      BY <1>1, <1>3, <1>6, <2>1, SaveErrorOK
  <1>7. CASE maperror' = TRUE /\ UNCHANGED <<file, mutable, stale, stage, cache, mapped>>
    <2>1. Unlimited => SavedOK'
      BY <1>2, <1>7 DEF IInv, SavedOK, FileIsSnapshot, NotStaleIsSaved
    <2>2. file \in Files
      BY DEF IInv, TypeOK, Files
    <2> QED
      BY <1>1, <1>3, <1>7, <2>1, <2>2 DEF TypeOK
  <1> QED
    BY <1>4, <1>5, <1>6, <1>7 DEF SwapToCache

\* A clean file that is opened becomes the document, one of those there were.
LEMMA OpenInv == ASSUME IInv, OpenFromCache PROVE IInv'
  <1>1. 1 \in DOMAIN Steps
    BY DEF Steps
  <1>2. /\ mem' = file.parts /\ mem' \in [Parts -> Versions]
        /\ UNCHANGED <<file, past>>
    BY DEF OpenFromCache, IInv, TypeOK
  <1>3. TypeOK'
    BY <1>1, <1>2 DEF OpenFromCache, IInv, TypeOK
  <1>4. Unlimited => SavedOK'
    BY <1>2 DEF OpenFromCache, IInv, SavedOK, FileIsSnapshot, NotStaleIsSaved
  <1> QED
    BY <1>2, <1>3, <1>4 DEF IInv, Unlimited

\* Any other file is not used, and the document is a new one.
LEMMA ParseInv == ASSUME IInv, Parse PROVE IInv'
  <1>1. Change(Parts) /\ stale' = TRUE /\ file' = file
    BY DEF Parse
  <1>2. 1 \in DOMAIN Steps
    BY DEF Steps
  <1>3. TypeOK'
    BY <1>1, <1>2, ChangeOK DEF Parse, IInv, TypeOK
  <1>4. Unlimited => SavedOK'
    BY <1>1, ChangeOK, SnapshotStays DEF SavedOK, NotStaleIsSaved
  <1> QED
    BY <1>1, <1>3, <1>4, ChangeOK DEF IInv, Unlimited

LEMMA StutterInv == ASSUME IInv, UNCHANGED vars PROVE IInv'
  BY DEF IInv, TypeOK, SavedOK, FileIsSnapshot, NotStaleIsSaved, Unlimited, vars

LEMMA NextInv == IInv /\ [Next]_vars => IInv'
  <1> SUFFICES ASSUME IInv, [Next]_vars PROVE IInv'
    OBVIOUS
  <1>1. CASE Render \/ BuildToc
    BY <1>1, RenderInv
  <1>2. CASE AddBlob
    BY <1>2, AddBlobInv
  <1>3. ASSUME NEW p \in Swapped, Swap(p) PROVE IInv'
    BY <1>3, SwapInv
  <1>4. ASSUME NEW timer \in Timers, UpdateMap(timer) \/ SwapToCache(timer) PROVE IInv'
    BY <1>4, UpdateMapInv, SwapToCacheInv
  <1>5. CASE Restart
    BY <1>5, OpenInv, ParseInv DEF Restart
  <1>6. CASE UNCHANGED vars
    BY <1>6, StutterInv
  <1> QED
    BY <1>1, <1>2, <1>3, <1>4, <1>5, <1>6 DEF Next

LEMMA Invariance == Spec => []IInv
  BY InitInv, NextInv, PTL DEF Spec

-----------------------------------------------------------------------------
(* The theorems. *)

\* The document, the file, the flags and the stage of a save have their types,
\* however calls are interrupted, fail and go on (saveChanges, updateMap,
\* swapToCache, openFromCache).
THEOREM TypeCorrect == Spec => []TypeOK
  <1>1. IInv => TypeOK
    BY DEF IInv
  <1> QED
    BY <1>1, Invariance, PTL

\* When every call may take its time, as cr3gui's, a cache file that opens holds
\* one document as it was, whatever failed and whenever the program was killed.
THEOREM UnlimitedFileIsSnapshot ==
    ASSUME Unlimited PROVE Spec => []FileIsSnapshot
  <1>1. IInv => FileIsSnapshot
    BY DEF IInv, SavedOK
  <1> QED
    BY <1>1, Invariance, PTL

\* Then updateMap's "No change, cache file update not needed" is true: the
\* document that is not stale is in the file.
THEOREM UnlimitedNotStaleIsSaved ==
    ASSUME Unlimited PROVE Spec => []NotStaleIsSaved
  <1>1. IInv => NotStaleIsSaved
    BY DEF IInv, SavedOK
  <1> QED
    BY <1>1, Invariance, PTL

-----------------------------------------------------------------------------
(* A document that does not change, saved in any number of slices. *)

\* The file f has the parts of the document before step a; it is the whole
\* document if it is clean.
Good(f, a) == /\ f \in Files /\ ~ f.pointers
              /\ \A p \in Parts : Place[p] < a => f.parts[p] = mem[p]
              /\ f.status = "clean" => f.parts = mem

\* What holds until the document changes: its parts are those of the parser.
OneOK == /\ mem \in past /\ (\A p \in Parts : mem[p] < 2)
         /\ Good(file, stage)
         /\ stage > 1 => cache /\ ~ mutable

OneDocument == \E d : past = {d}

OneInv == IInv /\ past # {} /\ (OneDocument => OneOK)

LEMMA GoodLess ==
    ASSUME NEW f, NEW a \in 1 .. 14, NEW b \in 1 .. 14, b <= a, Good(f, a)
    PROVE  Good(f, b)
  BY StepPlaces DEF Good

\* Steps a to b bring a file from a to behind b.
LEMMA WrittenGood ==
    ASSUME TypeOK, NEW f, NEW a \in 1 .. 13, NEW b \in 0 .. 13, b >= a - 1,
           Good(f, a), a > 1 => ~ mutable
    PROVE  /\ Good(Written(f, a, b), b + 1)
           /\ b >= 1 => ~ StillMutable(a, b)
  <1> DEFINE g == Written(f, a, b)
  <1>1. b >= 1 => ~ StillMutable(a, b)
    BY StepPlaces DEF StillMutable, Persists
  <1>2. g \in Files
    BY WrittenType DEF Good
  <1>3. g.pointers = IF 7 \in a .. b THEN StillMutable(a, b) ELSE f.pointers
    BY StepPlaces DEF Written
  <1>4. ~ g.pointers
    BY <1>1, <1>3 DEF Good
  <1>5. g.parts = [p \in Parts |-> IF Place[p] \in a .. b THEN mem[p] ELSE f.parts[p]]
    BY DEF Written
  <1>6. ASSUME NEW p \in Parts, Place[p] < b + 1 PROVE g.parts[p] = mem[p]
    BY <1>5, <1>6, StepPlaces DEF Good
  <1>7. ASSUME g.status = "clean" PROVE g.parts = mem
    <2>1. CASE 12 \in a .. b
      <3>1. \A p \in Parts : g.parts[p] = mem[p]
        BY <1>6, <2>1, StepPlaces
      <3> QED
        BY <1>5, <3>1 DEF TypeOK
    <2>2. CASE 12 \notin a .. b
      <3>1. g.parts = f.parts /\ f.status = "clean"
        BY <1>7, <2>2, StepPlaces DEF Written
      <3> QED
        BY <3>1 DEF Good
    <2> QED
      BY <2>1, <2>2
  <1> QED
    BY <1>1, <1>2, <1>4, <1>6, <1>7 DEF Good

\* A part that was not done yet may be written in part.
LEMMA PutGood ==
    ASSUME NEW f, NEW a \in 1 .. 14, NEW p \in Parts, ~ Place[p] < a, Good(f, a)
    PROVE  Good(Put(f, p, Partial), a)
  <1> DEFINE g == Put(f, p, Partial)
  <1>1. g \in Files /\ (g.status = "clean" => g = f)
    BY PutType DEF Good
  <1>2. g.parts = [f.parts EXCEPT ![p] = Partial] /\ g.pointers = f.pointers
    BY DEF Put, Good, Files
  <1>3. \A q \in Parts : Place[q] < a => g.parts[q] = mem[q]
    BY <1>2 DEF Good, Files
  <1> QED
    BY <1>1, <1>2, <1>3 DEF Good

LEMMA StageOfLess == \A k \in DOMAIN Steps : StageOf(k) \in 1 .. 13 /\ StageOf(k) <= k
  <1> SUFFICES ASSUME NEW k \in 1 .. 13 PROVE StageOf(k) \in 1 .. 13 /\ StageOf(k) <= k
    BY DEF Steps
  <1>1. Place["params"] = 8
    BY PlaceOf DEF Steps
  <1>2. Steps[k] = "toc" => k = 9
    BY DEF Steps
  <1> QED
    BY <1>1, <1>2 DEF StageOf

\* A call on a good file leaves a good file, and the stage to go on with.
LEMMA SaveDoneGood ==
    ASSUME TypeOK, NEW f, NEW timer, SaveDone(f, timer), mem' = mem,
           Good(f, stage), stage > 1 => ~ mutable
    PROVE  Good(file, stage)' /\ ~ mutable'
  <1>1. stage \in 1 .. 13
    BY DEF TypeOK, Steps
  <1>2. FirstStep(timer) \in 1 .. 13 /\ FirstStep(timer) <= stage
    BY <1>1 DEF FirstStep
  <1>3. Good(f, FirstStep(timer)) /\ (FirstStep(timer) > 1 => ~ mutable)
    BY <1>1, <1>2, GoodLess
  <1>4. Good(Written(f, FirstStep(timer), 13), 14) /\ ~ StillMutable(FirstStep(timer), 13)
    BY <1>2, <1>3, WrittenGood
  <1>5. Good(Written(f, FirstStep(timer), 13), 13)
    BY <1>4, GoodLess
  <1>6. /\ file' = Written(f, FirstStep(timer), 13) /\ stage' = 13
        /\ mutable' = StillMutable(FirstStep(timer), 13)
    BY StepPlaces DEF SaveDone
  <1> QED
    BY <1>4, <1>5, <1>6 DEF Good

LEMMA SaveErrorGood ==
    ASSUME TypeOK, NEW f, NEW timer, NEW k \in DOMAIN Steps, SaveError(f, timer, k),
           mem' = mem, Good(f, stage), stage > 1 => ~ mutable
    PROVE  Good(file, stage)' /\ ~ mutable'
  <1> DEFINE a == FirstStep(timer)
             g == Written(f, a, k - 1)
             h == IF Steps[k] = "flush" THEN g ELSE Put(g, Steps[k], Partial)
  <1>1. stage \in 1 .. 13 /\ k \in 1 .. 13
    BY DEF TypeOK, Steps
  <1>2. a \in 1 .. 13 /\ a <= stage /\ k >= a
    BY <1>1 DEF FirstStep, SaveError
  <1>3. Good(f, a) /\ (a > 1 => ~ mutable)
    BY <1>1, <1>2, GoodLess
  <1>4. Good(g, k)
    BY <1>1, <1>2, <1>3, WrittenGood
  <1>5. ~ StillMutable(a, k)
    BY <1>1, <1>2, <1>3, WrittenGood
  <1>6. Good(h, k)
    <2>1. CASE Steps[k] = "flush"
      BY <1>4, <2>1
    <2>2. CASE Steps[k] # "flush"
      <3>1. Steps[k] \in Parts /\ Place[Steps[k]] = k
        BY <2>2, PlaceOf DEF SaveError, Parts, Stages
      <3> QED
        BY <1>1, <1>4, <2>2, <3>1, PutGood
    <2> QED
      BY <2>1, <2>2
  <1>7. Good([h EXCEPT !.status = "dirty"], k)
    BY <1>6 DEF Good, Files
  <1>8. Good([h EXCEPT !.status = "dirty"], StageOf(k))
    BY <1>1, <1>7, StageOfLess, GoodLess
  <1>9. /\ file' = [h EXCEPT !.status = "dirty"] /\ stage' = StageOf(k)
        /\ mutable' = StillMutable(a, k)
    BY DEF SaveError
  <1> QED
    BY <1>5, <1>8, <1>9 DEF Good

LEMMA SaveTimeoutGood ==
    ASSUME TypeOK, NEW k, SaveTimeout(k),
           mem' = mem, Good(file, stage), stage > 1 => ~ mutable
    PROVE  Good(file, stage)' /\ (stage' > 1 => ~ mutable')
  <1>1. stage \in 1 .. 13 /\ k \in 1 .. 13 /\ k >= stage /\ k \in DOMAIN Steps
    BY DEF TypeOK, Steps, SaveTimeout, Checked
  <1>2. ~ StillMutable(stage, k) /\ Good(Written(file, stage, k), k + 1)
    BY <1>1, WrittenGood
  <1>3. stage' = StageOf(k) /\ stage' \in 1 .. 13 /\ stage' <= k
    BY <1>1, StageOfLess DEF SaveTimeout
  <1>4. CASE file' = Written(file, stage, k) /\ mutable' = StillMutable(stage, k)
    <2>1. Good(Written(file, stage, k), StageOf(k))
      BY <1>1, <1>2, <1>3, GoodLess
    <2> QED
      BY <1>2, <1>3, <1>4, <2>1 DEF Good
  <1>5. CASE /\ Steps[k] \in Chunked
             /\ file' = Put(Written(file, stage, k - 1), Steps[k], Partial)
             /\ mutable' = StillMutable(stage, k)
    <2>1. Steps[k] \in Parts /\ Place[Steps[k]] = k
      BY <1>1, <1>5, PlaceOf DEF Chunked, Parts, Stages, Steps
    <2>2. Good(Written(file, stage, k - 1), k)
      BY <1>1, WrittenGood
    <2>3. Good(Put(Written(file, stage, k - 1), Steps[k], Partial), k)
      BY <1>1, <2>1, <2>2, PutGood
    <2>4. Good(Put(Written(file, stage, k - 1), Steps[k], Partial), StageOf(k))
      BY <1>1, <1>3, <2>3, GoodLess
    <2> QED
      BY <1>2, <1>3, <1>5, <2>4 DEF Good
  <1>6. CASE Steps[k] = "persist" /\ UNCHANGED <<file, mutable>>
    <2>1. stage = 1 /\ k = 1
      BY <1>1, <1>6, PlaceOf, StepPlaces
    <2>2. stage' = 1
      BY <1>3, <2>1
    <2> QED
      BY <1>6, <2>1, <2>2 DEF Good
  <1> QED
    BY <1>4, <1>5, <1>6 DEF SaveTimeout

\* A change makes a document there never was.
LEMMA ChangeMakesTwo ==
    ASSUME OneInv, NEW P, P # {}, P \subseteq Parts, Change(P)
    PROVE  past' # {} /\ ~ OneDocument'
  <1>1. past \subseteq past' /\ mem' \in past' /\ past # {}
    BY DEF Change, OneInv
  <1>2. ASSUME NEW d, past' = {d} PROVE FALSE
    <2>1. past = {d} /\ mem' = d
      BY <1>1, <1>2
    <2>2. Version = 1
      BY <2>1, FS_Singleton DEF Version
    <2>3. OneOK /\ mem = d
      BY <2>1 DEF OneInv, OneDocument, OneOK
    <2>4. PICK p \in Parts : p \in P
      OBVIOUS
    <2>5. mem'[p] = 2 /\ mem[p] < 2
      BY <2>2, <2>3, <2>4 DEF Change, OneOK
    <2> QED
      BY <2>1, <2>3, <2>5
  <1> QED
    BY <1>1, <1>2 DEF OneDocument

\* The steps that change it: nothing is left to show.
LEMMA ChangeOne ==
    ASSUME OneInv, IInv', Render \/ BuildToc \/ AddBlob \/ Parse PROVE OneInv'
  <1>1. /\ Rendered # {} /\ Rendered \subseteq Parts
        /\ {"toc"} \subseteq Parts /\ {"blobs"} \subseteq Parts /\ Parts # {}
    BY DEF Rendered, Parts, Stages, Steps
  <1>2. PICK P : P # {} /\ P \subseteq Parts /\ Change(P)
    BY <1>1 DEF Render, BuildToc, AddBlob, Parse
  <1> QED
    BY <1>2, ChangeMakesTwo DEF OneInv

\* A file that was not written to is good for a save that starts over.
LEMMA EmptyFileGood == Good(EmptyFile, 1)
  BY EmptyFileType, StepPlaces DEF Good, EmptyFile

LEMMA SwapOne == ASSUME OneInv, IInv', NEW p \in Swapped, Swap(p) PROVE OneInv'
  <1>1. UNCHANGED <<mem, mutable, past, stage>> /\ cache' = TRUE /\ file.parts[p] # mem[p]
    BY DEF Swap, doc
  <1>2. p \in Parts /\ stage \in 1 .. 13
    BY SaveChangesAssumption DEF Parts, Stages, Steps, OneInv, IInv, TypeOK
  <1> SUFFICES ASSUME OneOK PROVE OneOK'
    BY <1>1 DEF OneInv, OneDocument
  <1>3. Good(file', stage)
    <2>1. CASE cache
      <3>1. file' = Put(file, p, Partial) /\ Good(file, stage)
        BY <2>1 DEF Swap, OneOK
      <3>2. ~ Place[p] < stage
        BY <1>1, <1>2, <3>1 DEF Good
      <3> QED
        BY <1>2, <3>1, <3>2, PutGood
    <2>2. CASE ~ cache
      <3>1. file' = Put(EmptyFile, p, Partial) /\ stage = 1
        BY <1>2, <2>2 DEF Swap, OneOK
      <3>2. ~ Place[p] < 1
        BY <1>2, StepPlaces
      <3> QED
        BY <1>2, <3>1, <3>2, EmptyFileGood, PutGood
    <2> QED
      BY <2>1, <2>2
  <1> QED
    BY <1>1, <1>3 DEF OneOK, Good

LEMMA UpdateMapOne ==
    ASSUME OneInv, IInv', NEW timer \in Timers, UpdateMap(timer) PROVE OneInv'
  <1>1. UNCHANGED <<cache, mem, past>>
    BY DEF UpdateMap, flags
  <1>2. TypeOK
    BY DEF OneInv, IInv
  <1> SUFFICES ASSUME OneOK PROVE OneOK'
    BY <1>1 DEF OneInv, OneDocument
  <1>3. Good(file, stage) /\ (stage > 1 => ~ mutable)
    BY DEF OneOK
  <1>4. CASE UNCHANGED <<file, mutable, stale, stage>>
    BY <1>1, <1>4 DEF OneOK, Good
  <1>5. CASE cache /\ Good(file, stage)' /\ (stage' > 1 => ~ mutable')
    BY <1>1, <1>5 DEF OneOK
  <1>6. CASE cache /\ SaveDone(file, timer)
    BY <1>1, <1>2, <1>3, <1>5, <1>6, SaveDoneGood
  <1>7. ASSUME cache, NEW k \in DOMAIN Steps, SaveTimeout(k) PROVE OneOK'
    BY <1>1, <1>2, <1>3, <1>5, <1>7, SaveTimeoutGood
  <1>8. ASSUME cache, NEW k \in DOMAIN Steps, SaveError(file, timer, k) PROVE OneOK'
    BY <1>1, <1>2, <1>3, <1>5, <1>8, SaveErrorGood
  <1> QED
    BY <1>4, <1>6, <1>7, <1>8 DEF UpdateMap

LEMMA SwapToCacheOne ==
    ASSUME OneInv, IInv', NEW timer \in Timers, SwapToCache(timer) PROVE OneInv'
  <1> DEFINE f == IF mapped \/ cache THEN file ELSE EmptyFile
  <1>1. UNCHANGED <<mem, past>>
    BY DEF SwapToCache
  <1>2. TypeOK /\ stage \in 1 .. 13
    BY DEF OneInv, IInv, TypeOK, Steps
  <1> SUFFICES ASSUME OneOK PROVE OneOK'
    BY <1>1 DEF OneInv, OneDocument
  <1>3. Good(f, stage) /\ (stage > 1 => ~ mutable)
    <2>1. CASE mapped \/ cache
      BY <2>1 DEF OneOK
    <2>2. CASE ~ (mapped \/ cache)
      <3>1. stage = 1
        BY <1>2, <2>2 DEF OneOK
      <3> QED
        BY <2>2, <3>1, EmptyFileGood
    <2> QED
      BY <2>1, <2>2
  <1>4. CASE cache' = TRUE /\ file' = f /\ UNCHANGED <<mutable, stage>>
    BY <1>1, <1>3, <1>4 DEF OneOK, Good
  <1>5. CASE cache' = TRUE /\ Good(file, stage)' /\ (stage' > 1 => ~ mutable')
    BY <1>1, <1>5 DEF OneOK
  <1>6. CASE cache' = TRUE /\ SaveDone(f, timer)
    BY <1>1, <1>2, <1>3, <1>5, <1>6, SaveDoneGood
  <1>7. ASSUME cache' = TRUE, NEW k \in DOMAIN Steps, SaveError(f, timer, k) PROVE OneOK'
    BY <1>1, <1>2, <1>3, <1>5, <1>7, SaveErrorGood
  <1>8. CASE UNCHANGED <<file, mutable, stale, stage, cache, mapped>>
    BY <1>1, <1>8 DEF OneOK, Good
  <1> QED
    BY <1>4, <1>6, <1>7, <1>8 DEF SwapToCache

\* A clean file that is opened is the document itself.
LEMMA OpenOne == ASSUME OneInv, IInv', OpenFromCache PROVE OneInv'
  <1>1. UNCHANGED <<file, past>> /\ mem' = file.parts /\ stage' = 1 /\ file.status = "clean"
    BY DEF OpenFromCache
  <1> SUFFICES ASSUME OneOK PROVE OneOK'
    BY <1>1 DEF OneInv, OneDocument
  <1>2. mem' = mem
    BY <1>1 DEF OneOK, Good
  <1>3. stage \in 1 .. 13
    BY DEF OneInv, IInv, TypeOK, Steps
  <1>4. Good(file, 1)
    BY <1>3, GoodLess DEF OneOK
  <1> QED
    BY <1>1, <1>2, <1>4 DEF OneOK, Good

LEMMA InitOne == Init => OneInv
  <1> SUFFICES ASSUME Init PROVE OneInv
    OBVIOUS
  <1>1. IInv
    BY InitInv
  <1>2. mem \in past /\ (\A p \in Parts : mem[p] < 2) /\ past # {} /\ stage = 1
    BY DEF Init
  <1>3. Good(file, 1)
    BY EmptyFileGood DEF Good, Init, EmptyFile, Files
  <1> QED
    BY <1>1, <1>2, <1>3 DEF OneInv, OneOK

LEMMA NextOne == OneInv /\ [Next]_vars => OneInv'
  <1> SUFFICES ASSUME OneInv, [Next]_vars PROVE OneInv'
    OBVIOUS
  <1>1. IInv'
    BY NextInv DEF OneInv
  <1>2. CASE Render \/ BuildToc \/ AddBlob \/ Parse
    BY <1>1, <1>2, ChangeOne
  <1>3. ASSUME NEW p \in Swapped, Swap(p) PROVE OneInv'
    BY <1>1, <1>3, SwapOne
  <1>4. ASSUME NEW timer \in Timers, UpdateMap(timer) \/ SwapToCache(timer) PROVE OneInv'
    BY <1>1, <1>4, UpdateMapOne, SwapToCacheOne
  <1>5. CASE OpenFromCache
    BY <1>1, <1>5, OpenOne
  <1>6. CASE UNCHANGED vars
    BY <1>1, <1>6 DEF OneInv, OneOK, OneDocument, Good, vars
  <1> QED
    BY <1>2, <1>3, <1>4, <1>5, <1>6 DEF Next, Restart

\* However often the timer expires, a write fails, the front end calls again or
\* the program opens its clean file anew: the clean file of a document that did
\* not change since it was parsed holds the whole of it (saveChanges going on at
\* _mapSavingStage).
THEOREM ResumedIsComplete == Spec => []ResumedSaveIsComplete
  <1>1. OneInv => ResumedSaveIsComplete
    BY DEF OneInv, OneOK, OneDocument, Good, ResumedSaveIsComplete
  <1> QED
    BY <1>1, InitOne, NextOne, PTL DEF Spec

-----------------------------------------------------------------------------
(* A list through a table: q has its places in order, next leads from one  *)
(* to the one that follows.                                                *)
Linked(q, first, next) ==
    /\ q \in Seq(DOMAIN next) /\ IsInjective(q)
    /\ first = (IF q = <<>> THEN 0 ELSE q[1])
    /\ \A k \in 1 .. Len(q) : next[q[k]] = IF k < Len(q) THEN q[k + 1] ELSE 0

LEMMA SeqIn ==
    ASSUME NEW S, NEW T, NEW q \in Seq(S), \A k \in 1 .. Len(q) : q[k] \in T
    PROVE  q \in Seq(T)
  <1>1. q \in [1 .. Len(q) -> T] /\ Len(q) \in Nat
    OBVIOUS
  <1> QED  BY <1>1

LEMMA SeqElements ==
    ASSUME NEW S, NEW q \in Seq(S)
    PROVE  Len(q) \in Nat /\ DOMAIN q = 1 .. Len(q) /\ \A k \in 1 .. Len(q) : q[k] \in S
  OBVIOUS

LEMMA LinkedFits ==
    ASSUME NEW m \in Nat, NEW q \in Seq(1 .. m), IsInjective(q)
    PROVE  Len(q) <= m
  <1>1. Len(q) \in Nat /\ IsFiniteSet(1 .. m) /\ Cardinality(1 .. m) = m
        /\ Cardinality(1 .. Len(q)) = Len(q)
    <2>1. ASSUME NEW n \in Nat  PROVE IsFiniteSet(1 .. n) /\ Cardinality(1 .. n) = n
      <3>1. /\ IsFiniteSet(1 .. n)
            /\ Cardinality(1 .. n) = IF 1 > n THEN 0 ELSE n - 1 + 1
        BY FS_Interval
      <3> QED  BY <3>1
    <2> QED  BY <2>1
  <1>2. q \in [1 .. Len(q) -> 1 .. m]
    OBVIOUS
  <1>3. q \in Injection(1 .. Len(q), 1 .. m)
    BY <1>2 DEF Injection, IsInjective
  <1>4. Cardinality(1 .. Len(q)) <= Cardinality(1 .. m)
    BY <1>1, <1>3, FS_Injection
  <1> QED  BY <1>1, <1>4

\* What Chain computes.
LEMMA ChainIs ==
    ASSUME NEW next, NEW m \in Nat, next \in [1 .. m -> Nat], NEW q, NEW first, Linked(q, first, next)
    PROVE  /\ Chain(first, next) = [k \in 0 .. m |-> IF k < Len(q) THEN q[k + 1] ELSE 0]
           /\ Len(q) <= m
  <1>1. /\ next \in Seq(Nat) /\ Len(next) = m /\ DOMAIN next = 1 .. m
        /\ q \in Seq(1 .. m) /\ Len(q) \in Nat
        /\ \A k \in 1 .. Len(q) : q[k] \in 1 .. m
        /\ Len(q) <= m
    BY LinkedFits DEF Linked
  <1> DEFINE g == [k \in 0 .. m |-> IF k < Len(q) THEN q[k + 1] ELSE 0]
             Is(f) == f = [k \in 0 .. m |->
                              IF k = 0 THEN first ELSE IF f[k - 1] = 0 THEN 0 ELSE next[f[k - 1]]]
  <1>2. Is(g)
    <2>1. ASSUME NEW k \in 0 .. m
          PROVE  g[k] = IF k = 0 THEN first ELSE IF g[k - 1] = 0 THEN 0 ELSE next[g[k - 1]]
      <3>1. CASE k = 0
        BY <1>1, <3>1 DEF Linked
      <3>2. CASE k # 0
        <4>1. k - 1 \in 0 .. m /\ k \in Nat /\ k - 1 \in Nat
          BY <3>2
        <4>2. CASE k - 1 < Len(q)
          <5>1. k \in 1 .. Len(q) /\ q[k] \in 1 .. m /\ q[k] # 0
            BY <1>1, <4>1, <4>2
          <5>2. g[k - 1] = q[k]
            BY <4>1, <4>2
          <5>3. next[q[k]] = IF k < Len(q) THEN q[k + 1] ELSE 0
            BY <5>1 DEF Linked
          <5>4. g[k] = IF k < Len(q) THEN q[k + 1] ELSE 0
            OBVIOUS
          <5> HIDE DEF g
          <5> QED  BY <3>2, <5>1, <5>2, <5>3, <5>4
        <4>3. CASE ~ (k - 1 < Len(q))
          BY <1>1, <3>2, <4>1, <4>3
        <4> QED  BY <4>2, <4>3
      <3> QED  BY <3>1, <3>2
    <2> QED  BY <2>1
  <1> HIDE DEF g
  <1>3. ASSUME NEW f, Is(f)  PROVE f = g
    <2> DEFINE P == [k \in 0 .. m |-> {g[k]}]
    <2>1. f[0] \in P[0]
      BY <1>2, <1>3
    <2>2. ASSUME NEW k \in 1 .. m, f[k - 1] \in P[k - 1]  PROVE f[k] \in P[k]
      <3>1. k \in 0 .. m /\ k - 1 \in 0 .. m /\ k # 0
        OBVIOUS
      <3>2. f[k - 1] = g[k - 1]
        BY <2>2, <3>1
      <3>3. f[k] = IF f[k - 1] = 0 THEN 0 ELSE next[f[k - 1]]
        BY <1>3, <3>1
      <3>4. g[k] = IF g[k - 1] = 0 THEN 0 ELSE next[g[k - 1]]
        BY <1>2, <3>1
      <3> QED  BY <3>1, <3>2, <3>3, <3>4
    <2>3. \A k \in 0 .. m : f[k] \in P[k]
      <3> HIDE DEF P
      <3> QED  BY <2>1, <2>2, FoldKeeps
    <2>4. \A k \in 0 .. m : f[k] = g[k]
      BY <2>3
    <2>5. f = [k \in 0 .. m |-> f[k]] /\ g = [k \in 0 .. m |-> g[k]]
      BY <1>2, <1>3
    <2> QED  BY <2>4, <2>5
  <1>4. Chain(first, next) = CHOOSE f : Is(f)
    BY <1>1, Zenon DEF Chain
  <1>5. Chain(first, next) = g
    BY <1>2, <1>3, <1>4, Zenon
  <1> QED  BY <1>1, <1>5 DEF g

\* The first place is taken off.
LEMMA LinkedTail ==
    ASSUME NEW next, NEW next2, NEW q, NEW first, Linked(q, first, next), q # <<>>,
           Range(Tail(q)) \subseteq DOMAIN next2, \A x \in Range(Tail(q)) : next2[x] = next[x]
    PROVE  Linked(Tail(q), next[first], next2)
  <1>1. /\ q \in Seq(DOMAIN next) /\ Len(q) \in Nat /\ Len(q) >= 1 /\ Len(Tail(q)) = Len(q) - 1
        /\ Tail(q) \in Seq(DOMAIN next) /\ IsInjective(Tail(q)) /\ first = q[1]
        /\ \A k \in 1 .. Len(q) - 1 : Tail(q)[k] = q[k + 1]
    BY TailKeeps DEF Linked
  <1> DEFINE t == Tail(q)
  <1> HIDE DEF t
  <1>2. \A k \in 1 .. Len(t) : t[k] \in Range(t)
    BY <1>1, RangeIs DEF t
  <1>3. t \in Seq(DOMAIN next2)
    <2>1. t \in Seq(DOMAIN next)
      BY <1>1 DEF t
    <2>2. \A k \in 1 .. Len(t) : t[k] \in DOMAIN next2
      BY <1>2 DEF t
    <2> QED  BY <2>1, <2>2, SeqIn
  <1>4. next[first] = IF t = <<>> THEN 0 ELSE t[1]
    <2>1. next[q[1]] = IF 1 < Len(q) THEN q[2] ELSE 0
      BY <1>1 DEF Linked
    <2>2. t = <<>> <=> Len(q) = 1
      <3>1. t \in Seq(DOMAIN next) /\ Len(t) = Len(q) - 1
        BY <1>1 DEF t
      <3>2. t = <<>> <=> Len(t) = 0
        BY <3>1, EmptySeq
      <3> QED  BY <1>1, <3>1, <3>2
    <2> QED  BY <1>1, <2>1, <2>2 DEF t
  <1>5. ASSUME NEW k \in 1 .. Len(t)  PROVE next2[t[k]] = IF k < Len(t) THEN t[k + 1] ELSE 0
    <2>1. next2[t[k]] = next[q[k + 1]]
      BY <1>1, <1>2 DEF t
    <2>2. k + 1 \in 1 .. Len(q) /\ Len(t) = Len(q) - 1
      BY <1>1 DEF t
    <2>3. next[q[k + 1]] = IF k + 1 < Len(q) THEN q[k + 2] ELSE 0
      BY <2>2 DEF Linked
    <2>4. k < Len(t) => t[k + 1] = q[k + 2]
      BY <1>1, <2>2 DEF t
    <2> QED  BY <1>1, <2>1, <2>2, <2>3, <2>4
  <1> QED  BY <1>1, <1>3, <1>4, <1>5 DEF Linked, t

\* A place is put in front.
LEMMA LinkedCons ==
    ASSUME NEW next, NEW next2, NEW q, NEW first, Linked(q, first, next), NEW x, x \notin Range(q),
           Range(q) \cup {x} \subseteq DOMAIN next2,
           next2[x] = first, \A y \in Range(q) : next2[y] = next[y]
    PROVE  /\ Linked(<<x>> \o q, x, next2)
           /\ Range(<<x>> \o q) = Range(q) \cup {x}
  <1> DEFINE t == <<x>> \o q
             D == DOMAIN next2
  <1>1. q \in Seq(DOMAIN next) /\ Len(q) \in Nat
    BY DEF Linked
  <1>2. q \in Seq(D) /\ <<x>> \in Seq(D) /\ Range(<<x>>) = {x}
    <2>2. \A k \in 1 .. Len(q) : q[k] \in D
      BY <1>1, RangeIs
    <2>3. x \in D
      OBVIOUS
    <2> HIDE DEF D
    <2> QED  BY <1>1, <2>2, <2>3, OneInFront, SeqIn
  <1>3. t \in Seq(D) /\ Range(t) = Range(q) \cup {x}
    <2> HIDE DEF D
    <2>1. PICK p \in Seq(D) : p = <<x>>
      BY <1>2
    <2>2. p \o q \in Seq(D) /\ Range(p \o q) = Range(p) \cup Range(q)
      BY <1>2, RangeOfConcat
    <2> QED  BY <1>2, <2>1, <2>2
  <1>4. Len(t) = Len(q) + 1 /\ t[1] = x /\ \A k \in 1 .. Len(q) : t[k + 1] = q[k]
    BY <1>1, <1>2
  <1>5. IsInjective(t)
    <2>1. IsInjective(q) /\ IsInjective(<<x>>) /\ Range(<<x>>) \cap Range(q) = {}
      BY <1>2 DEF Linked, IsInjective
    <2> HIDE DEF D
    <2> QED  BY <1>2, <2>1, ConcatIsInjective
  <1> HIDE DEF t
  <1>6. ASSUME NEW k \in 1 .. Len(t)  PROVE next2[t[k]] = IF k < Len(t) THEN t[k + 1] ELSE 0
    <2>1. CASE k = 1
      <3>1. q = <<>> <=> Len(q) = 0
        BY <1>1
      <3> QED  BY <1>1, <1>4, <2>1, <3>1 DEF Linked
    <2>2. CASE k # 1
      <3>1. k - 1 \in 1 .. Len(q) /\ t[k] = q[k - 1] /\ q[k - 1] \in Range(q)
        <4>1. PICK j : j = k - 1
          OBVIOUS
        <4>2. j \in 1 .. Len(q) /\ k = j + 1
          BY <1>1, <1>4, <2>2, <4>1
        <4> QED  BY <1>1, <1>4, <4>1, <4>2, RangeIs
      <3>2. next[q[k - 1]] = IF k - 1 < Len(q) THEN q[(k - 1) + 1] ELSE 0
        BY <3>1 DEF Linked
      <3>3. k - 1 < Len(q) => k \in 1 .. Len(q) /\ t[k + 1] = q[k]
        BY <1>1, <1>4
      <3> QED  BY <1>1, <1>4, <3>1, <3>2, <3>3
    <2> QED  BY <2>1, <2>2
  <1>7. t # <<>>
    BY <1>4, <1>1
  <1> QED  BY <1>3, <1>4, <1>5, <1>6, <1>7 DEF Linked, t

LEMMA NothingLinked ==
    ASSUME NEW next
    PROVE  Linked(<<>>, 0, next) /\ Range(<<>>) = {}
  <1>1. /\ <<>> \in Seq(DOMAIN next) /\ Len(<<>>) = 0 /\ DOMAIN <<>> = {}
    OBVIOUS
  <1>2. \A k \in 1 .. Len(<<>>) : next[<<>>[k]] = IF k < Len(<<>>) THEN <<>>[k + 1] ELSE 0
    BY <1>1
  <1> QED  BY <1>1, <1>2, EmptyRange DEF Linked, IsInjective

\* Where next is the same, so is the list.
LEMMA LinkedSame ==
    ASSUME NEW next, NEW next2, NEW q, NEW first, Linked(q, first, next),
           Range(q) \subseteq DOMAIN next2, \A y \in Range(q) : next2[y] = next[y]
    PROVE  Linked(q, first, next2)
  <1>1. q \in Seq(DOMAIN next) /\ \A k \in 1 .. Len(q) : q[k] \in Range(q)
    BY RangeIs DEF Linked
  <1>2. \A k \in 1 .. Len(q) : q[k] \in DOMAIN next2
    BY <1>1
  <1>3. q \in Seq(DOMAIN next2)
    BY <1>1, <1>2, SeqIn
  <1> QED  BY <1>1, <1>3 DEF Linked

-----------------------------------------------------------------------------
(* The caches of RefCache.                                                 *)
Caches(V) == [index : Seq([item : V \cup {Null}, refcount : Nat]), free : Nat]
Nexts(y) == [n \in DOMAIN y.index |-> y.index[n].refcount]
Gaps(y) == {n \in DOMAIN y.index : y.index[n].item = Null}

\* A cache of values of V: CacheSound and its type.
GoodCache(y, V) ==
    /\ y \in Caches(V)
    /\ \E q : Linked(q, y.free, Nexts(y)) /\ Range(q) = Gaps(y)
    /\ \A n \in DOMAIN y.index \ Gaps(y) :
           /\ y.index[n].refcount >= 1
           /\ \A m \in DOMAIN y.index : y.index[m].item = y.index[n].item => m = n

\* The references to an entry that has a value.
Count(y, n) == IF Holds(y, n) THEN y.index[n].refcount ELSE 0

LEMMA CacheTypes ==
    ASSUME NEW V, NEW y \in Caches(V)
    PROVE  /\ y.index \in Seq([item : V \cup {Null}, refcount : Nat])
           /\ Len(y.index) \in Nat /\ DOMAIN y.index = 1 .. Len(y.index) /\ y.free \in Nat
           /\ \A n \in 1 .. Len(y.index) :
                  /\ y.index[n] \in [item : V \cup {Null}, refcount : Nat]
                  /\ y.index[n].item \in V \cup {Null} /\ y.index[n].refcount \in Nat
                  /\ y.index[n] = [item |-> y.index[n].item, refcount |-> y.index[n].refcount]
           /\ Nexts(y) \in [1 .. Len(y.index) -> Nat]
           /\ y = [index |-> y.index, free |-> y.free]
  <1>1. y.index \in Seq([item : V \cup {Null}, refcount : Nat]) /\ y.free \in Nat
        /\ y = [index |-> y.index, free |-> y.free]
    BY DEF Caches
  <1>2. Len(y.index) \in Nat /\ DOMAIN y.index = 1 .. Len(y.index)
        /\ \A n \in 1 .. Len(y.index) : y.index[n] \in [item : V \cup {Null}, refcount : Nat]
    BY <1>1, SeqElements
  <1>3. \A n \in 1 .. Len(y.index) :
            /\ y.index[n].item \in V \cup {Null} /\ y.index[n].refcount \in Nat
            /\ y.index[n] = [item |-> y.index[n].item, refcount |-> y.index[n].refcount]
    BY <1>2
  <1>4. Nexts(y) \in [1 .. Len(y.index) -> Nat]
    BY <1>2, <1>3 DEF Nexts
  <1> QED  BY <1>1, <1>2, <1>3, <1>4

LEMMA GoodIsSound ==
    ASSUME NEW V, NEW y, GoodCache(y, V)
    PROVE  CacheSound(y)
  <1> DEFINE m == Len(y.index)
             empty == {n \in DOMAIN y.index : y.index[n].item = Null}
             chain == FreeChain(y)
  <1>1. PICK q : Linked(q, y.free, Nexts(y)) /\ Range(q) = empty
    BY DEF GoodCache, Gaps
  <1>2. /\ m \in Nat /\ DOMAIN y.index = 1 .. m /\ Nexts(y) \in [1 .. m -> Nat]
        /\ \A n \in 1 .. m : y.index[n].refcount \in Nat
    BY CacheTypes DEF GoodCache
  <1>3. chain = Chain(y.free, Nexts(y))
    BY DEF FreeChain, Nexts
  <1>4. chain = [k \in 0 .. m |-> IF k < Len(q) THEN q[k + 1] ELSE 0] /\ Len(q) <= m
    <2> HIDE DEF m, chain
    <2>1. PICK first, next : first = y.free /\ next = Nexts(y)
      OBVIOUS
    <2>2. /\ Chain(first, next) = [k \in 0 .. m |-> IF k < Len(q) THEN q[k + 1] ELSE 0]
          /\ Len(q) <= m
      <3>1. Linked(q, first, next) /\ m \in Nat /\ next \in [1 .. m -> Nat]
        BY <1>1, <1>2, <2>1
      <3> QED  BY <3>1, ChainIs
    <2> QED  BY <1>3, <2>1, <2>2
  <1>5. q \in Seq(1 .. m) /\ Len(q) \in Nat /\ \A k \in 1 .. Len(q) : q[k] \in empty
    BY <1>1, <1>2, RangeIs DEF Linked, Nexts
  <1> HIDE DEF chain, m
  <1>6. y.free \in empty \cup {0}
    <2>1. q # <<>> => 1 \in 1 .. Len(q)
      BY <1>5, EmptySeq
    <2> QED  BY <1>1, <1>5, <2>1 DEF Linked
  <1>7. \A n \in empty : /\ y.index[n].refcount \in empty \cup {0}
                         /\ \E k \in DOMAIN chain : chain[k] = n
    <2> SUFFICES ASSUME NEW n \in empty
                 PROVE  /\ y.index[n].refcount \in empty \cup {0}
                        /\ \E k \in DOMAIN chain : chain[k] = n
      OBVIOUS
    <2>1. PICK k \in 1 .. Len(q) : q[k] = n
      BY <1>1, <1>5, RangeIs
    <2>2. Nexts(y)[n] = y.index[n].refcount
      BY DEF Nexts
    <2>3. Nexts(y)[n] = IF k < Len(q) THEN q[k + 1] ELSE 0
      BY <1>1, <2>1 DEF Linked
    <2>4. k < Len(q) => k + 1 \in 1 .. Len(q)
      BY <1>5
    <2>5. k - 1 \in 0 .. m /\ k - 1 < Len(q) /\ (k - 1) + 1 = k
      BY <1>2, <1>4, <1>5
    <2>6. chain[k - 1] = n /\ k - 1 \in DOMAIN chain
      BY <1>4, <2>1, <2>5
    <2> QED  BY <1>5, <2>2, <2>3, <2>4, <2>6
  <1>8. chain[Len(y.index)] = 0
    BY <1>2, <1>4, <1>5 DEF m
  <1>9. \A n \in DOMAIN y.index \ empty :
            /\ y.index[n].refcount \in Nat \ {0}
            /\ \A i \in DOMAIN y.index \ {n} : y.index[i].item # y.index[n].item
    BY <1>2 DEF GoodCache, Gaps
  <1> HIDE DEF empty
  <1>10. /\ y.free \in empty \cup {0}
         /\ \A n \in empty : y.index[n].refcount \in empty \cup {0}
         /\ chain[Len(y.index)] = 0
         /\ \A n \in empty : \E k \in DOMAIN chain : chain[k] = n
         /\ \A n \in DOMAIN y.index \ empty :
            /\ y.index[n].refcount \in Nat \ {0}
            /\ \A i \in DOMAIN y.index \ {n} : y.index[i].item # y.index[n].item
    BY <1>6, <1>7, <1>8, <1>9
  <1> QED  BY <1>10, Zenon DEF CacheSound, empty, chain

LEMMA EmptyIsGood ==
    ASSUME NEW V
    PROVE  /\ GoodCache(EmptyCache, V) /\ Len(EmptyCache.index) = 0
           /\ \A n : ~ Holds(EmptyCache, n) /\ Get(EmptyCache, n) = Null /\ Count(EmptyCache, n) = 0
  <1>1. EmptyCache \in Caches(V) /\ EmptyCache.index = <<>> /\ EmptyCache.free = 0
    BY DEF EmptyCache, Caches
  <1>2. DOMAIN EmptyCache.index = {} /\ Gaps(EmptyCache) = {} /\ DOMAIN Nexts(EmptyCache) = {}
    BY <1>1 DEF Gaps, Nexts
  <1>3. Linked(<<>>, EmptyCache.free, Nexts(EmptyCache)) /\ Range(<<>>) = {}
    BY <1>1, <1>2, EmptyRange DEF Linked, IsInjective
  <1>4. GoodCache(EmptyCache, V)
    BY <1>1, <1>2, <1>3 DEF GoodCache
  <1> QED  BY <1>1, <1>2, <1>4 DEF Holds, Get, Count

\* What an entry that has a value says.
LEMMA CountIs ==
    ASSUME NEW V, NEW y, GoodCache(y, V), Null \notin V, NEW n
    PROVE  /\ Count(y, n) \in Nat /\ (Holds(y, n) <=> Count(y, n) # 0)
           /\ Holds(y, n) => /\ n \in 1 .. Len(y.index) /\ Get(y, n) \in V
                             /\ \A m : Holds(y, m) /\ Get(y, m) = Get(y, n) => m = n
           /\ ~ Holds(y, n) => Get(y, n) = Null
  <1>1. /\ y \in Caches(V) /\ DOMAIN y.index = 1 .. Len(y.index)
        /\ \A i \in 1 .. Len(y.index) : y.index[i].refcount \in Nat /\ y.index[i].item \in V \cup {Null}
    BY CacheTypes DEF GoodCache
  <1>2. CASE Holds(y, n)
    <2>1. n \in 1 .. Len(y.index) /\ n \notin Gaps(y) /\ Get(y, n) = y.index[n].item
          /\ Count(y, n) = y.index[n].refcount
      BY <1>1, <1>2 DEF Holds, Gaps, Get, Count
    <2>2. /\ y.index[n].refcount >= 1
          /\ \A m \in DOMAIN y.index : y.index[m].item = y.index[n].item => m = n
      BY <1>1, <2>1 DEF GoodCache
    <2>3. \A m : Holds(y, m) => m \in DOMAIN y.index /\ Get(y, m) = y.index[m].item
      BY DEF Holds, Get
    <2>4. Get(y, n) \in V
      BY <1>1, <1>2, <2>1 DEF Holds
    <2> QED  BY <1>1, <1>2, <2>1, <2>2, <2>3, <2>4
  <1>3. CASE ~ Holds(y, n)
    BY <1>3 DEF Count, Get
  <1> QED  BY <1>2, <1>3

\* Another count for an entry.
LEMMA WithCount ==
    ASSUME NEW V, NEW y, GoodCache(y, V), Null \notin V, NEW n, Holds(y, n), NEW k \in Nat, k >= 1,
           NEW r, r = [y EXCEPT !.index[n].refcount = k]
    PROVE  /\ GoodCache(r, V) /\ Len(r.index) = Len(y.index)
           /\ \A m : (Holds(r, m) <=> Holds(y, m)) /\ Get(r, m) = Get(y, m)
           /\ \A m : Count(r, m) = IF m = n THEN k ELSE Count(y, m)
  <1>1. /\ y \in Caches(V) /\ DOMAIN y.index = 1 .. Len(y.index) /\ Len(y.index) \in Nat
        /\ y.index \in Seq([item : V \cup {Null}, refcount : Nat]) /\ y.free \in Nat
        /\ \A i \in 1 .. Len(y.index) :
               /\ y.index[i] \in [item : V \cup {Null}, refcount : Nat]
               /\ y.index[i].refcount \in Nat /\ y.index[i].item \in V \cup {Null}
        /\ n \in 1 .. Len(y.index) /\ y.index[n].item # Null /\ n \notin Gaps(y)
    BY CacheTypes DEF GoodCache, Holds, Gaps
  <1> DEFINE I == [y.index EXCEPT ![n] = [y.index[n] EXCEPT !.refcount = k]]
  <1>2. r = [index |-> I, free |-> y.free] /\ r.index = I /\ r.free = y.free
    BY <1>1 DEF Caches
  <1>3. /\ I \in Seq([item : V \cup {Null}, refcount : Nat]) /\ Len(I) = Len(y.index)
        /\ DOMAIN I = 1 .. Len(y.index)
        /\ \A i \in 1 .. Len(y.index) : /\ I[i].item = y.index[i].item
                                        /\ I[i].refcount = IF i = n THEN k ELSE y.index[i].refcount
    <2>1. [y.index[n] EXCEPT !.refcount = k] \in [item : V \cup {Null}, refcount : Nat]
          /\ [y.index[n] EXCEPT !.refcount = k].item = y.index[n].item
          /\ [y.index[n] EXCEPT !.refcount = k].refcount = k
      BY <1>1
    <2>2. PICK z : z = [y.index[n] EXCEPT !.refcount = k]
      OBVIOUS
    <2>3. I = [y.index EXCEPT ![n] = z]
      BY <2>2
    <2> HIDE DEF I
    <2> QED  BY <1>1, <2>1, <2>2, <2>3, SeqElements
  <1> HIDE DEF I
  <1>4. r \in Caches(V)
    BY <1>1, <1>2, <1>3 DEF Caches
  <1>5. Gaps(r) = Gaps(y)
    BY <1>1, <1>2, <1>3 DEF Gaps
  <1>6. PICK q : Linked(q, y.free, Nexts(y)) /\ Range(q) = Gaps(y)
    BY DEF GoodCache
  <1>7. Linked(q, r.free, Nexts(r))
    <2>1. Range(q) \subseteq DOMAIN Nexts(r) /\ \A x \in Range(q) : Nexts(r)[x] = Nexts(y)[x]
      BY <1>1, <1>2, <1>3, <1>6 DEF Gaps, Nexts
    <2> QED  BY <1>2, <1>6, <2>1, LinkedSame
  <1>8. \A i \in DOMAIN r.index \ Gaps(r) :
            /\ r.index[i].refcount >= 1
            /\ \A m \in DOMAIN r.index : r.index[m].item = r.index[i].item => m = i
    BY <1>1, <1>2, <1>3, <1>5 DEF GoodCache
  <1>9. GoodCache(r, V)
    BY <1>4, <1>5, <1>6, <1>7, <1>8 DEF GoodCache
  <1>10. \A m : Holds(r, m) <=> Holds(y, m)
    BY <1>1, <1>2, <1>3 DEF Holds
  <1> QED  BY <1>1, <1>2, <1>3, <1>9, <1>10 DEF Holds, Get, Count

LEMMA AddIndexRefIs ==
    ASSUME NEW V, NEW y, GoodCache(y, V), Null \notin V, NEW n, NEW r, r = AddIndexRef(y, n)
    PROVE  /\ GoodCache(r, V) /\ Len(r.index) = Len(y.index)
           /\ \A m : (Holds(r, m) <=> Holds(y, m)) /\ Get(r, m) = Get(y, m)
           /\ \A m : Count(r, m) = IF m = n /\ Holds(y, n) THEN Count(y, m) + 1 ELSE Count(y, m)
  <1>1. CASE ~ Holds(y, n)
    BY <1>1 DEF AddIndexRef
  <1>2. CASE Holds(y, n)
    <2>1. PICK k : k = y.index[n].refcount + 1
      OBVIOUS
    <2>2. Count(y, n) = y.index[n].refcount /\ Count(y, n) \in Nat
      BY <1>2, CountIs DEF Count
    <2>3. r = [y EXCEPT !.index[n].refcount = k]
      BY <1>2, <2>1 DEF AddIndexRef
    <2>4. k \in Nat /\ k >= 1
      BY <2>1, <2>2
    <2>5. /\ GoodCache(r, V) /\ Len(r.index) = Len(y.index)
          /\ \A m : (Holds(r, m) <=> Holds(y, m)) /\ Get(r, m) = Get(y, m)
          /\ \A m : Count(r, m) = IF m = n THEN k ELSE Count(y, m)
      BY <1>2, <2>3, <2>4, WithCount
    <2> QED  BY <1>2, <2>1, <2>2, <2>5
  <1> QED  BY <1>1, <1>2

\* The values of an entry that becomes y's a: what indexItem does to the entries.
Entered(y, r, a, v) ==
    /\ a \in 1 .. Len(r.index) /\ ~ Holds(y, a)
    /\ \/ Len(r.index) = Len(y.index)
       \/ Len(r.index) = Len(y.index) + 1 /\ a = Len(r.index) /\ Gaps(y) = {}
    /\ \A m : Holds(r, m) <=> (m = a \/ Holds(y, m))
    /\ \A m : Get(r, m) = IF m = a THEN v ELSE Get(y, m)
    /\ \A m : Count(r, m) = IF m = a THEN 1 ELSE Count(y, m)

LEMMA EntersGap ==
    ASSUME NEW V, NEW y, GoodCache(y, V), Null \notin V, NEW v \in V, \A m : Get(y, m) # v,
           y.free # 0, NEW r,
           r = [index |-> [y.index EXCEPT ![y.free] = IndexRec(v, 1)],
                free |-> y.index[y.free].refcount]
    PROVE  GoodCache(r, V) /\ Entered(y, r, y.free, v)
  <1> DEFINE R == [item : V \cup {Null}, refcount : Nat]
             a == y.free
  <1>1. /\ y \in Caches(V) /\ DOMAIN y.index = 1 .. Len(y.index) /\ Len(y.index) \in Nat
        /\ y.index \in Seq(R) /\ a \in Nat
        /\ \A i \in 1 .. Len(y.index) :
               y.index[i] \in R /\ y.index[i].refcount \in Nat /\ y.index[i].item \in V \cup {Null}
    BY CacheTypes DEF GoodCache
  <1>2. PICK q : Linked(q, a, Nexts(y)) /\ Range(q) = Gaps(y)
    BY DEF GoodCache
  <1>3. /\ q \in Seq(1 .. Len(y.index)) /\ q # <<>> /\ a = q[1] /\ a \in Gaps(y)
        /\ Range(q) = Range(Tail(q)) \cup {a} /\ a \notin Range(Tail(q))
    <2>1. q \in Seq(1 .. Len(y.index)) /\ q # <<>> /\ a = q[1] /\ IsInjective(q)
      BY <1>1, <1>2 DEF Linked, Nexts
    <2>2. /\ Range(q) = Range(Tail(q)) \cup {Head(q)} /\ Head(q) \notin Range(Tail(q))
      BY <2>1, TailKeeps
    <2>3. Head(q) = q[1]
      BY <2>1
    <2> QED  BY <1>2, <2>1, <2>2, <2>3
  <1>4. a \in 1 .. Len(y.index) /\ y.index[a].item = Null /\ ~ Holds(y, a)
    BY <1>1, <1>3 DEF Gaps, Holds
  <1>5. /\ r.index \in Seq(R) /\ Len(r.index) = Len(y.index) /\ DOMAIN r.index = 1 .. Len(y.index)
        /\ r.index[a].item = v /\ r.index[a].refcount = 1
        /\ \A i \in 1 .. Len(y.index) : i # a => r.index[i] = y.index[i]
        /\ r.free = y.index[a].refcount /\ r.free \in Nat
    <2>1. PICK z : z = IndexRec(v, 1)
      OBVIOUS
    <2>2. z \in R /\ z.item = v /\ z.refcount = 1
      BY <2>1 DEF IndexRec
    <2>3. r.index = [y.index EXCEPT ![a] = z] /\ r.free = y.index[a].refcount
      BY <2>1
    <2> HIDE DEF R
    <2> QED  BY <1>1, <1>4, <2>2, <2>3
  <1>6. r \in Caches(V)
    <2>1. r = [index |-> r.index, free |-> r.free]
      OBVIOUS
    <2> QED  BY <1>5, <2>1 DEF Caches
  <1>7. Gaps(r) = Gaps(y) \ {a}
    BY <1>1, <1>4, <1>5 DEF Gaps
  <1>8. Linked(Tail(q), r.free, Nexts(r)) /\ Range(Tail(q)) = Gaps(r)
    <2>1. Range(Tail(q)) = Gaps(r)
      BY <1>2, <1>3, <1>7
    <2>2. Range(Tail(q)) \subseteq DOMAIN Nexts(r) /\ \A x \in Range(Tail(q)) : Nexts(r)[x] = Nexts(y)[x]
      BY <1>1, <1>5, <1>7, <2>1 DEF Gaps, Nexts
    <2>3. Linked(Tail(q), Nexts(y)[a], Nexts(r))
      BY <1>2, <1>3, <2>2, LinkedTail
    <2>4. Nexts(y)[a] = r.free
      BY <1>1, <1>4, <1>5 DEF Nexts
    <2> QED  BY <2>1, <2>3, <2>4
  <1>9. \A i \in DOMAIN r.index \ Gaps(r) :
            /\ r.index[i].refcount >= 1
            /\ \A m \in DOMAIN r.index : r.index[m].item = r.index[i].item => m = i
    <2>1. \A m \in 1 .. Len(y.index) : y.index[m].item # v
      BY <1>1 DEF Get, Holds
    <2> SUFFICES ASSUME NEW i \in DOMAIN r.index \ Gaps(r)
                 PROVE  /\ r.index[i].refcount >= 1
                        /\ \A m \in DOMAIN r.index : r.index[m].item = r.index[i].item => m = i
      OBVIOUS
    <2>2. CASE i = a
      BY <1>4, <1>5, <2>1, <2>2
    <2>3. CASE i # a
      <3>1. i \in DOMAIN y.index \ Gaps(y) /\ r.index[i] = y.index[i]
        BY <1>1, <1>5, <1>7, <2>3
      <3>2. /\ y.index[i].refcount >= 1
            /\ \A m \in DOMAIN y.index : y.index[m].item = y.index[i].item => m = i
        BY <3>1 DEF GoodCache
      <3>3. y.index[i].item # v
        BY <1>1, <2>1, <3>1
      <3> QED  BY <1>1, <1>5, <3>1, <3>2, <3>3
    <2> QED  BY <2>2, <2>3
  <1>10. GoodCache(r, V)
    BY <1>6, <1>8, <1>9 DEF GoodCache
  <1>11. \A m : Holds(r, m) <=> (m = a \/ Holds(y, m))
    BY <1>1, <1>4, <1>5 DEF Holds
  <1> QED  BY <1>1, <1>4, <1>5, <1>10, <1>11 DEF Entered, Holds, Get, Count

LEMMA EntersEnd ==
    ASSUME NEW V, NEW y, GoodCache(y, V), Null \notin V, NEW v \in V, \A m : Get(y, m) # v,
           y.free = 0, NEW r, r = [index |-> Append(y.index, IndexRec(v, 1)), free |-> 0]
    PROVE  GoodCache(r, V) /\ Entered(y, r, Len(y.index) + 1, v)
  <1> DEFINE R == [item : V \cup {Null}, refcount : Nat]
             a == Len(y.index) + 1
  <1>1. /\ y \in Caches(V) /\ DOMAIN y.index = 1 .. Len(y.index) /\ Len(y.index) \in Nat
        /\ y.index \in Seq(R) /\ a \in Nat
        /\ \A i \in 1 .. Len(y.index) :
               y.index[i] \in R /\ y.index[i].refcount \in Nat /\ y.index[i].item \in V \cup {Null}
    <2>1. y \in Caches(V)
      BY DEF GoodCache
    <2>2. /\ y.index \in Seq(R) /\ Len(y.index) \in Nat /\ DOMAIN y.index = 1 .. Len(y.index)
          /\ \A i \in 1 .. Len(y.index) :
               y.index[i] \in R /\ y.index[i].refcount \in Nat /\ y.index[i].item \in V \cup {Null}
      BY <2>1, CacheTypes
    <2> QED  BY <2>1, <2>2
  <1>2. PICK q : Linked(q, 0, Nexts(y)) /\ Range(q) = Gaps(y)
    BY DEF GoodCache
  <1>3. q = <<>> /\ Gaps(y) = {}
    <2>1. q \in Seq(1 .. Len(y.index)) /\ (q # <<>> => q[1] = 0)
      BY <1>1, <1>2 DEF Linked, Nexts
    <2>2. q # <<>> => q[1] \in 1 .. Len(y.index)
      BY <2>1, EmptySeq
    <2>3. q = <<>>
      BY <1>1, <2>1, <2>2
    <2> QED  BY <1>2, <2>3, EmptyRange
  <1>5. /\ r.index \in Seq(R) /\ Len(r.index) = a /\ DOMAIN r.index = 1 .. a
        /\ r.index[a].item = v /\ r.index[a].refcount = 1
        /\ \A i \in 1 .. Len(y.index) : r.index[i] = y.index[i]
        /\ r.free = 0 /\ r = [index |-> r.index, free |-> 0]
    <2>1. PICK z : z = IndexRec(v, 1)
      OBVIOUS
    <2>2. z \in R /\ z.item = v /\ z.refcount = 1
      BY <2>1 DEF IndexRec
    <2>3. r.index = Append(y.index, z) /\ r.free = 0 /\ r = [index |-> r.index, free |-> 0]
      BY <2>1
    <2> HIDE DEF R
    <2> QED  BY <1>1, <2>2, <2>3
  <1>6. r \in Caches(V)
    <2>1. PICK I \in Seq(R) : I = r.index
      BY <1>5
    <2>2. r = [index |-> I, free |-> 0]
      BY <1>5, <2>1
    <2>3. r \in [index : Seq(R), free : Nat]
      <3> HIDE DEF R
      <3> QED  BY <2>1, <2>2
    <2> QED  BY <2>3, Zenon DEF Caches
  <1>7. Gaps(r) = {}
    BY <1>1, <1>3, <1>5 DEF Gaps
  <1>8. Linked(<<>>, r.free, Nexts(r)) /\ Range(<<>>) = Gaps(r)
    BY <1>5, <1>7, NothingLinked
  <1>9. \A i \in DOMAIN r.index \ Gaps(r) :
            /\ r.index[i].refcount >= 1
            /\ \A m \in DOMAIN r.index : r.index[m].item = r.index[i].item => m = i
    <2>1. \A m \in 1 .. Len(y.index) : y.index[m].item # v
      BY <1>1 DEF Get, Holds
    <2>2. \A m \in 1 .. a : m = a \/ m \in 1 .. Len(y.index)
      BY <1>1
    <2> QED  BY <1>1, <1>3, <1>5, <1>7, <2>1, <2>2 DEF GoodCache
  <1>10. GoodCache(r, V)
    BY <1>6, <1>8, <1>9 DEF GoodCache
  <1>11. \A m : Holds(r, m) <=> (m = a \/ Holds(y, m))
    <2>1. v # Null /\ \A m \in 1 .. a : m = a \/ m \in 1 .. Len(y.index)
      BY <1>1
    <2> QED  BY <1>1, <1>5, <2>1 DEF Holds
  <1>12. ~ Holds(y, a) /\ a \in 1 .. Len(r.index)
    BY <1>1, <1>5 DEF Holds
  <1> QED  BY <1>1, <1>3, <1>5, <1>10, <1>11, <1>12 DEF Entered, Holds, Get, Count

\* What caching v does: one more reference to a, the entry of v.
Added(y, r, a, v) ==
    /\ a \in 1 .. Len(r.index)
    /\ \A m : Holds(r, m) <=> (m = a \/ Holds(y, m))
    /\ Get(r, a) = v /\ \A m : Holds(y, m) => Get(r, m) = Get(y, m)
    /\ \A m : Count(r, m) = IF m = a THEN Count(y, m) + 1 ELSE Count(y, m)

LEMMA CacheIs ==
    ASSUME NEW V, NEW y, GoodCache(y, V), Null \notin V, NEW v \in V,
           NEW r, r = Cache(y, v), NEW a, a = CachedAt(y, v)
    PROVE  /\ GoodCache(r, V) /\ Added(y, r, a, v)
           /\ Len(r.index) = Len(y.index)
              \/ (Len(r.index) = Len(y.index) + 1 /\ a = Len(r.index) /\ Gaps(y) = {})
           /\ \A m : Get(y, m) = v => m = a
  <1>1. /\ y \in Caches(V) /\ DOMAIN y.index = 1 .. Len(y.index) /\ Len(y.index) \in Nat /\ v # Null
    BY CacheTypes DEF GoodCache
  <1>2. CASE \E n \in DOMAIN y.index : y.index[n].item = v
    <2>1. Find(y, v) = CHOOSE n \in DOMAIN y.index : y.index[n].item = v
      BY <1>2 DEF Find
    <2>2. Find(y, v) \in DOMAIN y.index /\ y.index[Find(y, v)].item = v
      BY <1>2, <2>1
    <2>3. /\ Find(y, v) # 0 /\ a = Find(y, v) /\ r = AddIndexRef(y, a)
          /\ Holds(y, a) /\ Get(y, a) = v /\ a \in 1 .. Len(y.index)
      BY <1>1, <2>2 DEF CachedAt, Cache, Holds, Get
    <2>4. /\ GoodCache(r, V) /\ Len(r.index) = Len(y.index)
          /\ \A m : (Holds(r, m) <=> Holds(y, m)) /\ Get(r, m) = Get(y, m)
          /\ \A m : Count(r, m) = IF m = a /\ Holds(y, a) THEN Count(y, m) + 1 ELSE Count(y, m)
      BY <2>3, AddIndexRefIs
    <2>5. \A m : Get(y, m) = v => m = a
      <3>1. \A m : Holds(y, m) /\ Get(y, m) = Get(y, a) => m = a
        BY <2>3, CountIs
      <3> QED  BY <1>1, <2>3, <3>1 DEF Get
    <2>6. Added(y, r, a, v)
      <3>1. a \in 1 .. Len(r.index) /\ Get(r, a) = v /\ \A m : Holds(y, m) => Get(r, m) = Get(y, m)
        BY <2>3, <2>4
      <3>2. \A m : Holds(r, m) <=> (m = a \/ Holds(y, m))
        BY <2>3, <2>4
      <3>3. \A m : Count(r, m) = IF m = a THEN Count(y, m) + 1 ELSE Count(y, m)
        BY <2>3, <2>4
      <3> QED  BY <3>1, <3>2, <3>3, Zenon DEF Added
    <2> QED  BY <2>4, <2>5, <2>6
  <1>3. CASE ~ \E n \in DOMAIN y.index : y.index[n].item = v
    <2>1. Find(y, v) = 0 /\ a = NextIndex(y) /\ r = IndexItem(y, v)
      BY <1>3 DEF Find, CachedAt, Cache
    <2>2. \A m : Get(y, m) # v
      BY <1>1, <1>3 DEF Get, Holds
    <2>3. GoodCache(r, V) /\ Entered(y, r, a, v)
      <3>1. CASE y.free # 0
        <4>1. /\ a = y.free
              /\ r = [index |-> [y.index EXCEPT ![y.free] = IndexRec(v, 1)],
                      free |-> y.index[y.free].refcount]
          BY <2>1, <3>1 DEF NextIndex, IndexItem
        <4> QED  BY <2>2, <3>1, <4>1, EntersGap
      <3>2. CASE y.free = 0
        <4>1. /\ a = Len(y.index) + 1 /\ r = [y EXCEPT !.index = Append(@, IndexRec(v, 1))]
          BY <2>1, <3>2 DEF NextIndex, IndexItem
        <4>2. r = [index |-> Append(y.index, IndexRec(v, 1)), free |-> 0]
          BY <1>1, <3>2, <4>1 DEF Caches
        <4>3. a = Len(y.index) + 1
          BY <4>1
        <4> QED  BY <2>2, <3>2, <4>2, <4>3, EntersEnd
      <3> QED  BY <3>1, <3>2
    <2>4. Count(y, a) = 0
      BY <2>3 DEF Entered, Count
    <2>5. Added(y, r, a, v)
      <3>1. /\ a \in 1 .. Len(r.index) /\ ~ Holds(y, a)
            /\ \A m : Holds(r, m) <=> (m = a \/ Holds(y, m))
            /\ \A m : Get(r, m) = IF m = a THEN v ELSE Get(y, m)
            /\ \A m : Count(r, m) = IF m = a THEN 1 ELSE Count(y, m)
        BY <2>3 DEF Entered
      <3>2. Get(r, a) = v /\ \A m : Holds(y, m) => Get(r, m) = Get(y, m)
        BY <3>1
      <3>3. \A m : Count(r, m) = IF m = a THEN Count(y, m) + 1 ELSE Count(y, m)
        BY <2>4, <3>1
      <3> QED  BY <3>1, <3>2, <3>3, Zenon DEF Added
    <2>6. \/ Len(r.index) = Len(y.index)
          \/ Len(r.index) = Len(y.index) + 1 /\ a = Len(r.index) /\ Gaps(y) = {}
      BY <2>3 DEF Entered
    <2> QED  BY <2>2, <2>3, <2>5, <2>6
  <1> QED  BY <1>2, <1>3

\* A cache of finitely many values has no more entries than values.
LEMMA CacheFits ==
    ASSUME NEW V, IsFiniteSet(V), NEW y, GoodCache(y, V), Null \notin V, Len(y.index) <= Cardinality(V),
           NEW v \in V
    PROVE  /\ Len(Cache(y, v).index) <= Cardinality(V)
           /\ CachedAt(y, v) \in 1 .. Cardinality(V)
  <1> DEFINE r == Cache(y, v)
             a == CachedAt(y, v)
             n == Len(r.index)
  <1>1. /\ GoodCache(r, V) /\ Added(y, r, a, v)
        /\ Len(r.index) = Len(y.index)
           \/ (Len(r.index) = Len(y.index) + 1 /\ a = Len(r.index) /\ Gaps(y) = {})
    BY CacheIs
  <1>2. /\ n \in Nat /\ DOMAIN r.index = 1 .. n
        /\ a \in 1 .. n /\ Cardinality(V) \in Nat
    BY <1>1, CacheTypes, FS_CardinalityType DEF GoodCache, Added
  <1>3. CASE Len(r.index) = Len(y.index)
    BY <1>2, <1>3
  <1>4. CASE Len(r.index) = Len(y.index) + 1 /\ a = n /\ Gaps(y) = {}
    <2>1. Len(y.index) \in Nat /\ DOMAIN y.index = 1 .. Len(y.index)
      BY CacheTypes DEF GoodCache
    <2>2. ASSUME NEW m \in 1 .. n  PROVE Holds(r, m)
      <3>1. m \in 1 .. Len(y.index) => Holds(y, m)
        BY <1>4, <2>1 DEF Gaps, Holds
      <3>2. m \notin 1 .. Len(y.index) => m = n
        BY <1>4, <2>1
      <3> QED  BY <1>1, <1>4, <3>1, <3>2 DEF Added
    <2> DEFINE f == [m \in 1 .. n |-> Get(r, m)]
    <2>3. f \in [1 .. n -> V] /\ \A i, j \in 1 .. n : f[i] = f[j] => i = j
      <3>1. \A m \in 1 .. n : Get(r, m) \in V /\ \A i : Holds(r, i) /\ Get(r, i) = Get(r, m) => i = m
        BY <1>1, <2>2, CountIs
      <3> QED  BY <2>2, <3>1
    <2>4. IsFiniteSet(1 .. n) /\ Cardinality(1 .. n) = n
      <3>1. /\ IsFiniteSet(1 .. n)
            /\ Cardinality(1 .. n) = IF 1 > n THEN 0 ELSE n - 1 + 1
        <4>1. 1 \in Int /\ n \in Int
          BY <1>2
        <4> HIDE DEF n
        <4> QED  BY <4>1, FS_Interval
      <3> QED  BY <1>2, <3>1
    <2>5. f \in Injection(1 .. n, V)
      BY <2>3 DEF Injection, IsInjective
    <2>6. Cardinality(1 .. n) <= Cardinality(V)
      BY <2>5, FS_Injection
    <2> QED  BY <1>2, <2>4, <2>6
  <1> QED  BY <1>1, <1>3, <1>4

\* What release of n does.
Released(y, r, n) ==
    /\ \A m : Holds(r, m) => Holds(y, m) /\ Get(r, m) = Get(y, m)
    /\ \A m : Count(r, m) = IF m = n /\ Holds(y, n) THEN Count(y, m) - 1 ELSE Count(y, m)

LEMMA ReleaseIs ==
    ASSUME NEW V, NEW y, GoodCache(y, V), Null \notin V, NEW n, NEW r, r = Release(y, n)
    PROVE  GoodCache(r, V) /\ Released(y, r, n) /\ Len(r.index) = Len(y.index)
  <1> DEFINE R == [item : V \cup {Null}, refcount : Nat]
  <1>1. CASE ~ Holds(y, n)
    BY <1>1 DEF Release, Released
  <1>2. ASSUME Holds(y, n), y.index[n].refcount > 1
        PROVE  GoodCache(r, V) /\ Released(y, r, n) /\ Len(r.index) = Len(y.index)
    <2>1. PICK k : k = y.index[n].refcount - 1
      OBVIOUS
    <2>2. Count(y, n) = y.index[n].refcount /\ Count(y, n) \in Nat
      BY <1>2, CountIs DEF Count
    <2>3. r = [y EXCEPT !.index[n].refcount = k]
      BY <1>2, <2>1 DEF Release
    <2>4. k \in Nat /\ k >= 1
      BY <1>2, <2>1, <2>2
    <2>5. /\ GoodCache(r, V) /\ Len(r.index) = Len(y.index)
          /\ \A m : (Holds(r, m) <=> Holds(y, m)) /\ Get(r, m) = Get(y, m)
          /\ \A m : Count(r, m) = IF m = n THEN k ELSE Count(y, m)
      BY <1>2, <2>3, <2>4, WithCount
    <2>6. \A m : Holds(r, m) => Holds(y, m) /\ Get(r, m) = Get(y, m)
      BY <2>5
    <2>7. \A m : Count(r, m) = IF m = n /\ Holds(y, n) THEN Count(y, m) - 1 ELSE Count(y, m)
      BY <1>2, <2>1, <2>2, <2>5
    <2> QED  BY <2>5, <2>6, <2>7, Zenon DEF Released
  <1>3. ASSUME Holds(y, n), ~ (y.index[n].refcount > 1)
        PROVE  GoodCache(r, V) /\ Released(y, r, n) /\ Len(r.index) = Len(y.index)
    <2>1. r = [index |-> [y.index EXCEPT ![n] = IndexRec(Null, y.free)], free |-> n]
      BY <1>3 DEF Release
    <2>2. /\ y \in Caches(V) /\ DOMAIN y.index = 1 .. Len(y.index) /\ Len(y.index) \in Nat
          /\ y.index \in Seq(R) /\ y.free \in Nat
          /\ \A i \in 1 .. Len(y.index) :
               y.index[i] \in R /\ y.index[i].refcount \in Nat /\ y.index[i].item \in V \cup {Null}
      <3>1. y \in Caches(V)
        BY DEF GoodCache
      <3> QED  BY <3>1, CacheTypes
    <2>3. n \in 1 .. Len(y.index) /\ n \notin Gaps(y) /\ Count(y, n) = 1
      <3>1. n \in 1 .. Len(y.index) /\ n \notin Gaps(y)
        BY <1>3, <2>2 DEF Holds, Gaps
      <3>2. y.index[n].refcount >= 1 /\ Count(y, n) = y.index[n].refcount
        BY <1>3, <2>2, <3>1 DEF GoodCache, Count
      <3> QED  BY <1>3, <2>2, <3>1, <3>2
    <2>4. /\ r.index \in Seq(R) /\ Len(r.index) = Len(y.index) /\ DOMAIN r.index = 1 .. Len(y.index)
          /\ r.index[n].item = Null /\ r.index[n].refcount = y.free
          /\ \A i \in 1 .. Len(y.index) : i # n => r.index[i] = y.index[i]
          /\ r.free = n
      <3>1. PICK z : z = IndexRec(Null, y.free)
        OBVIOUS
      <3>2. z \in R /\ z.item = Null /\ z.refcount = y.free
        BY <2>2, <3>1 DEF IndexRec
      <3>3. r.index = [y.index EXCEPT ![n] = z] /\ r.free = n
        BY <2>1, <3>1
      <3> HIDE DEF R
      <3> QED  BY <2>2, <2>3, <3>2, <3>3
    <2>5. r \in Caches(V)
      <3>1. r = [index |-> r.index, free |-> r.free]
        BY <2>1
      <3> QED  BY <2>3, <2>4, <3>1 DEF Caches
    <2>6. Gaps(r) = Gaps(y) \cup {n}
      BY <2>2, <2>3, <2>4 DEF Gaps
    <2>7. \E q : Linked(q, r.free, Nexts(r)) /\ Range(q) = Gaps(r)
      <3>1. PICK q : Linked(q, y.free, Nexts(y)) /\ Range(q) = Gaps(y)
        BY DEF GoodCache
      <3>2. n \notin Range(q) /\ Range(q) \cup {n} \subseteq DOMAIN Nexts(r)
        BY <2>2, <2>3, <2>4, <3>1 DEF Gaps, Nexts
      <3>3. Nexts(r)[n] = y.free /\ \A x \in Range(q) : Nexts(r)[x] = Nexts(y)[x]
        BY <2>2, <2>3, <2>4, <3>1 DEF Gaps, Nexts
      <3>4. Linked(<<n>> \o q, n, Nexts(r)) /\ Range(<<n>> \o q) = Range(q) \cup {n}
        BY <3>1, <3>2, <3>3, LinkedCons
      <3> QED  BY <2>4, <2>6, <3>1, <3>4
    <2>8. \A i \in DOMAIN r.index \ Gaps(r) :
            /\ r.index[i].refcount >= 1
            /\ \A m \in DOMAIN r.index : r.index[m].item = r.index[i].item => m = i
      <3> SUFFICES ASSUME NEW i \in DOMAIN r.index \ Gaps(r)
                   PROVE  /\ r.index[i].refcount >= 1
                          /\ \A m \in DOMAIN r.index : r.index[m].item = r.index[i].item => m = i
        OBVIOUS
      <3>1. i \in DOMAIN y.index \ Gaps(y) /\ r.index[i] = y.index[i] /\ y.index[i].item # Null
        BY <2>2, <2>4, <2>6 DEF Gaps
      <3>2. /\ y.index[i].refcount >= 1
            /\ \A m \in DOMAIN y.index : y.index[m].item = y.index[i].item => m = i
        BY <3>1 DEF GoodCache
      <3> QED  BY <2>2, <2>4, <3>1, <3>2
    <2>9. GoodCache(r, V)
      BY <2>5, <2>7, <2>8 DEF GoodCache
    <2>10. \A m : Holds(r, m) <=> (Holds(y, m) /\ m # n)
      BY <2>2, <2>4 DEF Holds
    <2>11. \A m : Holds(r, m) => Holds(y, m) /\ Get(r, m) = Get(y, m)
      BY <2>2, <2>4, <2>10 DEF Holds, Get
    <2>12. \A m : m # n => Count(r, m) = Count(y, m)
      BY <2>2, <2>4, <2>10 DEF Holds, Count
    <2>13. Count(r, n) = 0
      BY <2>10 DEF Count
    <2>14. \A m : Count(r, m) = IF m = n /\ Holds(y, n) THEN Count(y, m) - 1 ELSE Count(y, m)
      BY <1>3, <2>3, <2>12, <2>13
    <2> QED  BY <2>4, <2>9, <2>11, <2>14, Zenon DEF Released
  <1> QED  BY <1>1, <1>2, <1>3

\* What becomes of a cache when a holder of h becomes one of a, the entry of v.
Moved(y, r, h, a, v) ==
    /\ a \in 1 .. Len(r.index) /\ Holds(r, a) /\ Get(r, a) = v
    /\ \A m : Holds(r, m) /\ m # a => Holds(y, m) /\ Get(r, m) = Get(y, m)
    /\ Holds(y, a) => Get(y, a) = v
    /\ \A m : Count(r, m) = Count(y, m) + (IF m = a THEN 1 ELSE 0)
                                        - (IF m = h /\ Holds(y, h) THEN 1 ELSE 0)

LEMMA CacheForIs ==
    ASSUME NEW V, NEW y, GoodCache(y, V), Null \notin V, NEW v \in V, NEW h,
           NEW r, r = CacheFor(y, h, v), NEW a, a = CachedAt(y, v)
    PROVE  /\ GoodCache(r, V) /\ Moved(y, r, h, a, v)
           /\ Len(r.index) = Len(Cache(y, v).index)
  <1>1. PICK z : z = Cache(y, v)
    OBVIOUS
  <1>2. GoodCache(z, V) /\ Added(y, z, a, v)
    BY <1>1, CacheIs
  <1>3. /\ a \in 1 .. Len(z.index)
        /\ \A m : Holds(z, m) <=> (m = a \/ Holds(y, m))
        /\ Get(z, a) = v /\ \A m : Holds(y, m) => Get(z, m) = Get(y, m)
        /\ \A m : Count(z, m) = IF m = a THEN Count(y, m) + 1 ELSE Count(y, m)
    BY <1>2 DEF Added
  <1>4. \A m : /\ Count(y, m) \in Nat /\ (Holds(y, m) <=> Count(y, m) # 0)
               /\ Count(z, m) \in Nat /\ (Holds(z, m) <=> Count(z, m) # 0)
    BY <1>2, CountIs
  <1>5. v # Null /\ (Holds(y, a) => Get(y, a) = v)
    BY <1>3
  <1>6. CASE h # a \/ z.index[h].refcount > 1
    <2>1. r = Release(z, h)
      BY <1>1, <1>6, Zenon DEF CacheFor
    <2>2. GoodCache(r, V) /\ Released(z, r, h) /\ Len(r.index) = Len(z.index)
      BY <1>2, <2>1, ReleaseIs
    <2>3. /\ \A m : Holds(r, m) => Holds(z, m) /\ Get(r, m) = Get(z, m)
          /\ \A m : Count(r, m) = IF m = h /\ Holds(z, h) THEN Count(z, m) - 1 ELSE Count(z, m)
      BY <2>2 DEF Released
    <2>4. \A m : Holds(r, m) <=> Count(r, m) # 0
      BY <2>2, CountIs
    <2>5. h = a => Holds(y, h)
      <3> SUFFICES ASSUME h = a, ~ Holds(y, h)  PROVE FALSE
        OBVIOUS
      <3>1. Count(z, h) = 1 /\ Holds(z, h)
        BY <1>3, <1>4
      <3>2. z.index[h].refcount = 1
        BY <3>1 DEF Count
      <3> QED  BY <1>6, <3>2
    <2>6. \A m : Count(r, m) = Count(y, m) + (IF m = a THEN 1 ELSE 0)
                                           - (IF m = h /\ Holds(y, h) THEN 1 ELSE 0)
      <3> SUFFICES ASSUME NEW m
                   PROVE  Count(r, m) = Count(y, m) + (IF m = a THEN 1 ELSE 0)
                                           - (IF m = h /\ Holds(y, h) THEN 1 ELSE 0)
        OBVIOUS
      <3>1. Holds(z, h) <=> Holds(y, h)
        BY <1>3, <2>5
      <3>2. Count(y, m) \in Nat
        BY <1>4
      <3>3. Count(z, m) = IF m = a THEN Count(y, m) + 1 ELSE Count(y, m)
        BY <1>3
      <3>4. Count(r, m) = IF m = h /\ Holds(y, h) THEN Count(z, m) - 1 ELSE Count(z, m)
        BY <2>3, <3>1
      <3> QED  BY <3>2, <3>3, <3>4
    <2>7. Holds(r, a) /\ Get(r, a) = v
      <3>1. Count(r, a) # 0
        <4>1. Count(r, a) = Count(y, a) + 1 - (IF a = h /\ Holds(y, h) THEN 1 ELSE 0)
              /\ Count(y, a) \in Nat /\ (Holds(y, a) <=> Count(y, a) # 0)
          BY <1>4, <2>6
        <4> QED  BY <4>1
      <3> QED  BY <1>3, <2>3, <2>4, <3>1
    <2>8. \A m : Holds(r, m) /\ m # a => Holds(y, m) /\ Get(r, m) = Get(y, m)
      BY <1>3, <2>3
    <2>9. Moved(y, r, h, a, v)
      BY <1>3, <1>5, <2>2, <2>6, <2>7, <2>8, Zenon DEF Moved
    <2> QED  BY <1>1, <2>2, <2>9
  <1>7. CASE ~ (h # a \/ z.index[h].refcount > 1)
    <2>1. r = z /\ h = a
      BY <1>1, <1>7, Zenon DEF CacheFor
    <2>2. ~ Holds(y, a)
      <3> SUFFICES ASSUME Holds(y, a)  PROVE FALSE
        OBVIOUS
      <3>1. Count(z, a) = Count(y, a) + 1 /\ Count(y, a) \in Nat /\ Count(y, a) # 0 /\ Holds(z, a)
        BY <1>3, <1>4
      <3>2. z.index[a].refcount > 1
        BY <3>1 DEF Count
      <3> QED  BY <1>7, <2>1, <3>2
    <2>3. \A m : Count(r, m) = Count(y, m) + (IF m = a THEN 1 ELSE 0)
                                           - (IF m = h /\ Holds(y, h) THEN 1 ELSE 0)
      BY <1>3, <1>4, <2>1, <2>2
    <2>4. \A m : Holds(r, m) /\ m # a => Holds(y, m) /\ Get(r, m) = Get(y, m)
      BY <1>3, <2>1
    <2>5. Holds(r, a) /\ Get(r, a) = v
      BY <1>3, <2>1
    <2>6. Moved(y, r, h, a, v)
      BY <1>3, <1>5, <2>1, <2>3, <2>4, <2>5, Zenon DEF Moved
    <2> QED  BY <1>1, <1>2, <2>1, <2>6
  <1> QED  BY <1>6, <1>7

\* One value of setIndex.
AddValue(y, v) ==
    IF v = Null
    THEN [index |-> Append(y.index, IndexRec(Null, y.free)), free |-> Len(y.index) + 1]
    ELSE [y EXCEPT !.index = Append(@, IndexRec(v, 1))]

LEMMA AddValueIs ==
    ASSUME NEW V, NEW y \in Caches(V), NEW v \in V \cup {Null}, NEW r, r = AddValue(y, v)
    PROVE  LET n == Len(y.index) + 1 IN
           /\ r \in Caches(V) /\ Len(r.index) = n /\ n \in Nat
           /\ \A i \in 1 .. Len(y.index) : r.index[i] = y.index[i]
           /\ r.index[n] = IndexRec(v, IF v = Null THEN y.free ELSE 1)
           /\ r.free = IF v = Null THEN n ELSE y.free
  <1> DEFINE R == [item : V \cup {Null}, refcount : Nat]
             n == Len(y.index) + 1
             z == IndexRec(v, IF v = Null THEN y.free ELSE 1)
             f == IF v = Null THEN n ELSE y.free
  <1>1. y.index \in Seq(R) /\ y.free \in Nat /\ Len(y.index) \in Nat /\ n \in Nat
        /\ y = [index |-> y.index, free |-> y.free]
    <2>1. y.index \in Seq(R) /\ y.free \in Nat /\ Len(y.index) \in Nat
      BY CacheTypes
    <2>2. y = [index |-> y.index, free |-> y.free]
      BY CacheTypes
    <2> QED  BY <2>1, <2>2
  <1>2. r = [index |-> Append(y.index, z), free |-> f]
    <2>1. CASE v = Null
      BY <2>1 DEF AddValue
    <2>2. CASE v # Null
      <3>1. r = [y EXCEPT !.index = Append(@, IndexRec(v, 1))]
        BY <2>2 DEF AddValue
      <3> QED  BY <1>1, <2>2, <3>1
    <2> QED  BY <2>1, <2>2
  <1>3. z \in R /\ f \in Nat
    BY <1>1 DEF IndexRec
  <1> HIDE DEF R, z, f
  <1>4. /\ Append(y.index, z) \in Seq(R) /\ Len(Append(y.index, z)) = n
        /\ \A i \in 1 .. Len(y.index) : Append(y.index, z)[i] = y.index[i]
        /\ Append(y.index, z)[n] = z
    BY <1>1, <1>3
  <1>5. PICK I : I = Append(y.index, z)
    OBVIOUS
  <1>6. r.index = I /\ r.free = f /\ r \in [index : Seq(R), free : Nat]
    BY <1>2, <1>3, <1>4, <1>5
  <1>7. r \in Caches(V)
    BY <1>6, Zenon DEF Caches, R
  <1> QED  BY <1>1, <1>4, <1>5, <1>6, <1>7 DEF z, f

LEMMA SetIndexRounds ==
    ASSUME NEW V, NEW values \in Seq(V \cup {Null})
    PROVE  \E r : /\ r[0] = EmptyCache
                  /\ \A k \in 1 .. Len(values) : r[k] = AddValue(r[k - 1], values[k])
                  /\ SetIndex(values) = r[Len(values)]
  <1> DEFINE n == Len(values)
             base == EmptyCache
             list == values
             Step(x, f) == AddValue(x, f)
             it == CHOOSE f : f = [s \in SUBSET (1 .. n) |->
                                      IF s = {} THEN base
                                      ELSE Step(f[s \ {Max(s)}], list[Max(s)])]
             G == [k \in 1 .. n |-> [x \in Caches(V) |-> Step(x, list[k])]]
  <1>1. n \in Nat /\ DOMAIN list = 1 .. n /\ \A k \in 1 .. n : list[k] \in V \cup {Null}
    BY SeqElements
  <1>2. base \in Caches(V)
    BY EmptyIsGood DEF GoodCache
  <1>3. G \in [1 .. n -> [Caches(V) -> Caches(V)]]
    <2>1. ASSUME NEW k \in 1 .. n, NEW x \in Caches(V)  PROVE AddValue(x, list[k]) \in Caches(V)
      <3>1. list[k] \in V \cup {Null}
        BY <1>1
      <3> QED  BY <3>1, AddValueIs
    <2> HIDE DEF n, list
    <2> QED  BY <2>1
  <1>4. SetIndex(values) = it[1 .. n]
    <2>1. DOMAIN list = 1 .. n
      BY <1>1
    <2> QED  BY <2>1, Zenon DEF SetIndex, AddValue, FoldLeft, MapThenFoldSet
  <1>5. \E f : f = [s \in SUBSET (1 .. n) |->
                       IF s = {} THEN base ELSE Step(f[s \ {Max(s)}], list[Max(s)])]
    <2>0. n \in Nat
      BY <1>1
    <2> HIDE DEF base, G, n, Step, list
    <2>1. PICK f : FoldsOver(f, Caches(V), base, n, G)
      BY <2>0, <1>2, <1>3, FoldExists, Zenon
    <2>2. ASSUME NEW s \in SUBSET (1 .. n), s # {}
          PROVE  G[Max(s)][f[s \ {Max(s)}]] = Step(f[s \ {Max(s)}], list[Max(s)])
      <3>1. Max(s) \in 1 .. n
        BY <2>0, <2>2, LargestIn
      <3>2. f[s \ {Max(s)}] \in Caches(V)
        BY <2>1, <3>1 DEF FoldsOver
      <3> QED  BY <3>1, <3>2 DEF G
    <2>3. [s \in SUBSET (1 .. n) |->
              IF s = {} THEN base ELSE G[Max(s)][f[s \ {Max(s)}]]]
          = [s \in SUBSET (1 .. n) |->
                IF s = {} THEN base ELSE Step(f[s \ {Max(s)}], list[Max(s)])]
      BY <2>2, Zenon
    <2>4. f = [s \in SUBSET (1 .. n) |->
                IF s = {} THEN base ELSE Step(f[s \ {Max(s)}], list[Max(s)])]
      BY <2>1, <2>3, Zenon DEF FoldsOver
    <2> QED  BY <2>4, Zenon
  <1>6. it = [s \in SUBSET (1 .. n) |->
                 IF s = {} THEN base ELSE Step(it[s \ {Max(s)}], list[Max(s)])]
    <2> HIDE DEF base, n, Step, list
    <2> QED  BY <1>5, Zenon
  <1> DEFINE r == [k \in 0 .. n |-> it[1 .. k]]
  <1> HIDE DEF it, base, Step, n, list
  <1>7. r[0] = base
    BY <1>1, <1>6
  <1>8. ASSUME NEW k \in 1 .. n  PROVE r[k] = Step(r[k - 1], list[k])
    <2>1. k \in 0 .. n /\ k - 1 \in 0 .. n
      BY <1>1
    <2>2. /\ 1 .. k \in SUBSET (1 .. n) /\ 1 .. k # {} /\ Max(1 .. k) = k
          /\ (1 .. k) \ {k} = 1 .. k - 1
      BY <1>1, FoldPlaces
    <2>3. it[1 .. k] = IF 1 .. k = {} THEN base
                       ELSE Step(it[(1 .. k) \ {Max(1 .. k)}], list[Max(1 .. k)])
      BY <1>6, <2>2, Zenon
    <2>4. it[1 .. k] = Step(it[1 .. k - 1], list[k])
      BY <2>2, <2>3, Zenon
    <2> QED  BY <2>1, <2>4, Zenon
  <1>9. r[n] = it[1 .. n]
    BY <1>1
  <1>10. \E r1 : /\ r1[0] = base /\ \A k \in 1 .. n : r1[k] = Step(r1[k - 1], list[k])
                 /\ SetIndex(values) = r1[n]
    <2> HIDE DEF r
    <2> QED  BY <1>4, <1>7, <1>8, <1>9, Zenon
  <1> QED  BY <1>10, Zenon DEF base, Step, n, list

LEMMA SetIndexIs ==
    ASSUME NEW V, Null \notin V, NEW values \in Seq(V \cup {Null}),
           \A i, j \in 1 .. Len(values) : values[i] # Null /\ values[i] = values[j] => i = j,
           NEW y, y = SetIndex(values)
    PROVE  /\ GoodCache(y, V) /\ Len(y.index) = Len(values) /\ GetIndex(y) = values
           /\ \A i \in 1 .. Len(values) : y.index[i].item = values[i]
  <1> DEFINE n == Len(values)
             Entry(x, i) == /\ x.index[i].item = values[i]
                            /\ values[i] # Null => x.index[i].refcount = 1
             FreeOK(x) == \E q : Linked(q, x.free, Nexts(x)) /\ Range(q) = Gaps(x)
             P == [k \in 0 .. n |-> {x \in Caches(V) : /\ Len(x.index) = k /\ FreeOK(x)
                                                       /\ \A i \in 1 .. k : Entry(x, i)}]
  <1>1. n \in Nat /\ \A k \in 1 .. n : values[k] \in V \cup {Null}
    OBVIOUS
  <1>2. PICK r : /\ r[0] = EmptyCache
                 /\ \A k \in 1 .. n : r[k] = AddValue(r[k - 1], values[k])
                 /\ y = r[n]
    <2>1. \E r : /\ r[0] = EmptyCache
                 /\ \A k \in 1 .. Len(values) : r[k] = AddValue(r[k - 1], values[k])
                 /\ SetIndex(values) = r[Len(values)]
      BY SetIndexRounds
    <2> QED  BY <2>1
  <1> HIDE DEF n
  <1>3. r[0] \in P[0]
    <2>1. EmptyCache \in Caches(V) /\ Len(EmptyCache.index) = 0 /\ FreeOK(EmptyCache)
      BY EmptyIsGood DEF GoodCache
    <2>2. 0 \in 0 .. n
      BY <1>1
    <2>3. \A i \in 1 .. 0 : Entry(EmptyCache, i)
      OBVIOUS
    <2> HIDE DEF FreeOK, Entry
    <2> QED  BY <1>2, <2>1, <2>2, <2>3
  <1>4. ASSUME NEW k \in 1 .. n, r[k - 1] \in P[k - 1]  PROVE r[k] \in P[k]
    <2> DEFINE x == r[k - 1]
               z == r[k]
               v == values[k]
               R == [item : V \cup {Null}, refcount : Nat]
    <2>0. k \in 0 .. n /\ k - 1 \in 0 .. n /\ k \in Nat
      BY <1>1
    <2>1. x \in Caches(V) /\ Len(x.index) = k - 1 /\ FreeOK(x) /\ \A i \in 1 .. k - 1 : Entry(x, i)
      <3> HIDE DEF FreeOK, Entry
      <3> QED  BY <1>4, <2>0
    <2>2. v \in V \cup {Null} /\ z = AddValue(x, v)
      BY <1>1, <1>2
    <2> HIDE DEF x, z, v, P
    <2>3. /\ z \in Caches(V) /\ Len(z.index) = k /\ Len(x.index) + 1 = k
          /\ \A i \in 1 .. k - 1 : z.index[i] = x.index[i]
          /\ z.index[k] = IndexRec(v, IF v = Null THEN x.free ELSE 1)
          /\ z.free = IF v = Null THEN k ELSE x.free
      <3>1. LET m == Len(x.index) + 1 IN
            /\ z \in Caches(V) /\ Len(z.index) = m /\ m \in Nat
            /\ \A i \in 1 .. Len(x.index) : z.index[i] = x.index[i]
            /\ z.index[m] = IndexRec(v, IF v = Null THEN x.free ELSE 1)
            /\ z.free = IF v = Null THEN m ELSE x.free
        BY <2>1, <2>2, AddValueIs
      <3>2. Len(x.index) + 1 = k
        BY <2>0, <2>1
      <3> QED  BY <2>1, <3>1, <3>2
    <2>4. z.index[k].item = v /\ z.index[k].refcount = IF v = Null THEN x.free ELSE 1
      BY <2>3 DEF IndexRec
    <2>5. \A i \in 1 .. k : Entry(z, i)
      <3>1. \A i \in 1 .. k : i = k \/ i \in 1 .. k - 1
        BY <2>0
      <3>2. Entry(z, k)
        BY <2>4 DEF v
      <3>3. \A i \in 1 .. k - 1 : Entry(z, i)
        BY <2>1, <2>3
      <3> QED  BY <3>1, <3>2, <3>3
    <2>6. /\ DOMAIN x.index = 1 .. k - 1 /\ DOMAIN z.index = 1 .. k
          /\ DOMAIN Nexts(z) = 1 .. k /\ DOMAIN Nexts(x) = 1 .. k - 1
          /\ \A i \in 1 .. k - 1 : Nexts(z)[i] = Nexts(x)[i]
          /\ Nexts(z)[k] = z.index[k].refcount
      <3>1. DOMAIN x.index = 1 .. Len(x.index) /\ DOMAIN z.index = 1 .. Len(z.index)
        BY <2>1, <2>3, CacheTypes
      <3>2. k \in 1 .. k /\ \A i \in 1 .. k - 1 : i \in 1 .. k
        BY <2>0
      <3> QED  BY <2>1, <2>3, <3>1, <3>2 DEF Nexts
    <2>7. PICK q : Linked(q, x.free, Nexts(x)) /\ Range(q) = Gaps(x)
      BY <2>1
    <2>8. Range(q) \subseteq 1 .. k - 1
      BY <2>6, <2>7 DEF Gaps
    <2>9. FreeOK(z)
      <3>1. CASE v = Null
        <4>1. k \notin Range(q) /\ Range(q) \cup {k} \subseteq DOMAIN Nexts(z)
          BY <2>0, <2>6, <2>8
        <4>2. Nexts(z)[k] = x.free /\ \A i \in Range(q) : Nexts(z)[i] = Nexts(x)[i]
          BY <2>4, <2>6, <2>8, <3>1
        <4>3. Linked(<<k>> \o q, k, Nexts(z)) /\ Range(<<k>> \o q) = Range(q) \cup {k}
          BY <2>7, <4>1, <4>2, LinkedCons
        <4>4. Gaps(z) = Gaps(x) \cup {k}
          BY <2>0, <2>3, <2>4, <2>6, <3>1 DEF Gaps
        <4> QED  BY <2>3, <2>7, <3>1, <4>3, <4>4
      <3>2. CASE v # Null
        <4>1. Range(q) \subseteq DOMAIN Nexts(z) /\ \A i \in Range(q) : Nexts(z)[i] = Nexts(x)[i]
          BY <2>0, <2>6, <2>8
        <4>2. Linked(q, x.free, Nexts(z))
          BY <2>7, <4>1, LinkedSame
        <4>3. Gaps(z) = Gaps(x)
          BY <2>0, <2>3, <2>4, <2>6, <3>2 DEF Gaps
        <4> QED  BY <2>3, <2>7, <3>2, <4>2, <4>3
      <3> QED  BY <3>1, <3>2
    <2>10. z \in P[k]
      <3> HIDE DEF FreeOK, Entry
      <3> QED  BY <2>0, <2>3, <2>5, <2>9 DEF P
    <2> QED  BY <2>10 DEF z
  <1>5. r[n] \in P[n]
    <2> HIDE DEF P
    <2>1. \A k \in 0 .. n : r[k] \in P[k]
      BY <1>1, <1>3, <1>4, FoldKeeps
    <2> QED  BY <1>1, <2>1
  <1>6. y \in Caches(V) /\ Len(y.index) = n /\ FreeOK(y) /\ \A i \in 1 .. n : Entry(y, i)
    <2>1. n \in 0 .. n
      BY <1>1
    <2> HIDE DEF FreeOK, Entry
    <2> QED  BY <1>2, <1>5, <2>1
  <1>7. DOMAIN y.index = 1 .. n
    BY <1>6, CacheTypes
  <1>8. \A i \in DOMAIN y.index \ Gaps(y) :
            /\ y.index[i].refcount >= 1
            /\ \A m \in DOMAIN y.index : y.index[m].item = y.index[i].item => m = i
    BY <1>6, <1>7 DEF Gaps, n
  <1>9. GoodCache(y, V)
    BY <1>6, <1>8 DEF GoodCache
  <1>10. GetIndex(y) = values
    <2>1. GetIndex(y) = [i \in 1 .. n |-> y.index[i].item]
      BY <1>7, Zenon DEF GetIndex
    <2>2. \A i \in 1 .. n : y.index[i].item = values[i]
      BY <1>6
    <2>3. values = [i \in 1 .. n |-> values[i]]
      BY DEF n
    <2> QED  BY <2>1, <2>2, <2>3
  <1> QED  BY <1>6, <1>9, <1>10 DEF n

-----------------------------------------------------------------------------
(* Who holds what: h gives each element the index that it has.             *)
Holdings == [1 .. MaxElems -> Nat]
Holders(h, n) == {e \in 1 .. MaxElems : h[e] = n}

\* Every index has as many references as elements have it.
Backed(h, y) == \A n \in Nat \ {0} : Cardinality(Holders(h, n)) <= Count(y, n)

LEMMA HoldersAreFinite ==
    ASSUME NEW h, NEW n
    PROVE  IsFiniteSet(Holders(h, n)) /\ Cardinality(Holders(h, n)) \in Nat
  <1>1. MaxElems \in Nat
    BY NodeTableAssumption
  <1>2. IsFiniteSet(1 .. MaxElems)
    BY <1>1, FS_Interval
  <1>3. Holders(h, n) \in SUBSET (1 .. MaxElems)
    BY DEF Holders
  <1>4. IsFiniteSet(Holders(h, n))
    BY <1>2, <1>3, FS_Subset
  <1> QED  BY <1>4, FS_CardinalityType

\* g is h with a in the place of h[e].
Moves(h, g, e, a) == g = [h EXCEPT ![e] = a]

LEMMA HolderMoves ==
    ASSUME NEW h \in Holdings, NEW g \in Holdings, NEW e \in 1 .. MaxElems, NEW a \in Nat,
           Moves(h, g, e, a), NEW n \in Nat
    PROVE  Cardinality(Holders(g, n))
           = Cardinality(Holders(h, n)) + (IF n = a THEN 1 ELSE 0) - (IF n = h[e] THEN 1 ELSE 0)
  <1> DEFINE H == Holders(h, n)
             K == Holders(g, n)
  <1>1. IsFiniteSet(H) /\ Cardinality(H) \in Nat
    BY HoldersAreFinite
  <1>2. /\ \A i \in 1 .. MaxElems : g[i] = IF i = e THEN a ELSE h[i]
        /\ h \in [1 .. MaxElems -> Nat]
    BY DEF Moves, Holdings
  <1>3. CASE n = a /\ n = h[e]
    <2>1. K = H
      BY <1>2, <1>3 DEF Holders
    <2> HIDE DEF H, K
    <2> QED  BY <1>1, <1>3, <2>1 DEF H, K
  <1>4. CASE n = a /\ n # h[e]
    <2>1. K = H \cup {e} /\ e \notin H
      BY <1>2, <1>4 DEF Holders
    <2>2. Cardinality(H \cup {e}) = Cardinality(H) + 1
      <3> HIDE DEF H
      <3> QED  BY <1>1, <2>1, FS_AddElement
    <2>3. Cardinality(K) = Cardinality(H) + 1 /\ Cardinality(H) \in Nat
      BY <1>1, <2>1, <2>2
    <2>4. Cardinality(K) = Cardinality(H) + (IF n = a THEN 1 ELSE 0) - (IF n = h[e] THEN 1 ELSE 0)
      <3> HIDE DEF H, K
      <3> QED  BY <1>4, <2>3
    <2> QED  BY <2>4
  <1>5. CASE n # a /\ n = h[e]
    <2>1. K = H \ {e} /\ e \in H
      BY <1>2, <1>5 DEF Holders
    <2>2. Cardinality(H \ {e}) = Cardinality(H) - 1
      <3> HIDE DEF H
      <3> QED  BY <1>1, <2>1, FS_RemoveElement
    <2>3. Cardinality(K) = Cardinality(H) - 1 /\ Cardinality(H) \in Nat
      BY <1>1, <2>1, <2>2
    <2>4. Cardinality(K) = Cardinality(H) + (IF n = a THEN 1 ELSE 0) - (IF n = h[e] THEN 1 ELSE 0)
      <3> HIDE DEF H, K
      <3> QED  BY <1>5, <2>3
    <2> QED  BY <2>4
  <1>6. CASE n # a /\ n # h[e]
    <2>1. K = H
      BY <1>2, <1>6 DEF Holders
    <2> HIDE DEF H, K
    <2> QED  BY <1>1, <1>6, <2>1 DEF H, K
  <1> QED  BY <1>3, <1>4, <1>5, <1>6

LEMMA BackedHolds ==
    ASSUME NEW V, NEW y, GoodCache(y, V), Null \notin V, NEW h \in Holdings, Backed(h, y),
           NEW e \in 1 .. MaxElems, h[e] # 0
    PROVE  Holds(y, h[e])
  <1>1. h[e] \in Nat \ {0}
    BY DEF Holdings
  <1>2. PICK n \in Nat \ {0} : n = h[e]
    BY <1>1
  <1>3. e \in Holders(h, n)
    BY <1>2 DEF Holders
  <1>4. Cardinality(Holders(h, n)) # 0
    BY <1>3, HoldersAreFinite, FS_EmptySet
  <1>5. Cardinality(Holders(h, n)) <= Count(y, n) /\ Count(y, n) \in Nat
        /\ (Holds(y, n) <=> Count(y, n) # 0)
    BY <1>2, CountIs DEF Backed
  <1>6. Cardinality(Holders(h, n)) \in Nat
    BY HoldersAreFinite
  <1> QED  BY <1>2, <1>4, <1>5, <1>6

\* A holder of h[e] becomes one of a, which was given a reference; a reference to what it
\* was may be gone.
LEMMA BackedMoves ==
    ASSUME NEW V, NEW y, GoodCache(y, V), NEW r, GoodCache(r, V), Null \notin V,
           NEW h \in Holdings, Backed(h, y),
           NEW e \in 1 .. MaxElems, NEW a \in Nat, NEW g, g = [h EXCEPT ![e] = a],
           \A n \in Nat \ {0} : Count(r, n) >= Count(y, n) + (IF n = a THEN 1 ELSE 0)
                                                - (IF n = h[e] THEN 1 ELSE 0)
    PROVE  Backed(g, r)
  <1> SUFFICES ASSUME NEW n \in Nat \ {0}
               PROVE  Cardinality(Holders(g, n)) <= Count(r, n)
    BY DEF Backed
  <1>1. Cardinality(Holders(g, n)) = Cardinality(Holders(h, n)) + (IF n = a THEN 1 ELSE 0)
                                            - (IF n = h[e] THEN 1 ELSE 0)
    <2>1. g \in Holdings /\ Moves(h, g, e, a)
      BY DEF Moves, Holdings
    <2> QED  BY <2>1, HolderMoves
  <1>2. /\ Cardinality(Holders(h, n)) \in Nat /\ Cardinality(Holders(h, n)) <= Count(y, n)
        /\ Count(y, n) \in Nat /\ Count(r, n) \in Nat
    BY HoldersAreFinite, CountIs DEF Backed
  <1>3. Count(r, n) >= Count(y, n) + (IF n = a THEN 1 ELSE 0) - (IF n = h[e] THEN 1 ELSE 0)
    OBVIOUS
  <1> QED  BY <1>1, <1>2, <1>3

LEMMA BackedMore ==
    ASSUME NEW V, NEW y, GoodCache(y, V), NEW r, GoodCache(r, V), Null \notin V,
           NEW h \in Holdings, Backed(h, y), \A n \in Nat \ {0} : Count(r, n) >= Count(y, n)
    PROVE  Backed(h, r)
  <1> SUFFICES ASSUME NEW n \in Nat \ {0}
               PROVE  Cardinality(Holders(h, n)) <= Count(r, n)
    BY DEF Backed
  <1>1. /\ Cardinality(Holders(h, n)) \in Nat /\ Cardinality(Holders(h, n)) <= Count(y, n)
        /\ Count(y, n) \in Nat /\ Count(r, n) \in Nat /\ Count(r, n) >= Count(y, n)
    BY HoldersAreFinite, CountIs DEF Backed
  <1> QED  BY <1>1

\* Nobody holds anything.
NoHoldings == [e \in 1 .. MaxElems |-> 0]
LEMMA NothingHeld ==
    ASSUME NEW V, NEW y, GoodCache(y, V), Null \notin V
    PROVE  NoHoldings \in Holdings /\ Backed(NoHoldings, y)
  <1>1. NoHoldings \in Holdings
    BY DEF NoHoldings, Holdings
  <1>2. ASSUME NEW n \in Nat \ {0}  PROVE Cardinality(Holders(NoHoldings, n)) <= Count(y, n)
    <2>1. Holders(NoHoldings, n) = {}
      BY DEF Holders, NoHoldings
    <2>2. Cardinality(Holders(NoHoldings, n)) = 0 /\ Count(y, n) \in Nat
      BY <2>1, FS_EmptySet, CountIs
    <2> QED  BY <2>2
  <1> QED  BY <1>1, <1>2 DEF Backed

-----------------------------------------------------------------------------
(* The collections.                                                        *)
SlotsOf(bound) == [state : {"free", "live"}, next : 0 .. bound, parent : 0 .. MaxElems,
                   style : Nat, font : Nat]
Tables(bound) == {t \in [slots : Seq(SlotsOf(bound)), free : 0 .. bound] : Len(t.slots) <= bound}
Values == (Styles \cup {Null}) \X (Fonts \cup {Null})
Hashes == {NoHash} \cup UNION {[E -> Values] : E \in SUBSET (1 .. MaxElems)}
Records == [elems : Tables(MaxElems), texts : Tables(MaxTexts), styles : Caches(Styles),
            fonts : Caches(Fonts), fontMap : [StyleIndexes -> Nat], hash : Hashes]
Collections == {d \in Records : /\ GoodCache(d.styles, Styles) /\ GoodCache(d.fonts, Fonts)
                                /\ Len(d.styles.index) <= Cardinality(Styles)}

\* The styles and the fonts of the elements.
StyleAt(d) == [e \in 1 .. MaxElems |-> IF e \in DOMAIN d.elems.slots THEN Info(d, e).style ELSE 0]
FontAt(d) == [e \in 1 .. MaxElems |-> IF e \in DOMAIN d.elems.slots THEN Info(d, e).font ELSE 0]

\* Slots that differ in their style and font only.
SameTree(d, r) ==
    /\ r.texts = d.texts /\ r.elems.free = d.elems.free
    /\ Len(r.elems.slots) = Len(d.elems.slots)
    /\ \A e \in 1 .. Len(d.elems.slots) :
           /\ Info(r, e).state = Info(d, e).state /\ Info(r, e).next = Info(d, e).next
           /\ Info(r, e).parent = Info(d, e).parent

LEMMA Assumed ==
    /\ PartLen \in Nat \ {0} /\ MaxElems \in Nat \ {0} /\ MaxTexts \in Nat
    /\ FontOf \in [Styles -> Fonts] /\ IsFiniteSet(Styles)
    /\ Null \notin Styles /\ Null \notin Fonts /\ Cardinality(Styles) \in Nat
    /\ \A s \in Styles : FontOf[s] \in Fonts /\ FontOf[s] # Null /\ s # Null
  BY NodeTableAssumption, FS_CardinalityType

LEMMA TableTypes ==
    ASSUME NEW bound \in Nat, NEW t \in Tables(bound)
    PROVE  /\ t.slots \in Seq(SlotsOf(bound)) /\ Len(t.slots) \in Nat /\ Len(t.slots) <= bound
           /\ DOMAIN t.slots = 1 .. Len(t.slots) /\ t.free \in 0 .. bound
           /\ t = [slots |-> t.slots, free |-> t.free]
           /\ \A e \in 1 .. Len(t.slots) :
                  /\ e \in 1 .. bound /\ t.slots[e] \in SlotsOf(bound)
                  /\ t.slots[e].state \in {"free", "live"} /\ t.slots[e].next \in 0 .. bound
                  /\ t.slots[e].parent \in 0 .. MaxElems
                  /\ t.slots[e].style \in Nat /\ t.slots[e].font \in Nat
  <1>1. /\ t.slots \in Seq(SlotsOf(bound)) /\ Len(t.slots) <= bound /\ t.free \in 0 .. bound
        /\ t = [slots |-> t.slots, free |-> t.free]
    BY DEF Tables
  <1>2. Len(t.slots) \in Nat /\ DOMAIN t.slots = 1 .. Len(t.slots)
        /\ \A e \in 1 .. Len(t.slots) : t.slots[e] \in SlotsOf(bound)
    BY <1>1, SeqElements
  <1>3. ASSUME NEW e \in 1 .. Len(t.slots)
        PROVE  /\ e \in 1 .. bound
               /\ t.slots[e].state \in {"free", "live"} /\ t.slots[e].next \in 0 .. bound
               /\ t.slots[e].parent \in 0 .. MaxElems
               /\ t.slots[e].style \in Nat /\ t.slots[e].font \in Nat
    <2>1. e \in 1 .. bound
      BY <1>1, <1>2
    <2> QED  BY <1>2, <2>1 DEF SlotsOf
  <1> QED  BY <1>1, <1>2, <1>3

LEMMA Typed ==
    ASSUME NEW d \in Collections
    PROVE  /\ d.elems \in Tables(MaxElems) /\ d.texts \in Tables(MaxTexts)
           /\ GoodCache(d.styles, Styles) /\ GoodCache(d.fonts, Fonts)
           /\ Len(d.styles.index) <= Cardinality(Styles)
           /\ d.fontMap \in [StyleIndexes -> Nat] /\ d.hash \in Hashes
           /\ d = [elems |-> d.elems, texts |-> d.texts, styles |-> d.styles, fonts |-> d.fonts,
                   fontMap |-> d.fontMap, hash |-> d.hash]
  BY DEF Collections, Records

LEMMA MakesCollection ==
    ASSUME NEW t \in Tables(MaxElems), NEW x \in Tables(MaxTexts), NEW y, GoodCache(y, Styles),
           Len(y.index) <= Cardinality(Styles), NEW z, GoodCache(z, Fonts),
           NEW mp \in [StyleIndexes -> Nat], NEW hs \in Hashes,
           NEW d, d = [elems |-> t, texts |-> x, styles |-> y, fonts |-> z, fontMap |-> mp, hash |-> hs]
    PROVE  d \in Collections
  <1>1. y \in Caches(Styles) /\ z \in Caches(Fonts)
    BY DEF GoodCache
  <1>2. d \in Records
    BY <1>1 DEF Records
  <1> QED  BY <1>2 DEF Collections

-----------------------------------------------------------------------------
(* One element and its slot.                                               *)

\* An element's slot with another style and font.
Styled(t, e, s, f) ==
    [slots |-> [t.slots EXCEPT ![e] = [state |-> t.slots[e].state, next |-> t.slots[e].next,
                                       parent |-> t.slots[e].parent, style |-> s, font |-> f]],
     free |-> t.free]

\* The slots differ in the style and the font of e only.
Differs(t, r, e, s, f) ==
    /\ r.free = t.free /\ Len(r.slots) = Len(t.slots) /\ DOMAIN r.slots = DOMAIN t.slots
    /\ \A i \in 1 .. Len(t.slots) :
           /\ r.slots[i].state = t.slots[i].state /\ r.slots[i].next = t.slots[i].next
           /\ r.slots[i].parent = t.slots[i].parent
           /\ r.slots[i].style = IF i = e THEN s ELSE t.slots[i].style
           /\ r.slots[i].font = IF i = e THEN f ELSE t.slots[i].font

LEMMA StyledIs ==
    ASSUME NEW bound \in Nat, NEW t \in Tables(bound), NEW e \in 1 .. Len(t.slots),
           NEW s \in Nat, NEW f \in Nat, NEW r, r = Styled(t, e, s, f)
    PROVE  r \in Tables(bound) /\ Differs(t, r, e, s, f)
  <1> DEFINE R == SlotsOf(bound)
             new == [state |-> t.slots[e].state, next |-> t.slots[e].next,
                     parent |-> t.slots[e].parent, style |-> s, font |-> f]
  <1>1. /\ t.slots \in Seq(R) /\ Len(t.slots) \in Nat /\ Len(t.slots) <= bound
        /\ DOMAIN t.slots = 1 .. Len(t.slots) /\ t.free \in 0 .. bound
        /\ t.slots[e].state \in {"free", "live"} /\ t.slots[e].next \in 0 .. bound
        /\ t.slots[e].parent \in 0 .. MaxElems
    BY TableTypes
  <1>2. new \in R
    BY <1>1 DEF SlotsOf
  <1>3. /\ new.state = t.slots[e].state /\ new.next = t.slots[e].next
        /\ new.parent = t.slots[e].parent /\ new.style = s /\ new.font = f
    OBVIOUS
  <1>4. r.slots = [t.slots EXCEPT ![e] = new] /\ r.free = t.free
        /\ r = [slots |-> [t.slots EXCEPT ![e] = new], free |-> t.free]
    BY DEF Styled
  <1> HIDE DEF R, new
  <1>5. /\ r.slots \in Seq(R) /\ Len(r.slots) = Len(t.slots) /\ DOMAIN r.slots = DOMAIN t.slots
        /\ \A i \in 1 .. Len(t.slots) : r.slots[i] = IF i = e THEN new ELSE t.slots[i]
    BY <1>1, <1>2, <1>4
  <1>6. r \in Tables(bound)
    <2>1. r \in [slots : Seq(R), free : 0 .. bound]
      <3>1. PICK S : S = [t.slots EXCEPT ![e] = new]
        OBVIOUS
      <3>2. r = [slots |-> S, free |-> t.free] /\ S \in Seq(R)
        BY <1>4, <1>5, <3>1
      <3> QED  BY <1>1, <3>2
    <2>2. Len(r.slots) <= bound
      BY <1>1, <1>5
    <2> QED  BY <2>1, <2>2, Zenon DEF Tables, R
  <1> QED  BY <1>1, <1>3, <1>4, <1>5, <1>6 DEF Differs

\* A collection by its fields.
Doc(t, x, y, z, mp, hs) ==
    [elems |-> t, texts |-> x, styles |-> y, fonts |-> z, fontMap |-> mp, hash |-> hs]
Consists(d, t, x, y, z, mp, hs) == d = Doc(t, x, y, z, mp, hs)

LEMMA FieldSet ==
    ASSUME NEW t, NEW x, NEW y, NEW z, NEW mp, NEW hs, NEW d, Consists(d, t, x, y, z, mp, hs), NEW v
    PROVE  /\ d.elems = t /\ d.texts = x /\ d.styles = y /\ d.fonts = z /\ d.fontMap = mp /\ d.hash = hs
           /\ Consists([d EXCEPT !.elems = v], v, x, y, z, mp, hs)
           /\ Consists([d EXCEPT !.texts = v], t, v, y, z, mp, hs)
           /\ Consists([d EXCEPT !.styles = v], t, x, v, z, mp, hs)
           /\ Consists([d EXCEPT !.fonts = v], t, x, y, v, mp, hs)
           /\ Consists([d EXCEPT !.fontMap = v], t, x, y, z, v, hs)
           /\ Consists([d EXCEPT !.hash = v], t, x, y, z, mp, v)
  BY DEF Doc, Consists

\* The slot of e in a table, with its style and font.
HasSlot(t, e, s, f) ==
    /\ t = [slots |-> t.slots, free |-> t.free] /\ e \in DOMAIN t.slots
    /\ t.slots[e] = [state |-> t.slots[e].state, next |-> t.slots[e].next,
                     parent |-> t.slots[e].parent, style |-> s, font |-> f]

LEMMA StyledHasSlot ==
    ASSUME NEW t, NEW e, NEW s, NEW f, HasSlot(t, e, s, f), NEW a, NEW b
    PROVE  /\ HasSlot(Styled(t, e, a, b), e, a, b)
           /\ \A u, v : Styled(Styled(t, e, a, b), e, u, v) = Styled(t, e, u, v)
  <1>1. PICK S, F, p : S = t.slots /\ F = t.free /\ p = S[e]
    OBVIOUS
  <1>2. /\ t = [slots |-> S, free |-> F] /\ e \in DOMAIN S
        /\ S[e] = [state |-> p.state, next |-> p.next, parent |-> p.parent, style |-> s, font |-> f]
    BY <1>1 DEF HasSlot
  <1>3. PICK q : q = [state |-> p.state, next |-> p.next, parent |-> p.parent, style |-> a, font |-> b]
    OBVIOUS
  <1>4. PICK S2 : S2 = [S EXCEPT ![e] = q]
    OBVIOUS
  <1>5. Styled(t, e, a, b) = [slots |-> S2, free |-> F]
    BY <1>1, <1>3, <1>4 DEF Styled
  <1>6. S2[e] = q /\ e \in DOMAIN S2
    BY <1>2, <1>4
  <1>7. HasSlot(Styled(t, e, a, b), e, a, b)
    BY <1>3, <1>5, <1>6 DEF HasSlot
  <1>9. ASSUME NEW u, NEW v  PROVE Styled(Styled(t, e, a, b), e, u, v) = Styled(t, e, u, v)
    <2>1. PICK w : w = [state |-> p.state, next |-> p.next, parent |-> p.parent, style |-> u, font |-> v]
      OBVIOUS
    <2>2. q.state = p.state /\ q.next = p.next /\ q.parent = p.parent
      BY <1>3
    <2>3. Styled(t, e, u, v) = [slots |-> [S EXCEPT ![e] = w], free |-> F]
      BY <1>1, <2>1 DEF Styled
    <2>4. Styled(Styled(t, e, a, b), e, u, v) = [slots |-> [S2 EXCEPT ![e] = w], free |-> F]
      BY <1>5, <1>6, <2>1, <2>2 DEF Styled
    <2>5. [S2 EXCEPT ![e] = w] = [S EXCEPT ![e] = w]
      BY <1>4
    <2> QED  BY <2>3, <2>4, <2>5
  <1> QED  BY <1>7, <1>9

LEMMA SlotSet ==
    ASSUME NEW e, NEW sy, NEW fo, NEW t, HasSlot(t, e, sy, fo), NEW x, NEW y, NEW z, NEW mp, NEW hs,
           NEW d, Consists(d, t, x, y, z, mp, hs), NEW n
    PROVE  /\ Consists([d EXCEPT !.elems.slots[e].style = n], Styled(t, e, n, fo), x, y, z, mp, hs)
           /\ Consists([d EXCEPT !.elems.slots[e].font = n], Styled(t, e, sy, n), x, y, z, mp, hs)
  <1>0. PICK S, F, st, nx, pa :
            /\ t = [slots |-> S, free |-> F] /\ e \in DOMAIN S
            /\ S[e] = [state |-> st, next |-> nx, parent |-> pa, style |-> sy, font |-> fo]
    BY Zenon DEF HasSlot
  <1>1. d.elems = t /\ t.slots = S /\ t.free = F
    BY <1>0 DEF Consists, Doc
  <1>2. /\ [S EXCEPT ![e].style = n]
           = [S EXCEPT ![e] = [state |-> st, next |-> nx, parent |-> pa, style |-> n, font |-> fo]]
        /\ [S EXCEPT ![e].font = n]
           = [S EXCEPT ![e] = [state |-> st, next |-> nx, parent |-> pa, style |-> sy, font |-> n]]
    <2>1. /\ [S[e] EXCEPT !.style = n]
             = [state |-> st, next |-> nx, parent |-> pa, style |-> n, font |-> fo]
          /\ [S[e] EXCEPT !.font = n]
             = [state |-> st, next |-> nx, parent |-> pa, style |-> sy, font |-> n]
      BY <1>0
    <2> QED  BY <1>0, <2>1
  <1>3. /\ Styled(t, e, n, fo) = [slots |-> [S EXCEPT ![e].style = n], free |-> F]
        /\ Styled(t, e, sy, n) = [slots |-> [S EXCEPT ![e].font = n], free |-> F]
    <2>1. S[e].state = st /\ S[e].next = nx /\ S[e].parent = pa
      BY <1>0
    <2> QED  BY <1>1, <1>2, <2>1 DEF Styled
  <1>4. PICK S1, S2 : S1 = [S EXCEPT ![e].style = n] /\ S2 = [S EXCEPT ![e].font = n]
    OBVIOUS
  <1>5. /\ [t EXCEPT !.slots[e].style = n] = [t EXCEPT !.slots = S1]
        /\ [t EXCEPT !.slots[e].font = n] = [t EXCEPT !.slots = S2]
    BY <1>1, <1>4
  <1>6. [t EXCEPT !.slots = S1] = [slots |-> S1, free |-> F]
    BY <1>0
  <1>7. [t EXCEPT !.slots = S2] = [slots |-> S2, free |-> F]
    BY <1>0
  <1>8. PICK t1, t2 : t1 = [t EXCEPT !.slots[e].style = n] /\ t2 = [t EXCEPT !.slots[e].font = n]
    OBVIOUS
  <1>9. t1 = Styled(t, e, n, fo) /\ t2 = Styled(t, e, sy, n)
    BY <1>3, <1>4, <1>5, <1>6, <1>7, <1>8
  <1>10. /\ [d EXCEPT !.elems.slots[e].style = n] = [d EXCEPT !.elems = t1]
         /\ [d EXCEPT !.elems.slots[e].font = n] = [d EXCEPT !.elems = t2]
    BY <1>1, <1>8
  <1>11. Consists([d EXCEPT !.elems = t1], t1, x, y, z, mp, hs)
         /\ Consists([d EXCEPT !.elems = t2], t2, x, y, z, mp, hs)
    BY FieldSet
  <1> QED  BY <1>9, <1>10, <1>11

\* A collection, its tables and its slots are the records of their fields.
LEMMA Opened ==
    ASSUME NEW d \in Collections, NEW e \in 1 .. Len(d.elems.slots)
    PROVE  /\ Consists(d, d.elems, d.texts, d.styles, d.fonts, d.fontMap, d.hash)
           /\ HasSlot(d.elems, e, Info(d, e).style, Info(d, e).font)
  <1>1. d.elems \in Tables(MaxElems) /\ MaxElems \in Nat
    BY Typed, Assumed
  <1>2. /\ DOMAIN d.elems.slots = 1 .. Len(d.elems.slots)
        /\ d.elems.slots[e] \in SlotsOf(MaxElems)
        /\ d.elems = [slots |-> d.elems.slots, free |-> d.elems.free]
    BY <1>1, TableTypes
  <1>3. PICK z : z = d.elems.slots[e]
    OBVIOUS
  <1>4. z = [state |-> z.state, next |-> z.next, parent |-> z.parent, style |-> z.style, font |-> z.font]
        /\ z.style = Info(d, e).style /\ z.font = Info(d, e).font
    BY <1>2, <1>3 DEF SlotsOf, Info
  <1>5. d = Doc(d.elems, d.texts, d.styles, d.fonts, d.fontMap, d.hash)
    BY <1>2, Typed DEF Doc
  <1> QED  BY <1>2, <1>3, <1>4, <1>5, Zenon DEF Consists, HasSlot

\* An element is given a style and a font.
Restyled(d, r, e, s, f) ==
    /\ r \in Collections /\ SameTree(d, r)
    /\ StyleAt(r) = [StyleAt(d) EXCEPT ![e] = s] /\ FontAt(r) = [FontAt(d) EXCEPT ![e] = f]

\* What a collection that consists of given parts is.
LEMMA RestyledIs ==
    ASSUME NEW d \in Collections, NEW e \in 1 .. Len(d.elems.slots), NEW s \in Nat, NEW f \in Nat,
           NEW y, GoodCache(y, Styles), Len(y.index) <= Cardinality(Styles),
           NEW z, GoodCache(z, Fonts), NEW mp \in [StyleIndexes -> Nat], NEW hs \in Hashes,
           NEW r, Consists(r, Styled(d.elems, e, s, f), d.texts, y, z, mp, hs)
    PROVE  /\ Restyled(d, r, e, s, f)
           /\ r.styles = y /\ r.fonts = z /\ r.fontMap = mp /\ r.hash = hs
  <1>1. PICK t : t = Styled(d.elems, e, s, f)
    OBVIOUS
  <1>2. d.elems \in Tables(MaxElems) /\ d.texts \in Tables(MaxTexts) /\ MaxElems \in Nat
    BY Typed, Assumed
  <1>3. /\ t \in Tables(MaxElems) /\ t.free = d.elems.free /\ Len(t.slots) = Len(d.elems.slots)
        /\ DOMAIN t.slots = DOMAIN d.elems.slots
        /\ \A i \in 1 .. Len(d.elems.slots) :
                  /\ t.slots[i].state = d.elems.slots[i].state /\ t.slots[i].next = d.elems.slots[i].next
                  /\ t.slots[i].parent = d.elems.slots[i].parent
                  /\ t.slots[i].style = IF i = e THEN s ELSE d.elems.slots[i].style
                  /\ t.slots[i].font = IF i = e THEN f ELSE d.elems.slots[i].font
    <2>1. t \in Tables(MaxElems) /\ Differs(d.elems, t, e, s, f)
      BY <1>1, <1>2, StyledIs
    <2> QED  BY <2>1 DEF Differs
  <1>4. /\ r.elems = t /\ r.texts = d.texts /\ r.styles = y /\ r.fonts = z /\ r.fontMap = mp
        /\ r.hash = hs
        /\ r = [elems |-> t, texts |-> d.texts, styles |-> y, fonts |-> z, fontMap |-> mp, hash |-> hs]
    BY <1>1 DEF Consists, Doc
  <1>5. r \in Collections
    BY <1>2, <1>3, <1>4, MakesCollection
  <1>6. SameTree(d, r)
    BY <1>3, <1>4 DEF SameTree, Info
  <1>7. /\ DOMAIN d.elems.slots = 1 .. Len(d.elems.slots) /\ e \in 1 .. MaxElems
    BY <1>2, TableTypes
  <1>8. StyleAt(r) = [StyleAt(d) EXCEPT ![e] = s]
    <2>1. \A i \in 1 .. MaxElems :
              (IF i \in DOMAIN t.slots THEN t.slots[i].style ELSE 0)
              = IF i = e THEN s ELSE IF i \in DOMAIN d.elems.slots THEN d.elems.slots[i].style ELSE 0
      BY <1>3, <1>7
    <2> QED  BY <1>4, <1>7, <2>1 DEF StyleAt, Info
  <1>9. FontAt(r) = [FontAt(d) EXCEPT ![e] = f]
    <2>1. \A i \in 1 .. MaxElems :
              (IF i \in DOMAIN t.slots THEN t.slots[i].font ELSE 0)
              = IF i = e THEN f ELSE IF i \in DOMAIN d.elems.slots THEN d.elems.slots[i].font ELSE 0
      BY <1>3, <1>7
    <2> QED  BY <1>4, <1>7, <2>1 DEF FontAt, Info
  <1> QED  BY <1>4, <1>5, <1>6, <1>8, <1>9, Zenon DEF Restyled

\* The style and the font of an element, as numbers.
LEMMA InfoIs ==
    ASSUME NEW d \in Collections, NEW e \in 1 .. Len(d.elems.slots)
    PROVE  /\ Info(d, e).style \in Nat /\ Info(d, e).font \in Nat /\ Info(d, e).parent \in 0 .. MaxElems
           /\ StyleAt(d)[e] = Info(d, e).style /\ FontAt(d)[e] = Info(d, e).font
           /\ e \in 1 .. MaxElems /\ StyleAt(d) \in Holdings /\ FontAt(d) \in Holdings
           /\ StyleAt(d) = [StyleAt(d) EXCEPT ![e] = Info(d, e).style]
           /\ FontAt(d) = [FontAt(d) EXCEPT ![e] = Info(d, e).font]
  <1>1. d.elems \in Tables(MaxElems) /\ MaxElems \in Nat
    BY Typed, Assumed
  <1>2. /\ DOMAIN d.elems.slots = 1 .. Len(d.elems.slots)
        /\ \A i \in 1 .. Len(d.elems.slots) :
               /\ i \in 1 .. MaxElems /\ d.elems.slots[i].parent \in 0 .. MaxElems
               /\ d.elems.slots[i].style \in Nat /\ d.elems.slots[i].font \in Nat
    BY <1>1, TableTypes
  <1>3. StyleAt(d) \in Holdings /\ FontAt(d) \in Holdings
    BY <1>2 DEF StyleAt, FontAt, Holdings, Info
  <1>4. StyleAt(d)[e] = Info(d, e).style /\ FontAt(d)[e] = Info(d, e).font
    BY <1>2 DEF StyleAt, FontAt
  <1>5. /\ StyleAt(d) = [StyleAt(d) EXCEPT ![e] = StyleAt(d)[e]]
        /\ FontAt(d) = [FontAt(d) EXCEPT ![e] = FontAt(d)[e]]
    BY <1>3 DEF Holdings
  <1> QED  BY <1>2, <1>3, <1>4, <1>5 DEF Info

LEMMA SameTreeRefl ==
    ASSUME NEW d
    PROVE  SameTree(d, d)
  BY DEF SameTree

LEMMA SetFontIndexIs ==
    ASSUME NEW d \in Collections, NEW e \in 1 .. Len(d.elems.slots), NEW n \in Nat,
           NEW r, r = SetFontIndex(d, e, n)
    PROVE  /\ Restyled(d, r, e, Info(d, e).style, n)
           /\ r.styles = d.styles /\ r.fonts = d.fonts /\ r.fontMap = d.fontMap
           /\ r.hash = NoHash \/ r = d
  <1>1. PICK sy, fo, t : sy = Info(d, e).style /\ fo = Info(d, e).font /\ t = d.elems
    OBVIOUS
  <1>2. /\ Consists(d, t, d.texts, d.styles, d.fonts, d.fontMap, d.hash)
        /\ HasSlot(t, e, sy, fo) /\ sy \in Nat /\ NoHash \in Hashes
    BY <1>1, Opened, InfoIs DEF Hashes
  <1>3. CASE fo # n
    <2>1. PICK d1 : d1 = [d EXCEPT !.elems.slots[e].font = n]
      OBVIOUS
    <2>2. r = [d1 EXCEPT !.hash = NoHash]
      BY <1>1, <1>3, <2>1 DEF SetFontIndex
    <2>3. Consists(d1, Styled(t, e, sy, n), d.texts, d.styles, d.fonts, d.fontMap, d.hash)
      BY <1>2, <2>1, SlotSet
    <2>4. Consists([d1 EXCEPT !.hash = NoHash], Styled(t, e, sy, n), d.texts, d.styles, d.fonts,
                   d.fontMap, NoHash)
      BY <2>3, FieldSet
    <2>5. Consists(r, Styled(t, e, sy, n), d.texts, d.styles, d.fonts, d.fontMap, NoHash)
      BY <2>2, <2>4
    <2> QED  BY <1>1, <1>2, <2>5, RestyledIs, Typed
  <1>4. CASE fo = n
    <2>1. r = d
      BY <1>1, <1>4 DEF SetFontIndex
    <2>2. /\ StyleAt(d) = [StyleAt(d) EXCEPT ![e] = Info(d, e).style]
          /\ FontAt(d) = [FontAt(d) EXCEPT ![e] = Info(d, e).font]
      BY InfoIs
    <2>3. /\ StyleAt(r) = [StyleAt(d) EXCEPT ![e] = sy]
          /\ FontAt(r) = [FontAt(d) EXCEPT ![e] = fo]
      BY <1>1, <2>1, <2>2
    <2> QED  BY <1>1, <1>4, <2>1, <2>3, SameTreeRefl, Zenon DEF Restyled
  <1> QED  BY <1>3, <1>4

LEMMA SetStyleIndexIs ==
    ASSUME NEW d \in Collections, NEW e \in 1 .. Len(d.elems.slots), NEW n \in Nat,
           NEW r, r = SetStyleIndex(d, e, n)
    PROVE  /\ Restyled(d, r, e, n, Info(d, e).font)
           /\ r.styles = d.styles /\ r.fonts = d.fonts /\ r.fontMap = d.fontMap
           /\ r.hash = NoHash \/ r = d
  <1>1. PICK sy, fo, t : sy = Info(d, e).style /\ fo = Info(d, e).font /\ t = d.elems
    OBVIOUS
  <1>2. /\ Consists(d, t, d.texts, d.styles, d.fonts, d.fontMap, d.hash)
        /\ HasSlot(t, e, sy, fo) /\ fo \in Nat /\ NoHash \in Hashes
    BY <1>1, Opened, InfoIs DEF Hashes
  <1>3. CASE sy # n
    <2>1. PICK d1 : d1 = [d EXCEPT !.elems.slots[e].style = n]
      OBVIOUS
    <2>2. r = [d1 EXCEPT !.hash = NoHash]
      BY <1>1, <1>3, <2>1 DEF SetStyleIndex
    <2>3. Consists(d1, Styled(t, e, n, fo), d.texts, d.styles, d.fonts, d.fontMap, d.hash)
      BY <1>2, <2>1, SlotSet
    <2>4. Consists([d1 EXCEPT !.hash = NoHash], Styled(t, e, n, fo), d.texts, d.styles, d.fonts,
                   d.fontMap, NoHash)
      BY <2>3, FieldSet
    <2>5. Consists(r, Styled(t, e, n, fo), d.texts, d.styles, d.fonts, d.fontMap, NoHash)
      BY <2>2, <2>4
    <2> QED  BY <1>1, <1>2, <2>5, RestyledIs, Typed
  <1>4. CASE sy = n
    <2>1. r = d
      BY <1>1, <1>4 DEF SetStyleIndex
    <2>2. /\ StyleAt(d) = [StyleAt(d) EXCEPT ![e] = Info(d, e).style]
          /\ FontAt(d) = [FontAt(d) EXCEPT ![e] = Info(d, e).font]
      BY InfoIs
    <2>3. /\ StyleAt(r) = [StyleAt(d) EXCEPT ![e] = sy]
          /\ FontAt(r) = [FontAt(d) EXCEPT ![e] = fo]
      BY <1>1, <2>1, <2>2
    <2> QED  BY <1>1, <1>4, <2>1, <2>3, SameTreeRefl, Zenon DEF Restyled
  <1> QED  BY <1>3, <1>4

\* References are added to styles.
Referenced(d, r) ==
    /\ r \in Collections /\ r.elems = d.elems /\ r.texts = d.texts /\ r.fonts = d.fonts
    /\ r.fontMap = d.fontMap /\ r.hash = d.hash /\ Len(r.styles.index) = Len(d.styles.index)
    /\ \A m : (Holds(r.styles, m) <=> Holds(d.styles, m)) /\ Get(r.styles, m) = Get(d.styles, m)
    /\ \A m : Count(r.styles, m) >= Count(d.styles, m)

LEMMA ReferencedRefl ==
    ASSUME NEW d \in Collections
    PROVE  Referenced(d, d)
  <1>1. \A m : Count(d.styles, m) \in Nat
    BY Typed, CountIs, Assumed
  <1> QED  BY <1>1 DEF Referenced

LEMMA GetNodeStyleIs ==
    ASSUME NEW d \in Collections, NEW e, NEW r, r = GetNodeStyle(d, e)
    PROVE  /\ Referenced(d, r)
           /\ \A m : Count(r.styles, m) = IF m = Info(d, e).style /\ Holds(d.styles, m)
                                          THEN Count(d.styles, m) + 1 ELSE Count(d.styles, m)
  <1>1. PICK n, y : n = Info(d, e).style /\ y = AddIndexRef(d.styles, n)
    OBVIOUS
  <1>2. /\ d.elems \in Tables(MaxElems) /\ d.texts \in Tables(MaxTexts)
        /\ GoodCache(d.styles, Styles) /\ GoodCache(d.fonts, Fonts)
        /\ Len(d.styles.index) <= Cardinality(Styles)
        /\ d.fontMap \in [StyleIndexes -> Nat] /\ d.hash \in Hashes
        /\ d = [elems |-> d.elems, texts |-> d.texts, styles |-> d.styles, fonts |-> d.fonts,
                fontMap |-> d.fontMap, hash |-> d.hash]
    BY Typed
  <1>3. /\ GoodCache(y, Styles) /\ Len(y.index) = Len(d.styles.index)
        /\ \A m : (Holds(y, m) <=> Holds(d.styles, m)) /\ Get(y, m) = Get(d.styles, m)
        /\ \A m : Count(y, m) = IF m = n /\ Holds(d.styles, n)
                                THEN Count(d.styles, m) + 1 ELSE Count(d.styles, m)
    BY <1>1, <1>2, AddIndexRefIs, Assumed
  <1>4. \A m : Count(d.styles, m) \in Nat
    BY <1>2, CountIs, Assumed
  <1>5. Consists(d, d.elems, d.texts, d.styles, d.fonts, d.fontMap, d.hash)
    BY <1>2 DEF Consists, Doc
  <1>6. Consists([d EXCEPT !.styles = y], d.elems, d.texts, y, d.fonts, d.fontMap, d.hash)
    BY <1>5, FieldSet
  <1>7. r = [d EXCEPT !.styles = y]
    BY <1>1 DEF GetNodeStyle
  <1>8. /\ r.elems = d.elems /\ r.texts = d.texts /\ r.fonts = d.fonts
        /\ r.fontMap = d.fontMap /\ r.hash = d.hash /\ r.styles = y
        /\ r = [elems |-> d.elems, texts |-> d.texts, styles |-> y, fonts |-> d.fonts,
                fontMap |-> d.fontMap, hash |-> d.hash]
    BY <1>6, <1>7 DEF Consists, Doc
  <1>9. r \in Collections
    BY <1>2, <1>3, <1>8, MakesCollection
  <1>10. \A m : Count(y, m) >= Count(d.styles, m)
    BY <1>3, <1>4
  <1> QED  BY <1>1, <1>3, <1>8, <1>9, <1>10 DEF Referenced

\* The entry a has the value v; the others that have one had it before.
Took(y, r, a, v) ==
    /\ Holds(r, a) /\ Get(r, a) = v /\ (Holds(y, a) => Get(y, a) = v)
    /\ \A m : Holds(r, m) /\ m # a => Holds(y, m) /\ Get(r, m) = Get(y, m)

\* A reference to a more, at most one to h less.
Shifted(y, r, h, a) ==
    \A n \in Nat \ {0} : Count(r, n) >= Count(y, n) + (IF n = a THEN 1 ELSE 0)
                                                  - (IF n = h THEN 1 ELSE 0)

LEMMA MovedTakes ==
    ASSUME NEW V, NEW y, GoodCache(y, V), NEW r, GoodCache(r, V), Null \notin V,
           NEW h, NEW a, NEW v, Moved(y, r, h, a, v)
    PROVE  Took(y, r, a, v) /\ Shifted(y, r, h, a)
  <1>1. ASSUME NEW n \in Nat \ {0}
        PROVE  Count(r, n) >= Count(y, n) + (IF n = a THEN 1 ELSE 0) - (IF n = h THEN 1 ELSE 0)
    <2>1. /\ Count(y, n) \in Nat /\ (Holds(y, n) <=> Count(y, n) # 0)
          /\ Count(r, n) \in Nat
      BY CountIs
    <2>2. Count(r, n) = Count(y, n) + (IF n = a THEN 1 ELSE 0)
                                    - (IF n = h /\ Holds(y, h) THEN 1 ELSE 0)
      BY DEF Moved
    <2> QED  BY <2>1, <2>2
  <1> QED  BY <1>1 DEF Moved, Took, Shifted

LEMMA SetNodeStyleIs ==
    ASSUME NEW d \in Collections, NEW e \in 1 .. Len(d.elems.slots), NEW s \in Styles,
           NEW r, r = SetNodeStyle(d, e, s), NEW a, a = CachedAt(d.styles, s)
    PROVE  /\ Restyled(d, r, e, a, Info(d, e).font) /\ a \in StyleIndexes
           /\ Took(d.styles, r.styles, a, s)
           /\ Shifted(d.styles, r.styles, Info(d, e).style, a)
           /\ \A n \in DOMAIN r.styles.index : n = a \/ n \in DOMAIN d.styles.index
           /\ r.fonts = d.fonts /\ r.fontMap = d.fontMap /\ r.hash = NoHash
  <1>1. PICK sy, fo, t, y : /\ sy = Info(d, e).style /\ fo = Info(d, e).font /\ t = d.elems
                            /\ y = CacheFor(d.styles, sy, s)
    OBVIOUS
  <1>2. /\ Consists(d, t, d.texts, d.styles, d.fonts, d.fontMap, d.hash)
        /\ HasSlot(t, e, sy, fo) /\ fo \in Nat /\ NoHash \in Hashes
    BY <1>1, Opened, InfoIs DEF Hashes
  <1>3. /\ GoodCache(d.styles, Styles) /\ Len(d.styles.index) <= Cardinality(Styles)
        /\ GoodCache(d.fonts, Fonts) /\ d.fontMap \in [StyleIndexes -> Nat]
    BY Typed
  <1>4. /\ GoodCache(y, Styles) /\ Moved(d.styles, y, sy, a, s)
        /\ Len(y.index) = Len(Cache(d.styles, s).index)
    BY <1>1, <1>3, CacheForIs, Assumed
  <1>5. Len(y.index) <= Cardinality(Styles) /\ a \in StyleIndexes /\ a \in Nat
    BY <1>3, <1>4, CacheFits, Assumed DEF StyleIndexes
  <1>6. Took(d.styles, y, a, s) /\ Shifted(d.styles, y, sy, a)
    BY <1>3, <1>4, MovedTakes, Assumed
  <1>7. \A n \in DOMAIN y.index : n = a \/ n \in DOMAIN d.styles.index
    <2>1. PICK z : z = Cache(d.styles, s)
      OBVIOUS
    <2>2. /\ GoodCache(z, Styles)
          /\ Len(z.index) = Len(d.styles.index)
              \/ (Len(z.index) = Len(d.styles.index) + 1 /\ a = Len(z.index))
      BY <1>3, <2>1, CacheIs, Assumed
    <2>3. /\ DOMAIN y.index = 1 .. Len(y.index)
          /\ DOMAIN d.styles.index = 1 .. Len(d.styles.index) /\ Len(d.styles.index) \in Nat
      BY <1>3, <1>4, CacheTypes DEF GoodCache
    <2> QED  BY <1>4, <2>1, <2>2, <2>3
  <1>8. PICK d1, d2 : d1 = [d EXCEPT !.styles = y] /\ d2 = [d1 EXCEPT !.elems.slots[e].style = a]
    OBVIOUS
  <1>9. r = [d2 EXCEPT !.hash = NoHash]
    BY <1>1, <1>8 DEF SetNodeStyle
  <1>10. Consists(d1, t, d.texts, y, d.fonts, d.fontMap, d.hash)
    BY <1>2, <1>8, FieldSet
  <1>11. Consists(d2, Styled(t, e, a, fo), d.texts, y, d.fonts, d.fontMap, d.hash)
    BY <1>2, <1>8, <1>10, SlotSet
  <1>12. Consists([d2 EXCEPT !.hash = NoHash], Styled(t, e, a, fo), d.texts, y, d.fonts, d.fontMap, NoHash)
    BY <1>11, FieldSet
  <1>13. Consists(r, Styled(t, e, a, fo), d.texts, y, d.fonts, d.fontMap, NoHash)
    BY <1>9, <1>12
  <1>14. /\ Restyled(d, r, e, a, fo)
         /\ r.styles = y /\ r.fonts = d.fonts /\ r.fontMap = d.fontMap /\ r.hash = NoHash
    <2>1. PICK hs, z, mp : hs = NoHash /\ z = d.fonts /\ mp = d.fontMap
      OBVIOUS
    <2>2. /\ a \in Nat /\ fo \in Nat /\ GoodCache(y, Styles) /\ Len(y.index) <= Cardinality(Styles)
          /\ GoodCache(z, Fonts) /\ mp \in [StyleIndexes -> Nat] /\ hs \in Hashes
      BY <1>2, <1>3, <1>4, <1>5, <2>1
    <2>3. Consists(r, Styled(d.elems, e, a, fo), d.texts, y, z, mp, hs)
      BY <1>1, <1>13, <2>1, Zenon
    <2>4. Restyled(d, r, e, a, fo) /\ r.styles = y /\ r.fonts = z /\ r.fontMap = mp /\ r.hash = hs
      BY <2>2, <2>3, RestyledIs
    <2> QED  BY <2>1, <2>4
  <1> QED  BY <1>1, <1>5, <1>6, <1>7, <1>14

LEMMA ClearNodeStyleIs ==
    ASSUME NEW d \in Collections, NEW e \in 1 .. Len(d.elems.slots), NEW r, r = ClearNodeStyle(d, e)
    PROVE  /\ Restyled(d, r, e, 0, 0)
           /\ Released(d.styles, r.styles, Info(d, e).style) /\ Released(d.fonts, r.fonts, Info(d, e).font)
           /\ DOMAIN r.styles.index = DOMAIN d.styles.index
           /\ r.fontMap = d.fontMap /\ r.hash = NoHash
  <1>1. PICK sy, fo, t, y, z : /\ sy = Info(d, e).style /\ fo = Info(d, e).font /\ t = d.elems
                               /\ y = Release(d.styles, sy) /\ z = Release(d.fonts, fo)
    OBVIOUS
  <1>2. /\ Consists(d, t, d.texts, d.styles, d.fonts, d.fontMap, d.hash)
        /\ HasSlot(t, e, sy, fo) /\ 0 \in Nat /\ NoHash \in Hashes
    BY <1>1, Opened, InfoIs DEF Hashes
  <1>3. /\ GoodCache(d.styles, Styles) /\ Len(d.styles.index) <= Cardinality(Styles)
        /\ GoodCache(d.fonts, Fonts) /\ d.fontMap \in [StyleIndexes -> Nat]
    BY Typed
  <1>4. /\ GoodCache(y, Styles) /\ Released(d.styles, y, sy) /\ Len(y.index) = Len(d.styles.index)
    BY <1>1, <1>3, ReleaseIs, Assumed
  <1>5. GoodCache(z, Fonts) /\ Released(d.fonts, z, fo)
    BY <1>1, <1>3, ReleaseIs, Assumed
  <1>6. DOMAIN y.index = DOMAIN d.styles.index
    <2>1. DOMAIN y.index = 1 .. Len(y.index) /\ DOMAIN d.styles.index = 1 .. Len(d.styles.index)
      BY <1>3, <1>4, CacheTypes DEF GoodCache
    <2> QED  BY <1>4, <2>1
  <1>7. Len(y.index) <= Cardinality(Styles)
    BY <1>3, <1>4
  <1>8. PICK d1, d2, d3, d4 :
            /\ d1 = [d EXCEPT !.styles = y] /\ d2 = [d1 EXCEPT !.fonts = z]
            /\ d3 = [d2 EXCEPT !.elems.slots[e].style = 0] /\ d4 = [d3 EXCEPT !.elems.slots[e].font = 0]
    OBVIOUS
  <1>9. r = [d4 EXCEPT !.hash = NoHash]
    BY <1>1, <1>8 DEF ClearNodeStyle
  <1>10. Consists(d1, t, d.texts, y, d.fonts, d.fontMap, d.hash)
    BY <1>2, <1>8, FieldSet
  <1>11. Consists(d2, t, d.texts, y, z, d.fontMap, d.hash)
    BY <1>8, <1>10, FieldSet
  <1>12. Consists(d3, Styled(t, e, 0, fo), d.texts, y, z, d.fontMap, d.hash)
    BY <1>2, <1>8, <1>11, SlotSet
  <1>13. /\ HasSlot(Styled(t, e, 0, fo), e, 0, fo)
         /\ Styled(Styled(t, e, 0, fo), e, 0, 0) = Styled(t, e, 0, 0)
    BY <1>2, StyledHasSlot
  <1>14. Consists(d4, Styled(t, e, 0, 0), d.texts, y, z, d.fontMap, d.hash)
    BY <1>8, <1>12, <1>13, SlotSet
  <1>15. Consists([d4 EXCEPT !.hash = NoHash], Styled(t, e, 0, 0), d.texts, y, z, d.fontMap, NoHash)
    BY <1>14, FieldSet
  <1>16. Consists(r, Styled(t, e, 0, 0), d.texts, y, z, d.fontMap, NoHash)
    BY <1>9, <1>15
  <1>17. /\ Restyled(d, r, e, 0, 0)
         /\ r.styles = y /\ r.fonts = z /\ r.fontMap = d.fontMap /\ r.hash = NoHash
    <2>1. PICK hs, mp, n : hs = NoHash /\ mp = d.fontMap /\ n = 0
      OBVIOUS
    <2>2. /\ n \in Nat /\ GoodCache(y, Styles) /\ Len(y.index) <= Cardinality(Styles)
          /\ GoodCache(z, Fonts) /\ mp \in [StyleIndexes -> Nat] /\ hs \in Hashes
      BY <1>2, <1>3, <1>4, <1>5, <1>7, <2>1
    <2>3. Consists(r, Styled(d.elems, e, n, n), d.texts, y, z, mp, hs)
      BY <1>1, <1>16, <2>1, Zenon
    <2>4. Restyled(d, r, e, n, n) /\ r.styles = y /\ r.fonts = z /\ r.fontMap = mp /\ r.hash = hs
      BY <2>2, <2>3, RestyledIs
    <2> QED  BY <2>1, <2>4
  <1> QED  BY <1>1, <1>4, <1>5, <1>6, <1>17

\* What initNodeFont does to the font cache.
LEMMA CacheAndRelease ==
    ASSUME NEW V, NEW y, GoodCache(y, V), Null \notin V, NEW v \in V, NEW h \in Nat,
           NEW a, a = CachedAt(y, v), NEW z, z = Cache(y, v),
           NEW r, r = IF h # 0 /\ h # a THEN Release(z, h) ELSE z
    PROVE  /\ GoodCache(r, V) /\ a \in Nat \ {0}
           /\ Took(y, r, a, v) /\ Shifted(y, r, h, a)
  <1>1. GoodCache(z, V) /\ Added(y, z, a, v)
    BY CacheIs
  <1>2. /\ a \in 1 .. Len(z.index)
        /\ \A m : Holds(z, m) <=> (m = a \/ Holds(y, m))
        /\ Get(z, a) = v /\ \A m : Holds(y, m) => Get(z, m) = Get(y, m)
        /\ \A m : Count(z, m) = IF m = a THEN Count(y, m) + 1 ELSE Count(y, m)
    BY <1>1 DEF Added
  <1>3. a \in Nat \ {0}
    BY <1>1, <1>2, CacheTypes DEF GoodCache
  <1>4. \A m : /\ Count(y, m) \in Nat /\ (Holds(y, m) <=> Count(y, m) # 0)
               /\ Count(z, m) \in Nat /\ (Holds(z, m) <=> Count(z, m) # 0)
    BY <1>1, CountIs
  <1>5. CASE h # 0 /\ h # a
    <2>1. r = Release(z, h)
      BY <1>5
    <2>2. GoodCache(r, V) /\ Released(z, r, h)
      BY <1>1, <2>1, ReleaseIs
    <2>3. /\ \A m : Holds(r, m) => Holds(z, m) /\ Get(r, m) = Get(z, m)
          /\ \A m : Count(r, m) = IF m = h /\ Holds(z, h) THEN Count(z, m) - 1 ELSE Count(z, m)
      BY <2>2 DEF Released
    <2>4. \A m : Holds(r, m) <=> Count(r, m) # 0
      BY <2>2, CountIs
    <2>5. Holds(r, a) /\ Get(r, a) = v
      <3>1. Count(r, a) = Count(z, a) /\ Count(z, a) = Count(y, a) + 1 /\ Count(y, a) \in Nat
        BY <1>2, <1>4, <1>5, <2>3
      <3>2. Holds(r, a)
        BY <2>4, <3>1
      <3> QED  BY <1>2, <2>3, <3>2
    <2>6. \A m : Holds(r, m) /\ m # a => Holds(y, m) /\ Get(r, m) = Get(y, m)
      BY <1>2, <2>3
    <2>7. Holds(y, a) => Get(y, a) = v
      BY <1>2
    <2>8. ASSUME NEW n \in Nat \ {0}
          PROVE  Count(r, n) >= Count(y, n) + (IF n = a THEN 1 ELSE 0) - (IF n = h THEN 1 ELSE 0)
      <3>1. Count(r, n) = IF n = h /\ Holds(z, h) THEN Count(z, n) - 1 ELSE Count(z, n)
        BY <2>3
      <3>2. Count(z, n) = (IF n = a THEN Count(y, n) + 1 ELSE Count(y, n)) /\ Count(y, n) \in Nat
        BY <1>2, <1>4
      <3> QED  BY <3>1, <3>2
    <2> QED  BY <1>3, <2>2, <2>5, <2>6, <2>7, <2>8 DEF Took, Shifted
  <1>6. CASE ~ (h # 0 /\ h # a)
    <2>1. r = z
      BY <1>6
    <2>2. \A m : Holds(r, m) /\ m # a => Holds(y, m) /\ Get(r, m) = Get(y, m)
      BY <1>2, <2>1
    <2>3. Holds(y, a) => Get(y, a) = v
      BY <1>2
    <2>4. ASSUME NEW n \in Nat \ {0}
          PROVE  Count(r, n) >= Count(y, n) + (IF n = a THEN 1 ELSE 0) - (IF n = h THEN 1 ELSE 0)
      <3>1. Count(r, n) = (IF n = a THEN Count(y, n) + 1 ELSE Count(y, n)) /\ Count(y, n) \in Nat
        BY <1>2, <1>4, <2>1
      <3> QED  BY <3>1
    <2> QED  BY <1>1, <1>2, <1>3, <2>1, <2>2, <2>3, <2>4 DEF Took, Shifted
  <1> QED  BY <1>5, <1>6

\* An element is given the font b.
FontSet(d, r, e, s, b) ==
    /\ Restyled(d, r, e, s, b) /\ b \in Nat \ {0}
    /\ r.styles = d.styles /\ (d.hash = NoHash => r.hash = NoHash)
    /\ Holds(r.fonts, b) => Shifted(d.fonts, r.fonts, Info(d, e).font, b)

LEMMA RestyledFrom ==
    ASSUME NEW d, NEW d2, NEW r, NEW e, NEW s, NEW f, Restyled(d2, r, e, s, f),
           d2.elems = d.elems, d2.texts = d.texts
    PROVE  Restyled(d, r, e, s, f)
  <1>1. StyleAt(d2) = StyleAt(d) /\ FontAt(d2) = FontAt(d)
    BY DEF StyleAt, FontAt, Info
  <1>2. SameTree(d2, r) => SameTree(d, r)
    BY DEF SameTree, Info
  <1> QED  BY <1>1, <1>2, Zenon DEF Restyled

LEMMA FindFontIs ==
    ASSUME NEW d \in Collections, NEW e \in 1 .. Len(d.elems.slots), NEW s, s = Info(d, e).style,
           Holds(d.styles, s), NEW r, r = FindFont(d, e),
           NEW b, b = CachedAt(d.fonts, FontOf[Get(d.styles, s)])
    PROVE  /\ FontSet(d, r, e, s, b)
           /\ r.fontMap = [d.fontMap EXCEPT ![s] = b]
           /\ Took(d.fonts, r.fonts, b, FontOf[Get(d.styles, s)])
  <1>1. PICK f, v, c : /\ f = Info(d, e).font /\ v = FontOf[Get(d.styles, s)] /\ c = Cache(d.fonts, v)
    OBVIOUS
  <1>2. PICK z, mp : /\ z = IF f # 0 /\ f # b THEN Release(c, f) ELSE c
                     /\ mp = [d.fontMap EXCEPT ![s] = b]
    OBVIOUS
  <1>3. /\ d.elems \in Tables(MaxElems) /\ d.texts \in Tables(MaxTexts)
        /\ GoodCache(d.styles, Styles) /\ GoodCache(d.fonts, Fonts)
        /\ Len(d.styles.index) <= Cardinality(Styles)
        /\ d.fontMap \in [StyleIndexes -> Nat] /\ d.hash \in Hashes
        /\ d = [elems |-> d.elems, texts |-> d.texts, styles |-> d.styles, fonts |-> d.fonts,
                fontMap |-> d.fontMap, hash |-> d.hash]
    BY Typed
  <1>4. /\ f \in Nat /\ s \in Nat /\ v \in Fonts /\ s \in StyleIndexes
    <2>1. Get(d.styles, s) \in Styles
      BY <1>3, CountIs, Assumed
    <2>2. DOMAIN d.styles.index = 1 .. Len(d.styles.index) /\ Len(d.styles.index) \in Nat
      BY <1>3, CacheTypes DEF GoodCache
    <2>3. s \in 1 .. Len(d.styles.index)
      BY <2>2 DEF Holds
    <2>4. s \in StyleIndexes
      BY <1>3, <2>2, <2>3, Assumed DEF StyleIndexes
    <2> QED  BY <1>1, <2>1, <2>4, InfoIs, Assumed
  <1>5. /\ GoodCache(z, Fonts) /\ b \in Nat \ {0} /\ Took(d.fonts, z, b, v) /\ Shifted(d.fonts, z, f, b)
    BY <1>1, <1>2, <1>3, <1>4, CacheAndRelease, Assumed
  <1>6. mp \in [StyleIndexes -> Nat]
    BY <1>2, <1>3, <1>5
  <1>7. PICK d1, d2 : d1 = [d EXCEPT !.fonts = z] /\ d2 = [d1 EXCEPT !.fontMap = mp]
    OBVIOUS
  <1>8. Consists(d, d.elems, d.texts, d.styles, d.fonts, d.fontMap, d.hash)
    BY <1>3 DEF Consists, Doc
  <1>9. Consists(d1, d.elems, d.texts, d.styles, z, d.fontMap, d.hash)
    BY <1>7, <1>8, FieldSet
  <1>10. Consists(d2, d.elems, d.texts, d.styles, z, mp, d.hash)
    BY <1>7, <1>9, FieldSet
  <1>11. /\ d2.elems = d.elems /\ d2.texts = d.texts /\ d2.fonts = z /\ d2.styles = d.styles
         /\ d2.fontMap = mp /\ d2.hash = d.hash
         /\ d2 = [elems |-> d.elems, texts |-> d.texts, styles |-> d.styles, fonts |-> z,
                  fontMap |-> mp, hash |-> d.hash]
    BY <1>10 DEF Consists, Doc
  <1>12. d2 \in Collections
    BY <1>3, <1>5, <1>6, <1>11, MakesCollection
  <1>13. r = SetFontIndex(d2, e, b)
    <2>1. d1.fontMap = d.fontMap
      BY <1>9 DEF Consists, Doc
    <2>2. [d EXCEPT !.fonts = z, !.fontMap[s] = b] = [d1 EXCEPT !.fontMap[s] = b]
      BY <1>7
    <2>3. [d1 EXCEPT !.fontMap[s] = b] = d2
      BY <1>2, <1>7, <2>1
    <2>4. r = SetFontIndex([d EXCEPT !.fonts = z, !.fontMap[s] = b], e, b)
      BY <1>1, <1>2, Zenon DEF FindFont
    <2> QED  BY <2>2, <2>3, <2>4
  <1>14. Info(d2, e) = Info(d, e) /\ e \in 1 .. Len(d2.elems.slots)
    BY <1>11 DEF Info
  <1>15. /\ Restyled(d2, r, e, s, b) /\ r.styles = d.styles /\ r.fonts = z /\ r.fontMap = mp
         /\ r.hash = NoHash \/ r = d2
    BY <1>5, <1>11, <1>12, <1>13, <1>14, SetFontIndexIs
  <1>16. Restyled(d, r, e, s, b)
    BY <1>11, <1>15, RestyledFrom
  <1> QED  BY <1>1, <1>2, <1>5, <1>11, <1>15, <1>16 DEF FontSet

LEMMA KnownFontIs ==
    ASSUME NEW d \in Collections, NEW e \in 1 .. Len(d.elems.slots), NEW s, s = Info(d, e).style,
           s \in StyleIndexes, NEW b, b = d.fontMap[s], b # 0, NEW r, r = InitNodeFont(d, e)
    PROVE  /\ FontSet(d, r, e, s, b)
           /\ r.fontMap = d.fontMap
           /\ \A m : (Holds(r.fonts, m) <=> Holds(d.fonts, m)) /\ Get(r.fonts, m) = Get(d.fonts, m)
  <1>1. PICK f, z : f = Info(d, e).font /\ z = IF f # b THEN AddIndexRef(d.fonts, b) ELSE d.fonts
    OBVIOUS
  <1>3. /\ d.elems \in Tables(MaxElems) /\ d.texts \in Tables(MaxTexts)
        /\ GoodCache(d.styles, Styles) /\ GoodCache(d.fonts, Fonts)
        /\ Len(d.styles.index) <= Cardinality(Styles)
        /\ d.fontMap \in [StyleIndexes -> Nat] /\ d.hash \in Hashes
        /\ d = [elems |-> d.elems, texts |-> d.texts, styles |-> d.styles, fonts |-> d.fonts,
                fontMap |-> d.fontMap, hash |-> d.hash]
    BY Typed
  <1>4. f \in Nat /\ s \in Nat /\ b \in Nat \ {0}
    BY <1>1, <1>3, InfoIs
  <1>5. \A m : Count(d.fonts, m) \in Nat
    BY <1>3, CountIs, Assumed
  <1>6. /\ GoodCache(z, Fonts)
        /\ \A m : (Holds(z, m) <=> Holds(d.fonts, m)) /\ Get(z, m) = Get(d.fonts, m)
        /\ \A m : Count(z, m) = IF m = b /\ f # b /\ Holds(d.fonts, b)
                                THEN Count(d.fonts, m) + 1 ELSE Count(d.fonts, m)
    <2>1. CASE f # b
      <3>1. z = AddIndexRef(d.fonts, b)
        BY <1>1, <2>1
      <3> QED  BY <1>3, <2>1, <3>1, AddIndexRefIs, Assumed
    <2>2. CASE f = b
      BY <1>1, <1>3, <2>2
    <2> QED  BY <2>1, <2>2
  <1>7. Holds(z, b) => Shifted(d.fonts, z, f, b)
    <2> SUFFICES ASSUME Holds(z, b), NEW n \in Nat \ {0}
                 PROVE  Count(z, n) >= Count(d.fonts, n) + (IF n = b THEN 1 ELSE 0)
                                                         - (IF n = f THEN 1 ELSE 0)
      BY DEF Shifted
    <2>1. Count(z, n) = (IF n = b /\ f # b THEN Count(d.fonts, n) + 1 ELSE Count(d.fonts, n))
          /\ Count(d.fonts, n) \in Nat
      BY <1>5, <1>6
    <2> QED  BY <2>1
  <1>8. PICK d2 : d2 = [d EXCEPT !.fonts = z]
    OBVIOUS
  <1>9. Consists(d, d.elems, d.texts, d.styles, d.fonts, d.fontMap, d.hash)
    BY <1>3 DEF Consists, Doc
  <1>10. Consists(d2, d.elems, d.texts, d.styles, z, d.fontMap, d.hash)
    BY <1>8, <1>9, FieldSet
  <1>11. /\ d2.elems = d.elems /\ d2.texts = d.texts /\ d2.fonts = z /\ d2.styles = d.styles
         /\ d2.fontMap = d.fontMap /\ d2.hash = d.hash
         /\ d2 = [elems |-> d.elems, texts |-> d.texts, styles |-> d.styles, fonts |-> z,
                  fontMap |-> d.fontMap, hash |-> d.hash]
    BY <1>10 DEF Consists, Doc
  <1>12. d2 \in Collections
    BY <1>3, <1>6, <1>11, MakesCollection
  <1>13. r = SetFontIndex(d2, e, b)
    BY <1>1, <1>8 DEF InitNodeFont
  <1>14. Info(d2, e) = Info(d, e) /\ e \in 1 .. Len(d2.elems.slots)
    BY <1>11 DEF Info
  <1>15. /\ Restyled(d2, r, e, s, b) /\ r.styles = d.styles /\ r.fonts = z /\ r.fontMap = d.fontMap
         /\ r.hash = NoHash \/ r = d2
    BY <1>4, <1>11, <1>12, <1>13, <1>14, SetFontIndexIs
  <1>16. Restyled(d, r, e, s, b)
    BY <1>11, <1>15, RestyledFrom
  <1> QED  BY <1>1, <1>4, <1>6, <1>7, <1>11, <1>15, <1>16 DEF FontSet

\* What initNodeFont does.
FontFollows(d, r, e, s, v, b) ==
    /\ FontSet(d, r, e, s, b)
    /\ IF d.fontMap[s] = 0
       THEN r.fontMap = [d.fontMap EXCEPT ![s] = b] /\ Took(d.fonts, r.fonts, b, v)
       ELSE /\ b = d.fontMap[s] /\ r.fontMap = d.fontMap
            /\ \A m : (Holds(r.fonts, m) <=> Holds(d.fonts, m)) /\ Get(r.fonts, m) = Get(d.fonts, m)

LEMMA InitNodeFontIs ==
    ASSUME NEW d \in Collections, NEW e \in 1 .. Len(d.elems.slots), NEW s, s = Info(d, e).style,
           Holds(d.styles, s), NEW r, r = InitNodeFont(d, e), NEW v, v = FontOf[Get(d.styles, s)]
    PROVE  \E b : FontFollows(d, r, e, s, v, b)
  <1>1. s \in StyleIndexes
    <2>1. GoodCache(d.styles, Styles) /\ Len(d.styles.index) <= Cardinality(Styles)
      BY Typed
    <2>2. DOMAIN d.styles.index = 1 .. Len(d.styles.index) /\ Len(d.styles.index) \in Nat
      BY <2>1, CacheTypes DEF GoodCache
    <2>3. s \in 1 .. Len(d.styles.index)
      BY <2>2 DEF Holds
    <2> QED  BY <2>1, <2>2, <2>3, Assumed DEF StyleIndexes
  <1>2. CASE d.fontMap[s] = 0
    <2>1. r = FindFont(d, e)
      BY <1>2 DEF InitNodeFont
    <2>2. PICK b : b = CachedAt(d.fonts, v)
      OBVIOUS
    <2>3. /\ FontSet(d, r, e, s, b)
          /\ r.fontMap = [d.fontMap EXCEPT ![s] = b] /\ Took(d.fonts, r.fonts, b, v)
      BY <2>1, <2>2, FindFontIs
    <2> QED  BY <1>2, <2>3, Zenon DEF FontFollows
  <1>3. CASE d.fontMap[s] # 0
    <2>1. PICK b : b = d.fontMap[s]
      OBVIOUS
    <2>2. /\ FontSet(d, r, e, s, b) /\ r.fontMap = d.fontMap
          /\ \A m : (Holds(r.fonts, m) <=> Holds(d.fonts, m)) /\ Get(r.fonts, m) = Get(d.fonts, m)
      BY <1>1, <1>3, <2>1, KnownFontIs
    <2> QED  BY <1>3, <2>1, <2>2, Zenon DEF FontFollows
  <1> QED  BY <1>2, <1>3

LEMMA SameTreeTrans ==
    ASSUME NEW a, NEW b, NEW c, SameTree(a, b), SameTree(b, c)
    PROVE  SameTree(a, c)
  BY DEF SameTree

LEMMA RestyledAgain ==
    ASSUME NEW d \in Collections, NEW d1, NEW d2, NEW r, NEW e \in 1 .. Len(d.elems.slots),
           NEW s, NEW f, NEW u, NEW v,
           Restyled(d, d1, e, s, f), d2.elems = d1.elems, d2.texts = d1.texts, Restyled(d2, r, e, u, v)
    PROVE  Restyled(d, r, e, u, v)
  <1>1. Restyled(d1, r, e, u, v)
    BY RestyledFrom
  <1>2. /\ StyleAt(r) = [[StyleAt(d) EXCEPT ![e] = s] EXCEPT ![e] = u]
        /\ FontAt(r) = [[FontAt(d) EXCEPT ![e] = f] EXCEPT ![e] = v]
    BY <1>1 DEF Restyled
  <1>3. StyleAt(r) = [StyleAt(d) EXCEPT ![e] = u] /\ FontAt(r) = [FontAt(d) EXCEPT ![e] = v]
    BY <1>2
  <1>4. SameTree(d, r)
    BY <1>1, SameTreeTrans DEF Restyled
  <1> QED  BY <1>1, <1>3, <1>4 DEF Restyled

\* What initNodeStyle does: the element has the style s under the index a, and the font b.
StyleSet(d, r, e, s, a, b) ==
    /\ Restyled(d, r, e, a, b) /\ a \in StyleIndexes /\ b \in Nat \ {0}
    /\ Took(d.styles, r.styles, a, s) /\ Shifted(d.styles, r.styles, Info(d, e).style, a)
    /\ \A n \in DOMAIN r.styles.index : n = a \/ n \in DOMAIN d.styles.index
    /\ r.hash = NoHash
    /\ Holds(r.fonts, b) => Shifted(d.fonts, r.fonts, Info(d, e).font, b)
    /\ IF d.fontMap[a] = 0
       THEN r.fontMap = [d.fontMap EXCEPT ![a] = b] /\ Took(d.fonts, r.fonts, b, FontOf[s])
       ELSE /\ b = d.fontMap[a] /\ r.fontMap = d.fontMap
            /\ \A m : (Holds(r.fonts, m) <=> Holds(d.fonts, m)) /\ Get(r.fonts, m) = Get(d.fonts, m)

LEMMA ReferencedDomain ==
    ASSUME NEW d \in Collections, NEW r, Referenced(d, r)
    PROVE  DOMAIN r.styles.index = DOMAIN d.styles.index
  <1>1. GoodCache(d.styles, Styles) /\ GoodCache(r.styles, Styles)
    BY Typed DEF Referenced
  <1>2. /\ DOMAIN d.styles.index = 1 .. Len(d.styles.index)
        /\ DOMAIN r.styles.index = 1 .. Len(r.styles.index)
    BY <1>1, CacheTypes DEF GoodCache
  <1> QED  BY <1>2 DEF Referenced

\* References are added to a cache.
Gained(y, r) ==
    /\ \A m : (Holds(r, m) <=> Holds(y, m)) /\ Get(r, m) = Get(y, m)
    /\ \A m : Count(r, m) >= Count(y, m)

\* A change of the style cache between two calls that only add references.
LEMMA StylesShift ==
    ASSUME NEW V, NEW y, NEW y0, NEW y1, NEW y2, NEW a, NEW h, NEW s,
           GoodCache(y, V), GoodCache(y0, V), GoodCache(y1, V), GoodCache(y2, V), Null \notin V,
           Gained(y, y0), Gained(y1, y2),
           Took(y0, y1, a, s), Shifted(y0, y1, h, a)
    PROVE  Took(y, y2, a, s) /\ Shifted(y, y2, h, a)
  <1>1. Took(y, y2, a, s)
    BY DEF Took, Gained
  <1>2. \A m : /\ Count(y, m) \in Nat /\ Count(y0, m) \in Nat
               /\ Count(y1, m) \in Nat /\ Count(y2, m) \in Nat
    BY CountIs
  <1>3. ASSUME NEW n \in Nat \ {0}
        PROVE  Count(y2, n) >= Count(y, n) + (IF n = a THEN 1 ELSE 0) - (IF n = h THEN 1 ELSE 0)
    <2>1. /\ Count(y, n) \in Nat /\ Count(y0, n) \in Nat
          /\ Count(y1, n) \in Nat /\ Count(y2, n) \in Nat
      BY <1>2
    <2>2. Count(y1, n) >= Count(y0, n) + (IF n = a THEN 1 ELSE 0) - (IF n = h THEN 1 ELSE 0)
      BY DEF Shifted
    <2>3. Count(y0, n) >= Count(y, n) /\ Count(y2, n) >= Count(y1, n)
      BY DEF Gained
    <2> QED  BY <2>1, <2>2, <2>3
  <1> QED  BY <1>1, <1>3 DEF Shifted

LEMMA InitNodeStyleIs ==
    ASSUME NEW d \in Collections, NEW e \in 1 .. Len(d.elems.slots), NEW s \in Styles,
           NEW r, r = InitNodeStyle(d, e, s)
    PROVE  \E a, b : StyleSet(d, r, e, s, a, b)
  <1>1. PICK d0 : d0 = IF Info(d, e).parent \in {0, Root} THEN d ELSE GetNodeStyle(d, Info(d, e).parent)
    OBVIOUS
  <1>2. PICK a, d1, d2 : /\ a = CachedAt(d0.styles, s) /\ d1 = SetNodeStyle(d0, e, s)
                         /\ d2 = GetNodeStyle(d1, e)
    OBVIOUS
  <1>3. r = InitNodeFont(d2, e)
    BY <1>1, <1>2, Zenon DEF InitNodeStyle
  <1>4. Referenced(d, d0)
    <2>1. CASE Info(d, e).parent \in {0, Root}
      BY <1>1, <2>1, ReferencedRefl
    <2>2. CASE Info(d, e).parent \notin {0, Root}
      BY <1>1, <2>2, GetNodeStyleIs
    <2> QED  BY <2>1, <2>2
  <1>5. /\ d0 \in Collections /\ d0.elems = d.elems /\ d0.texts = d.texts /\ d0.fonts = d.fonts
        /\ d0.fontMap = d.fontMap
        /\ \A m : (Holds(d0.styles, m) <=> Holds(d.styles, m)) /\ Get(d0.styles, m) = Get(d.styles, m)
        /\ \A m : Count(d0.styles, m) >= Count(d.styles, m)
        /\ DOMAIN d0.styles.index = DOMAIN d.styles.index
    BY <1>4, ReferencedDomain DEF Referenced
  <1>6. e \in 1 .. Len(d0.elems.slots) /\ Info(d0, e) = Info(d, e)
    BY <1>5 DEF Info
  <1>7. /\ Restyled(d0, d1, e, a, Info(d0, e).font) /\ a \in StyleIndexes
        /\ Took(d0.styles, d1.styles, a, s)
        /\ Shifted(d0.styles, d1.styles, Info(d0, e).style, a)
        /\ \A n \in DOMAIN d1.styles.index : n = a \/ n \in DOMAIN d0.styles.index
        /\ d1.fonts = d0.fonts /\ d1.fontMap = d0.fontMap /\ d1.hash = NoHash
    BY <1>2, <1>5, <1>6, SetNodeStyleIs
  <1>8. d1 \in Collections /\ SameTree(d0, d1) /\ StyleAt(d1) = [StyleAt(d0) EXCEPT ![e] = a]
        /\ FontAt(d1) = [FontAt(d0) EXCEPT ![e] = Info(d0, e).font]
    BY <1>7 DEF Restyled
  <1>9. Referenced(d1, d2)
    BY <1>2, <1>8, GetNodeStyleIs
  <1>10. /\ d2 \in Collections /\ d2.elems = d1.elems /\ d2.texts = d1.texts /\ d2.fonts = d1.fonts
         /\ d2.fontMap = d1.fontMap /\ d2.hash = NoHash
         /\ \A m : (Holds(d2.styles, m) <=> Holds(d1.styles, m)) /\ Get(d2.styles, m) = Get(d1.styles, m)
         /\ \A m : Count(d2.styles, m) >= Count(d1.styles, m)
         /\ DOMAIN d2.styles.index = DOMAIN d1.styles.index
    BY <1>7, <1>8, <1>9, ReferencedDomain DEF Referenced
  <1>11. /\ e \in 1 .. Len(d1.elems.slots) /\ e \in 1 .. Len(d2.elems.slots)
         /\ Info(d2, e) = Info(d1, e)
    BY <1>6, <1>8, <1>10 DEF SameTree, Info
  <1>12. Info(d2, e).style = a /\ Info(d2, e).font = Info(d, e).font
    <2>1. /\ StyleAt(d1)[e] = Info(d1, e).style /\ FontAt(d1)[e] = Info(d1, e).font
          /\ e \in 1 .. MaxElems /\ StyleAt(d0) \in Holdings /\ FontAt(d0) \in Holdings
      BY <1>5, <1>6, <1>8, <1>11, InfoIs
    <2> QED  BY <1>6, <1>8, <1>11, <2>1 DEF Holdings
  <1>13. Took(d.styles, d2.styles, a, s) /\ Shifted(d.styles, d2.styles, Info(d, e).style, a)
    <2>1. /\ GoodCache(d.styles, Styles) /\ GoodCache(d0.styles, Styles)
          /\ GoodCache(d1.styles, Styles) /\ GoodCache(d2.styles, Styles)
      BY <1>5, <1>8, <1>10, Typed
    <2>2. Gained(d.styles, d0.styles) /\ Gained(d1.styles, d2.styles)
      BY <1>5, <1>10 DEF Gained
    <2>3. Took(d0.styles, d1.styles, a, s) /\ Shifted(d0.styles, d1.styles, Info(d, e).style, a)
      BY <1>6, <1>7
    <2> QED  BY <2>1, <2>2, <2>3, StylesShift, Assumed
  <1>14. Holds(d2.styles, a) /\ Get(d2.styles, a) = s
    BY <1>13 DEF Took
  <1>15. PICK b : FontFollows(d2, r, e, a, FontOf[s], b)
    BY <1>3, <1>10, <1>11, <1>12, <1>14, InitNodeFontIs
  <1>16. /\ Restyled(d2, r, e, a, b) /\ b \in Nat \ {0}
         /\ r.styles = d2.styles /\ r.hash = NoHash
         /\ Holds(r.fonts, b) => Shifted(d2.fonts, r.fonts, Info(d2, e).font, b)
         /\ IF d2.fontMap[a] = 0
            THEN r.fontMap = [d2.fontMap EXCEPT ![a] = b] /\ Took(d2.fonts, r.fonts, b, FontOf[s])
            ELSE /\ b = d2.fontMap[a] /\ r.fontMap = d2.fontMap
                 /\ \A m : (Holds(r.fonts, m) <=> Holds(d2.fonts, m)) /\ Get(r.fonts, m) = Get(d2.fonts, m)
    BY <1>10, <1>15, Zenon DEF FontFollows, FontSet
  <1>17. Restyled(d, r, e, a, b)
    <2>1. Restyled(d, d1, e, a, Info(d0, e).font)
      BY <1>5, <1>7, RestyledFrom
    <2> QED  BY <1>10, <1>16, <2>1, RestyledAgain
  <1>18. \A n \in DOMAIN r.styles.index : n = a \/ n \in DOMAIN d.styles.index
    BY <1>5, <1>7, <1>10, <1>16
  <1>19. d2.fonts = d.fonts /\ d2.fontMap = d.fontMap
    BY <1>5, <1>7, <1>10
  <1>20. StyleSet(d, r, e, s, a, b)
    BY <1>7, <1>12, <1>13, <1>16, <1>17, <1>18, <1>19, Zenon DEF StyleSet
  <1> QED  BY <1>20

-----------------------------------------------------------------------------
(* Styles and fonts that are right.                                        *)

\* Every element that has a style has the font of that style.
Follows(d) ==
    \A e \in 1 .. MaxElems :
        StyleAt(d)[e] # 0 => Get(d.fonts, FontAt(d)[e]) = FontOf[Get(d.styles, StyleAt(d)[e])]

StylesBacked(d) == Backed(StyleAt(d), d.styles)
FontsBacked(d) == Backed(FontAt(d), d.fonts)

\* The entry of a cache that holds an index has a number that is not 0.
LEMMA HoldsSome ==
    ASSUME NEW V, NEW y, GoodCache(y, V), Null \notin V, NEW n, Get(y, n) # Null
    PROVE  Holds(y, n) /\ n \in Nat \ {0} /\ Get(y, n) \in V
  <1>1. Holds(y, n) /\ DOMAIN y.index = 1 .. Len(y.index) /\ Len(y.index) \in Nat
    BY CacheTypes DEF Get, GoodCache
  <1>2. n \in Nat \ {0}
    BY <1>1 DEF Holds
  <1>3. Get(y, n) \in V
    BY <1>1, CountIs
  <1> QED  BY <1>1, <1>2, <1>3

LEMMA HoldingsOf ==
    ASSUME NEW d \in Collections
    PROVE  StyleAt(d) \in Holdings /\ FontAt(d) \in Holdings
  <1>1. d.elems \in Tables(MaxElems) /\ MaxElems \in Nat
    BY Typed, Assumed
  <1>2. \A i \in 1 .. Len(d.elems.slots) : d.elems.slots[i].style \in Nat /\ d.elems.slots[i].font \in Nat
    BY <1>1, TableTypes
  <1>3. DOMAIN d.elems.slots = 1 .. Len(d.elems.slots)
    BY <1>1, TableTypes
  <1> QED  BY <1>2, <1>3 DEF StyleAt, FontAt, Holdings, Info

LEMMA BackedShifts ==
    ASSUME NEW V, NEW y, GoodCache(y, V), NEW r, GoodCache(r, V), Null \notin V,
           NEW h \in Holdings, Backed(h, y),
           NEW e \in 1 .. MaxElems, NEW a \in Nat, Shifted(y, r, h[e], a)
    PROVE  Backed([h EXCEPT ![e] = a], r)
  <1>0. PICK g : g = [h EXCEPT ![e] = a]
    OBVIOUS
  <1>1. \A n \in Nat \ {0} : Count(r, n) >= Count(y, n) + (IF n = a THEN 1 ELSE 0)
                                                - (IF n = h[e] THEN 1 ELSE 0)
    BY DEF Shifted
  <1>2. Backed(g, r)
    BY <1>0, <1>1, BackedMoves
  <1> QED  BY <1>0, <1>2

LEMMA StyleSetStyles ==
    ASSUME NEW d \in Collections, NEW r, NEW e \in 1 .. Len(d.elems.slots), NEW s \in Styles,
           NEW a, NEW b, StyleSet(d, r, e, s, a, b), StylesBacked(d)
    PROVE  StylesBacked(r)
  <1>1. /\ StyleAt(r) = [StyleAt(d) EXCEPT ![e] = a] /\ a \in Nat /\ r \in Collections
        /\ Shifted(d.styles, r.styles, Info(d, e).style, a)
    BY Assumed DEF StyleSet, Restyled, StyleIndexes
  <1>2. /\ StyleAt(d) \in Holdings /\ StyleAt(d)[e] = Info(d, e).style /\ e \in 1 .. MaxElems
    BY InfoIs
  <1>3. GoodCache(d.styles, Styles) /\ GoodCache(r.styles, Styles)
    BY <1>1, Typed
  <1>4. Shifted(d.styles, r.styles, StyleAt(d)[e], a)
    BY <1>1, <1>2
  <1>5. Backed([StyleAt(d) EXCEPT ![e] = a], r.styles)
    BY <1>1, <1>2, <1>3, <1>4, BackedShifts, Assumed DEF StylesBacked
  <1> QED  BY <1>1, <1>5 DEF StylesBacked

LEMMA StyleSetFonts ==
    ASSUME NEW d \in Collections, NEW r, NEW e \in 1 .. Len(d.elems.slots), NEW s \in Styles,
           NEW a, NEW b, StyleSet(d, r, e, s, a, b), FontsBacked(d), Holds(r.fonts, b)
    PROVE  FontsBacked(r)
  <1>1. /\ FontAt(r) = [FontAt(d) EXCEPT ![e] = b] /\ b \in Nat /\ r \in Collections
        /\ Shifted(d.fonts, r.fonts, Info(d, e).font, b)
    BY DEF StyleSet, Restyled
  <1>2. /\ FontAt(d) \in Holdings /\ FontAt(d)[e] = Info(d, e).font /\ e \in 1 .. MaxElems
    BY InfoIs
  <1>3. GoodCache(d.fonts, Fonts) /\ GoodCache(r.fonts, Fonts)
    BY <1>1, Typed
  <1>4. Shifted(d.fonts, r.fonts, FontAt(d)[e], b)
    BY <1>1, <1>2
  <1>5. Backed([FontAt(d) EXCEPT ![e] = b], r.fonts)
    BY <1>1, <1>2, <1>3, <1>4, BackedShifts, Assumed DEF FontsBacked
  <1> QED  BY <1>1, <1>5 DEF FontsBacked

\* A font that is held before and after is the same.
LEMMA StyleSetSameFont ==
    ASSUME NEW d, NEW r, NEW e, NEW s, NEW a, NEW b, StyleSet(d, r, e, s, a, b),
           Get(r.fonts, b) = FontOf[s], NEW m, Holds(d.fonts, m), Holds(r.fonts, m)
    PROVE  Get(r.fonts, m) = Get(d.fonts, m)
  <1>1. CASE d.fontMap[a] = 0
    <2>1. Took(d.fonts, r.fonts, b, FontOf[s])
      BY <1>1 DEF StyleSet
    <2> QED  BY <2>1 DEF Took
  <1>2. CASE d.fontMap[a] # 0
    BY <1>2 DEF StyleSet
  <1> QED  BY <1>1, <1>2

LEMMA StyleSetSameStyle ==
    ASSUME NEW d, NEW r, NEW e, NEW s, NEW a, NEW b, StyleSet(d, r, e, s, a, b),
           NEW m, Holds(d.styles, m), Holds(r.styles, m)
    PROVE  Get(r.styles, m) = Get(d.styles, m)
  <1>1. Took(d.styles, r.styles, a, s)
    BY DEF StyleSet
  <1> QED  BY <1>1 DEF Took

LEMMA StyleSetFollows ==
    ASSUME NEW d \in Collections, NEW r, NEW e \in 1 .. Len(d.elems.slots), NEW s \in Styles,
           NEW a, NEW b, StyleSet(d, r, e, s, a, b), StylesBacked(d), FontsBacked(d), Follows(d),
           Get(r.fonts, b) = FontOf[s]
    PROVE  StylesBacked(r) /\ FontsBacked(r) /\ Follows(r)
  <1>1. /\ r \in Collections /\ StyleAt(r) = [StyleAt(d) EXCEPT ![e] = a]
        /\ FontAt(r) = [FontAt(d) EXCEPT ![e] = b] /\ Holds(r.styles, a) /\ Get(r.styles, a) = s
    BY DEF StyleSet, Restyled, Took
  <1>2. /\ GoodCache(d.fonts, Fonts) /\ GoodCache(r.fonts, Fonts)
        /\ GoodCache(d.styles, Styles) /\ GoodCache(r.styles, Styles)
    BY <1>1, Typed
  <1>3. Holds(r.fonts, b)
    <2>1. Get(r.fonts, b) # Null
      BY Assumed
    <2> QED  BY <1>2, <2>1, HoldsSome, Assumed
  <1>4. StylesBacked(r) /\ FontsBacked(r)
    BY <1>3, StyleSetStyles, StyleSetFonts
  <1>5. /\ StyleAt(d) \in Holdings /\ FontAt(d) \in Holdings
        /\ StyleAt(r) \in Holdings /\ FontAt(r) \in Holdings
    BY <1>1, HoldingsOf
  <1>6. ASSUME NEW i \in 1 .. MaxElems, StyleAt(r)[i] # 0
        PROVE  Get(r.fonts, FontAt(r)[i]) = FontOf[Get(r.styles, StyleAt(r)[i])]
    <2>1. CASE i = e
      <3>1. StyleAt(r)[i] = a /\ FontAt(r)[i] = b
        BY <1>1, <1>5, <2>1 DEF Holdings
      <3> QED  BY <1>1, <3>1
    <2>2. CASE i # e
      <3>1. PICK n, f : n = StyleAt(d)[i] /\ f = FontAt(d)[i]
        OBVIOUS
      <3>2. StyleAt(r)[i] = n /\ FontAt(r)[i] = f /\ n # 0
        BY <1>1, <1>5, <1>6, <2>2, <3>1 DEF Holdings
      <3>3. Holds(d.styles, n) /\ Holds(r.styles, n)
        BY <1>2, <1>4, <1>5, <3>1, <3>2, BackedHolds, Assumed DEF StylesBacked
      <3>4. Get(d.fonts, f) = FontOf[Get(d.styles, n)]
        BY <3>1, <3>2 DEF Follows
      <3>5. Get(d.styles, n) \in Styles
        BY <1>2, <3>3, CountIs, Assumed
      <3>6. Holds(d.fonts, f) /\ f # 0
        BY <1>2, <3>4, <3>5, HoldsSome, Assumed
      <3>7. Holds(r.fonts, f)
        BY <1>2, <1>4, <1>5, <3>2, <3>6, BackedHolds, Assumed DEF FontsBacked
      <3>8. Get(r.fonts, f) = Get(d.fonts, f) /\ Get(r.styles, n) = Get(d.styles, n)
        BY <3>3, <3>6, <3>7, StyleSetSameFont, StyleSetSameStyle
      <3> QED  BY <3>2, <3>4, <3>8
    <2> QED  BY <2>1, <2>2
  <1> QED  BY <1>4, <1>6, Zenon DEF Follows

\* When the font map is right afterwards, the element got the font of its style.
LEMMA StyleSetFont ==
    ASSUME NEW d \in Collections, NEW r, NEW e, NEW s \in Styles, NEW a, NEW b, StyleSet(d, r, e, s, a, b),
           MapCurrent(r)
    PROVE  Get(r.fonts, b) = FontOf[s]
  <1>1. a \in StyleIndexes /\ b # 0 /\ Holds(r.styles, a) /\ Get(r.styles, a) = s
    BY DEF StyleSet, Took
  <1>2. CASE d.fontMap[a] = 0
    BY <1>2 DEF StyleSet, Took
  <1>3. CASE d.fontMap[a] # 0
    <2>1. b = r.fontMap[a]
      BY <1>3 DEF StyleSet
    <2> QED  BY <1>1, <2>1 DEF MapCurrent
  <1> QED  BY <1>2, <1>3

-----------------------------------------------------------------------------
(* The tables of slots.                                                    *)
NextOf(t) == [i \in DOMAIN t.slots |-> t.slots[i].next]

\* The free list runs through recycled slots.
FreeList(t) ==
    \E q : /\ Linked(q, t.free, NextOf(t))
           /\ \A i \in Range(q) : i \in DOMAIN t.slots /\ i \notin Live(t)

\* A table whose slot i is z.
WithSlot(t, r, i, z) ==
    /\ Len(r.slots) = Len(t.slots) /\ DOMAIN r.slots = DOMAIN t.slots
    /\ r.slots[i] = z /\ \A j \in DOMAIN t.slots : j # i => r.slots[j] = t.slots[j]

LEMMA WithSlotIs ==
    ASSUME NEW bound \in Nat, NEW t \in Tables(bound), NEW i \in DOMAIN t.slots,
           NEW z \in SlotsOf(bound), NEW f \in 0 .. bound
    PROVE  /\ [slots |-> [t.slots EXCEPT ![i] = z], free |-> f] \in Tables(bound)
           /\ WithSlot(t, [slots |-> [t.slots EXCEPT ![i] = z], free |-> f], i, z)
  <1> DEFINE R == SlotsOf(bound)
  <1>1. /\ t.slots \in Seq(R) /\ Len(t.slots) \in Nat /\ Len(t.slots) <= bound
        /\ DOMAIN t.slots = 1 .. Len(t.slots)
    BY TableTypes
  <1>2. PICK S : S = [t.slots EXCEPT ![i] = z]
    OBVIOUS
  <1>3. z \in R
    OBVIOUS
  <1> HIDE DEF R
  <1>4. /\ S \in Seq(R) /\ Len(S) = Len(t.slots) /\ DOMAIN S = DOMAIN t.slots
        /\ S[i] = z /\ \A j \in DOMAIN t.slots : j # i => S[j] = t.slots[j]
    BY <1>1, <1>2, <1>3
  <1>5. PICK r : r = [slots |-> S, free |-> f]
    OBVIOUS
  <1>6. r.slots = S /\ r \in [slots : Seq(R), free : 0 .. bound]
    BY <1>4, <1>5
  <1>7. r \in Tables(bound)
    BY <1>1, <1>4, <1>6 DEF Tables, R
  <1>8. WithSlot(t, r, i, z)
    BY <1>4, <1>6 DEF WithSlot
  <1> QED  BY <1>2, <1>5, <1>7, <1>8

\* What allocTinyNode does.
Allocated(t, r, at, p) ==
    /\ at \in DOMAIN r.slots /\ at \notin Live(t) /\ Live(r) = Live(t) \cup {at}
    /\ DOMAIN r.slots = DOMAIN t.slots \cup {at}
    /\ r.slots[at].parent = p
    /\ \A i \in DOMAIN t.slots :
           /\ i # at => r.slots[i].parent = t.slots[i].parent
           /\ r.slots[i].style = t.slots[i].style /\ r.slots[i].font = t.slots[i].font
    /\ at \notin DOMAIN t.slots => r.slots[at].style = 0 /\ r.slots[at].font = 0

LEMMA SlotFields ==
    ASSUME NEW bound \in Nat, NEW z \in SlotsOf(bound)
    PROVE  /\ z.state \in {"free", "live"} /\ z.next \in 0 .. bound /\ z.parent \in 0 .. MaxElems
           /\ z.style \in Nat /\ z.font \in Nat
           /\ z = [state |-> z.state, next |-> z.next, parent |-> z.parent,
                  style |-> z.style, font |-> z.font]
  BY DEF SlotsOf

\* A slot that is a record of style sy and font fo.
IsSlot(z, sy, fo) ==
    z = [state |-> z.state, next |-> z.next, parent |-> z.parent, style |-> sy, font |-> fo]

\* The slot that is taken or given back.
Puts(S, f, a, b, c, sy, fo) ==
    [S EXCEPT ![f].state = a, ![f].next = b, ![f].parent = c]
    = [S EXCEPT ![f] = [state |-> a, next |-> b, parent |-> c, style |-> sy, font |-> fo]]
LEMMA SlotPut ==
    ASSUME NEW S, NEW f \in DOMAIN S, NEW sy, NEW fo, IsSlot(S[f], sy, fo), NEW a, NEW b, NEW c
    PROVE  Puts(S, f, a, b, c, sy, fo)
  <1>0. PICK st, nx, pa :
            S[f] = [state |-> st, next |-> nx, parent |-> pa, style |-> sy, font |-> fo]
    BY Zenon DEF IsSlot
  <1>1. PICK S1, S2 : S1 = [S EXCEPT ![f].state = a] /\ S2 = [S1 EXCEPT ![f].next = b]
    OBVIOUS
  <1>2. S1[f] = [state |-> a, next |-> nx, parent |-> pa, style |-> sy, font |-> fo]
        /\ f \in DOMAIN S1
    BY <1>0, <1>1
  <1>3. S2[f] = [state |-> a, next |-> b, parent |-> pa, style |-> sy, font |-> fo]
    BY <1>1, <1>2
  <1>4. [S2[f] EXCEPT !.parent = c] = [state |-> a, next |-> b, parent |-> c, style |-> sy, font |-> fo]
    BY <1>3
  <1>5. [S EXCEPT ![f].state = a, ![f].next = b, ![f].parent = c] = [S2 EXCEPT ![f].parent = c]
    BY <1>1
  <1>6. [S2 EXCEPT ![f].parent = c] = [S2 EXCEPT ![f] = [S2[f] EXCEPT !.parent = c]]
    OBVIOUS
  <1> QED  BY <1>1, <1>4, <1>5, <1>6 DEF Puts

\* What recycleTinyNode does to the slots.
Recycled(t, r, i) ==
    /\ Len(r.slots) = Len(t.slots) /\ DOMAIN r.slots = DOMAIN t.slots /\ r.free = i
    /\ r.slots[i].state = "free" /\ r.slots[i].next = t.free
    /\ r.slots[i].style = t.slots[i].style /\ r.slots[i].font = t.slots[i].font
    /\ \A j \in DOMAIN t.slots : j # i => r.slots[j] = t.slots[j]

LEMMA RecycleTypes ==
    ASSUME NEW bound \in Nat, NEW t \in Tables(bound), NEW i \in DOMAIN t.slots,
           NEW r, r = Recycle(t, i)
    PROVE  r \in Tables(bound) /\ Recycled(t, r, i)
  <1>1. PICK S, z : S = t.slots /\ z = S[i]
    OBVIOUS
  <1>2. PICK w : w = [state |-> "free", next |-> t.free, parent |-> 0, style |-> z.style, font |-> z.font]
    OBVIOUS
  <1>3. /\ i \in DOMAIN S /\ DOMAIN S = 1 .. Len(S) /\ Len(S) \in Nat /\ Len(S) <= bound
        /\ t.free \in 0 .. bound /\ z \in SlotsOf(bound)
    BY <1>1, TableTypes
  <1>4. w \in SlotsOf(bound) /\ i \in 0 .. bound
    <2>1. z.style \in Nat /\ z.font \in Nat /\ 0 \in 0 .. MaxElems
      BY <1>3, SlotFields, Assumed
    <2> QED  BY <1>2, <1>3, <2>1 DEF SlotsOf
  <1>5. r = [slots |-> [t.slots EXCEPT ![i] = w], free |-> i]
    <2>1. IsSlot(S[i], z.style, z.font)
      BY <1>1, <1>3, SlotFields DEF IsSlot
    <2>2. [S EXCEPT ![i].state = "free", ![i].next = t.free, ![i].parent = 0] = [S EXCEPT ![i] = w]
      <3>1. Puts(S, i, "free", t.free, 0, z.style, z.font)
        BY <1>3, <2>1, SlotPut
      <3> QED  BY <1>2, <3>1 DEF Puts
    <2> QED  BY <1>1, <2>2 DEF Recycle
  <1>6. r \in Tables(bound) /\ WithSlot(t, r, i, w)
    BY <1>1, <1>3, <1>4, <1>5, WithSlotIs
  <1>7. Recycled(t, r, i)
    BY <1>1, <1>2, <1>5, <1>6 DEF WithSlot, Recycled
  <1> QED  BY <1>6, <1>7

LEMMA RecycleIs ==
    ASSUME NEW bound \in Nat, NEW t \in Tables(bound), FreeList(t), NEW i \in Live(t),
           NEW r, r = Recycle(t, i)
    PROVE  /\ r \in Tables(bound) /\ FreeList(r) /\ Live(r) = Live(t) \ {i}
           /\ DOMAIN r.slots = DOMAIN t.slots
           /\ \A j \in DOMAIN t.slots :
                  /\ j # i => r.slots[j].parent = t.slots[j].parent
                  /\ r.slots[j].style = t.slots[j].style /\ r.slots[j].font = t.slots[j].font
  <1>1. i \in DOMAIN t.slots
    BY DEF Live
  <1>2. r \in Tables(bound) /\ Recycled(t, r, i)
    BY <1>1, RecycleTypes
  <1>3. PICK S : S = t.slots
    OBVIOUS
  <1>7. /\ DOMAIN r.slots = DOMAIN S /\ r.free = i /\ i \in DOMAIN S
        /\ r.slots[i].state = "free" /\ r.slots[i].next = t.free
        /\ r.slots[i].style = S[i].style /\ r.slots[i].font = S[i].font
        /\ \A j \in DOMAIN S : j # i => r.slots[j] = S[j]
    BY <1>1, <1>2, <1>3 DEF Recycled
  <1>8. Live(r) = Live(t) \ {i}
    BY <1>3, <1>7 DEF Live
  <1>9. FreeList(r)
    <2>1. PICK q : /\ Linked(q, t.free, NextOf(t))
                   /\ \A j \in Range(q) : j \in DOMAIN t.slots /\ j \notin Live(t)
      BY DEF FreeList
    <2>2. PICK nx1, nx2 : nx1 = NextOf(t) /\ nx2 = NextOf(r)
      OBVIOUS
    <2>3. i \notin Range(q)
      BY <2>1
    <2>4. /\ DOMAIN nx2 = DOMAIN S /\ nx2[i] = t.free
          /\ \A j \in DOMAIN S : j # i => nx2[j] = nx1[j]
      BY <1>3, <1>7, <2>2 DEF NextOf
    <2>5. Range(q) \cup {i} \subseteq DOMAIN nx2
      BY <1>3, <1>7, <2>1, <2>4
    <2>6. \A y \in Range(q) : nx2[y] = nx1[y]
      BY <1>3, <2>1, <2>3, <2>4
    <2>7. Linked(<<i>> \o q, i, nx2) /\ Range(<<i>> \o q) = Range(q) \cup {i}
      BY <2>1, <2>2, <2>3, <2>4, <2>5, <2>6, LinkedCons
    <2>8. \A j \in Range(<<i>> \o q) : j \in DOMAIN r.slots /\ j \notin Live(r)
      BY <1>3, <1>7, <1>8, <2>1, <2>7
    <2> QED  BY <1>7, <2>2, <2>7, <2>8 DEF FreeList
  <1> QED  BY <1>2, <1>3, <1>7, <1>8, <1>9

LEMMA AllocIs ==
    ASSUME NEW bound \in Nat, NEW t \in Tables(bound), FreeList(t),
           t.free # 0 \/ Len(t.slots) < bound, NEW p \in 0 .. MaxElems,
           NEW r, r = Alloc(t, p), NEW at, at = AllocAt(t)
    PROVE  r \in Tables(bound) /\ FreeList(r) /\ Allocated(t, r, at, p)
  <1>0. PICK q : /\ Linked(q, t.free, NextOf(t))
                 /\ \A j \in Range(q) : j \in DOMAIN t.slots /\ j \notin Live(t)
    BY DEF FreeList
  <1>1. PICK S, nx1, nx2 : S = t.slots /\ nx1 = NextOf(t) /\ nx2 = NextOf(r)
    OBVIOUS
  <1>2. /\ S \in Seq(SlotsOf(bound)) /\ DOMAIN S = 1 .. Len(S) /\ Len(S) \in Nat /\ Len(S) <= bound
        /\ t.free \in 0 .. bound /\ \A j \in DOMAIN S : S[j] \in SlotsOf(bound)
    BY <1>1, TableTypes
  <1>3. CASE t.free # 0
    <2>1. PICK z, w : /\ z = S[at]
                      /\ w = [state |-> "live", next |-> 0, parent |-> p, style |-> z.style, font |-> z.font]
      OBVIOUS
    <2>2. at = t.free
      BY <1>3 DEF AllocAt
    <2>3. q # <<>> /\ q[1] = at /\ at \in Range(q)
      <3>1. q # <<>> /\ t.free = q[1]
        BY <1>0, <1>3 DEF Linked
      <3>2. q \in Seq(DOMAIN NextOf(t)) /\ Len(q) \in Nat /\ (q = <<>> <=> Len(q) = 0)
        BY <1>0, EmptySeq DEF Linked
      <3>3. 1 \in 1 .. Len(q)
        BY <3>1, <3>2
      <3> QED  BY <2>2, <3>1, <3>2, <3>3, RangeIs
    <2>4. at \in DOMAIN S /\ at \notin Live(t) /\ z \in SlotsOf(bound)
      BY <1>0, <1>1, <1>2, <2>1, <2>3
    <2>5. w \in SlotsOf(bound) /\ S[at].next \in 0 .. bound
      <3>1. z.style \in Nat /\ z.font \in Nat /\ z.next \in 0 .. bound
        BY <2>4, SlotFields
      <3> QED  BY <2>1, <3>1 DEF SlotsOf
    <2>6. r = [slots |-> [t.slots EXCEPT ![at] = w], free |-> S[at].next]
      <3>1. IsSlot(S[at], z.style, z.font)
        BY <2>1, <2>4, SlotFields DEF IsSlot
      <3>2. [S EXCEPT ![at].state = "live", ![at].next = 0, ![at].parent = p] = [S EXCEPT ![at] = w]
        <4>1. Puts(S, at, "live", 0, p, z.style, z.font)
          BY <2>4, <3>1, SlotPut
        <4> QED  BY <2>1, <4>1 DEF Puts
      <3> QED  BY <1>1, <1>3, <2>2, <3>2 DEF Alloc
    <2>7. r \in Tables(bound) /\ WithSlot(t, r, at, w)
      BY <1>1, <2>4, <2>5, <2>6, WithSlotIs
    <2>8. /\ DOMAIN r.slots = DOMAIN S /\ r.slots[at] = w /\ r.free = S[at].next
          /\ \A j \in DOMAIN S : j # at => r.slots[j] = S[j]
      BY <1>1, <2>6, <2>7 DEF WithSlot
    <2>9. Live(r) = Live(t) \cup {at}
      BY <1>1, <2>1, <2>4, <2>8 DEF Live
    <2>10. FreeList(r)
      <3>1. /\ DOMAIN nx1 = DOMAIN S /\ nx1[at] = S[at].next /\ DOMAIN nx2 = DOMAIN S
            /\ \A j \in DOMAIN S : j # at => nx2[j] = nx1[j]
        BY <1>1, <2>4, <2>8 DEF NextOf
      <3>2. at \notin Range(Tail(q)) /\ Range(Tail(q)) \subseteq Range(q)
        <4>1. q \in Seq(DOMAIN nx1) /\ IsInjective(q) /\ Head(q) = q[1]
          BY <1>0, <1>1, <2>3 DEF Linked
        <4> QED  BY <2>3, <4>1, TailKeeps
      <3>3. /\ Range(Tail(q)) \subseteq DOMAIN nx2
            /\ \A x \in Range(Tail(q)) : nx2[x] = nx1[x]
        BY <1>0, <1>1, <3>1, <3>2
      <3>4. Linked(Tail(q), nx1[at], nx2)
        BY <1>0, <1>1, <2>2, <2>3, <3>3, LinkedTail
      <3>5. \A j \in Range(Tail(q)) : j \in DOMAIN r.slots /\ j \notin Live(r)
        BY <1>0, <1>1, <2>8, <2>9, <3>2
      <3> QED  BY <1>1, <2>8, <3>1, <3>4, <3>5 DEF FreeList
    <2>11. Allocated(t, r, at, p)
      BY <1>1, <2>1, <2>4, <2>8, <2>9 DEF Allocated
    <2> QED  BY <2>7, <2>10, <2>11
  <1>4. CASE t.free = 0
    <2>1. PICK w : w = Slot(p)
      OBVIOUS
    <2>2. at = Len(S) + 1 /\ Len(S) < bound
      BY <1>1, <1>4 DEF AllocAt
    <2>3. /\ w \in SlotsOf(bound) /\ w.state = "live" /\ w.parent = p /\ w.style = 0 /\ w.font = 0
      BY <2>1 DEF Slot, SlotsOf
    <2>4. r = [slots |-> Append(S, w), free |-> 0]
      <3>1. t = [slots |-> S, free |-> 0]
        BY <1>1, <1>4, TableTypes
      <3>2. r = [t EXCEPT !.slots = Append(@, w)]
        BY <1>4, <2>1 DEF Alloc
      <3> QED  BY <3>1, <3>2
    <2>5. PICK T : T = Append(S, w)
      OBVIOUS
    <2>6. /\ T \in Seq(SlotsOf(bound)) /\ Len(T) = Len(S) + 1 /\ T[at] = w
          /\ DOMAIN T = 1 .. Len(S) + 1 /\ \A j \in 1 .. Len(S) : T[j] = S[j]
      <3> DEFINE R == SlotsOf(bound)
      <3>1. S \in Seq(R) /\ w \in R
        BY <1>2, <2>3
      <3> HIDE DEF R
      <3>2. /\ T \in Seq(R) /\ Len(T) = Len(S) + 1 /\ T[at] = w
            /\ DOMAIN T = 1 .. Len(S) + 1 /\ \A j \in 1 .. Len(S) : T[j] = S[j]
        BY <1>2, <2>2, <2>5, <3>1
      <3> QED  BY <3>2 DEF R
    <2>7. r.slots = T /\ r.free = 0 /\ r \in [slots : Seq(SlotsOf(bound)), free : 0 .. bound]
      BY <2>4, <2>5, <2>6
    <2>8. r \in Tables(bound)
      BY <1>2, <2>2, <2>6, <2>7 DEF Tables
    <2>9. Live(r) = Live(t) \cup {at} /\ at \notin DOMAIN S /\ DOMAIN T = DOMAIN S \cup {at}
      <3>1. at \notin DOMAIN S /\ DOMAIN T = DOMAIN S \cup {at}
        BY <1>2, <2>2, <2>6
      <3> QED  BY <1>1, <1>2, <2>3, <2>6, <2>7, <3>1 DEF Live
    <2>10. FreeList(r)
      <3>1. Linked(<<>>, 0, NextOf(r)) /\ Range(<<>>) = {}
        BY NothingLinked
      <3> QED  BY <2>7, <3>1 DEF FreeList
    <2>11. Allocated(t, r, at, p)
      <3>1. \A i \in DOMAIN S : T[i] = S[i] /\ i # at
        BY <1>2, <2>6, <2>9
      <3>2. at \notin Live(t)
        BY <1>1, <2>9 DEF Live
      <3> QED  BY <1>1, <2>3, <2>6, <2>7, <2>9, <3>1, <3>2 DEF Allocated
    <2> QED  BY <2>8, <2>10, <2>11
  <1> QED  BY <1>3, <1>4

-----------------------------------------------------------------------------
(* The tree, and the walks over its elements.                              *)

Bare(d) == \A e \in 1 .. MaxElems : e \notin Elements(d) => StyleAt(d)[e] = 0 /\ FontAt(d)[e] = 0

\* The tree is sound.
Tree(d) ==
    /\ FreeList(d.elems) /\ FreeList(d.texts)
    /\ Root \in Elements(d) /\ Info(d, Root).parent = 0
    /\ \A e \in Elements(d) \ {Root} : Info(d, e).parent \in Elements(d)
    /\ \A i \in Live(d.texts) : d.texts.slots[i].parent \in Elements(d)

LEMMA ElementsAre ==
    ASSUME NEW d \in Collections
    PROVE  /\ DOMAIN d.elems.slots = 1 .. Len(d.elems.slots) /\ Len(d.elems.slots) \in Nat
           /\ Len(d.elems.slots) <= MaxElems /\ MaxElems \in Nat
           /\ \A e \in Elements(d) : e \in 1 .. Len(d.elems.slots) /\ e \in 1 .. MaxElems
           /\ \A e \in 1 .. MaxElems : e \notin 1 .. Len(d.elems.slots) => StyleAt(d)[e] = 0 /\ FontAt(d)[e] = 0
           /\ \A e \in 1 .. Len(d.elems.slots) : /\ StyleAt(d)[e] = Info(d, e).style
                                                /\ FontAt(d)[e] = Info(d, e).font /\ e \in 1 .. MaxElems
  <1>1. d.elems \in Tables(MaxElems) /\ MaxElems \in Nat
    BY Typed, Assumed
  <1>2. DOMAIN d.elems.slots = 1 .. Len(d.elems.slots) /\ Len(d.elems.slots) \in Nat
        /\ Len(d.elems.slots) <= MaxElems
    BY <1>1, TableTypes
  <1> QED  BY <1>1, <1>2 DEF Elements, Live, StyleAt, FontAt, Info

LEMMA SameTreeKeeps ==
    ASSUME NEW d \in Collections, NEW r \in Collections, SameTree(d, r)
    PROVE  /\ Elements(r) = Elements(d) /\ DOMAIN r.elems.slots = DOMAIN d.elems.slots
           /\ Len(r.elems.slots) = Len(d.elems.slots)
           /\ \A e \in 1 .. Len(d.elems.slots) : Info(r, e).parent = Info(d, e).parent
           /\ r.texts = d.texts
           /\ Tree(d) => Tree(r)
  <1>1. /\ DOMAIN d.elems.slots = 1 .. Len(d.elems.slots)
        /\ DOMAIN r.elems.slots = 1 .. Len(r.elems.slots)
    BY ElementsAre
  <1>2. /\ r.texts = d.texts /\ r.elems.free = d.elems.free
        /\ Len(r.elems.slots) = Len(d.elems.slots)
        /\ \A e \in 1 .. Len(d.elems.slots) :
               /\ r.elems.slots[e].state = d.elems.slots[e].state
               /\ r.elems.slots[e].next = d.elems.slots[e].next
               /\ r.elems.slots[e].parent = d.elems.slots[e].parent
    BY DEF SameTree, Info
  <1>3. Elements(r) = Elements(d) /\ DOMAIN r.elems.slots = DOMAIN d.elems.slots
    BY <1>1, <1>2 DEF Elements, Live
  <1>4. NextOf(r.elems) = NextOf(d.elems)
    BY <1>1, <1>2 DEF NextOf
  <1>5. FreeList(d.elems) => FreeList(r.elems)
    BY <1>2, <1>3, <1>4 DEF FreeList, Elements
  <1>6. \A e \in 1 .. Len(d.elems.slots) : Info(r, e).parent = Info(d, e).parent
    BY <1>2 DEF Info
  <1>7. \A e \in Elements(d) : Info(r, e).parent = Info(d, e).parent
    BY <1>6, ElementsAre
  <1>8. Tree(d) => Tree(r)
    BY <1>2, <1>3, <1>5, <1>7 DEF Tree
  <1> QED  BY <1>2, <1>3, <1>6, <1>8

LEMMA Quotient ==
    ASSUME NEW a \in Nat, NEW k \in Nat \ {0}
    PROVE  /\ a \div k \in Nat
           /\ k * (a \div k) <= a
           /\ a < k * (a \div k) + k
  OBVIOUS

LEMMA Divided ==
    ASSUME NEW n \in Nat, NEW p \in Nat \ {0}, n % p # 0
    PROVE  /\ (n + p - 1) \div p = n \div p + 1 /\ n \div p \in Nat
           /\ \A e \in Nat : e <= n => e \div p < (n + p - 1) \div p
  <1> DEFINE q == n \div p
             k == n % p
  <1>1. q \in Nat /\ k \in Nat /\ k < p /\ n = p * q + k
    OBVIOUS
  <1>2. (n + p - 1) \div p = q + 1
    OBVIOUS
  <1>3. ASSUME NEW e \in Nat, e <= n  PROVE e \div p <= n \div p
    BY <1>3, Quotient
  <1> QED  BY <1>1, <1>2, <1>3

\* All walks start where they reach every element.
Walks(d) == Len(d.elems.slots) % PartLen # 0

LEMMA WalkedIs ==
    ASSUME NEW d \in Collections, Walks(d)
    PROVE  Walked(d) = Elements(d)
  <1>1. Len(d.elems.slots) \in Nat /\ PartLen \in Nat \ {0}
        /\ \A e \in Elements(d) : e \in Nat /\ e <= Len(d.elems.slots)
    BY ElementsAre, Assumed
  <1>2. \A e \in Nat : e <= Len(d.elems.slots) =>
            e \div PartLen < (Len(d.elems.slots) + PartLen - 1) \div PartLen
    BY <1>1, Divided DEF Walks
  <1> QED  BY <1>1, <1>2 DEF Walked

\* A table where the slots of W have lost their style and font.
Stripped(t, r, W) ==
    /\ r.free = t.free /\ Len(r.slots) = Len(t.slots)
    /\ \A i \in 1 .. Len(t.slots) :
           /\ r.slots[i].state = t.slots[i].state /\ r.slots[i].next = t.slots[i].next
           /\ r.slots[i].parent = t.slots[i].parent
           /\ r.slots[i].style = IF i \in W THEN 0 ELSE t.slots[i].style
           /\ r.slots[i].font = IF i \in W THEN 0 ELSE t.slots[i].font

StripSlots(S, W) == [e \in DOMAIN S |-> IF e \in W THEN [S[e] EXCEPT !.style = 0, !.font = 0] ELSE S[e]]

LEMMA StripsIs ==
    ASSUME NEW bound \in Nat, NEW t \in Tables(bound), NEW W, NEW r,
           r = [slots |-> StripSlots(t.slots, W), free |-> t.free]
    PROVE  r \in Tables(bound) /\ Stripped(t, r, W)
  <1>1. PICK S, R : S = StripSlots(t.slots, W) /\ R = SlotsOf(bound)
    OBVIOUS
  <1>2. /\ t.slots \in Seq(R) /\ Len(t.slots) \in Nat /\ Len(t.slots) <= bound
        /\ DOMAIN t.slots = 1 .. Len(t.slots) /\ t.free \in 0 .. bound
        /\ \A e \in 1 .. Len(t.slots) : t.slots[e] \in R
    BY <1>1, TableTypes
  <1>3. ASSUME NEW z \in R
        PROVE  LET w == [z EXCEPT !.style = 0, !.font = 0] IN
               /\ w \in R /\ w.state = z.state /\ w.next = z.next /\ w.parent = z.parent
               /\ w.style = 0 /\ w.font = 0
    <2>1. PICK u : u = [z EXCEPT !.style = 0]
      OBVIOUS
    <2>2. PICK w : w = [u EXCEPT !.font = 0]
      OBVIOUS
    <2>3. /\ z.state \in {"free", "live"} /\ z.next \in 0 .. bound /\ z.parent \in 0 .. MaxElems
          /\ z = [state |-> z.state, next |-> z.next, parent |-> z.parent,
                  style |-> z.style, font |-> z.font]
      BY <1>1, SlotFields
    <2>4. u = [state |-> z.state, next |-> z.next, parent |-> z.parent, style |-> 0, font |-> z.font]
      BY <2>1, <2>3
    <2>5. w = [state |-> z.state, next |-> z.next, parent |-> z.parent, style |-> 0, font |-> 0]
      BY <2>2, <2>4
    <2>6. w \in R
      BY <1>1, <2>3, <2>5 DEF SlotsOf
    <2>7. w = [z EXCEPT !.style = 0, !.font = 0]
      BY <2>1, <2>2
    <2> QED  BY <2>5, <2>6, <2>7
  <1>4. \A e \in 1 .. Len(t.slots) :
            S[e] = IF e \in W THEN [t.slots[e] EXCEPT !.style = 0, !.font = 0] ELSE t.slots[e]
    BY <1>1, <1>2 DEF StripSlots
  <1>5. \A e \in 1 .. Len(t.slots) : S[e] \in R
    BY <1>2, <1>3, <1>4
  <1>6. S \in Seq(R) /\ Len(S) = Len(t.slots)
    <2>1. DOMAIN S = 1 .. Len(t.slots) /\ S = [e \in 1 .. Len(t.slots) |-> S[e]]
      BY <1>1, <1>2 DEF StripSlots
    <2> HIDE DEF StripSlots
    <2>2. S \in [1 .. Len(t.slots) -> R]
      BY <1>5, <2>1
    <2> QED  BY <1>2, <2>2
  <1>7. r.slots = S /\ r.free = t.free /\ r \in [slots : Seq(R), free : 0 .. bound]
    BY <1>1, <1>2, <1>6
  <1>8. r \in Tables(bound)
    BY <1>1, <1>2, <1>6, <1>7 DEF Tables
  <1>9. ASSUME NEW i \in 1 .. Len(t.slots)
        PROVE  /\ S[i].state = t.slots[i].state /\ S[i].next = t.slots[i].next
               /\ S[i].parent = t.slots[i].parent
               /\ S[i].style = IF i \in W THEN 0 ELSE t.slots[i].style
               /\ S[i].font = IF i \in W THEN 0 ELSE t.slots[i].font
    <2>1. PICK z \in R : z = t.slots[i]
      BY <1>2
    <2>2. CASE i \in W
      BY <1>3, <1>4, <2>1, <2>2
    <2>3. CASE i \notin W
      BY <1>4, <2>3
    <2> QED  BY <2>2, <2>3
  <1> QED  BY <1>6, <1>7, <1>8, <1>9 DEF Stripped

\* All elements have lost their style and font.
LEMMA StrippedIs ==
    ASSUME NEW d \in Collections, NEW t \in Tables(MaxElems), Stripped(d.elems, t, Elements(d)), Bare(d),
           NEW y, GoodCache(y, Styles), Len(y.index) <= Cardinality(Styles),
           NEW z, GoodCache(z, Fonts), NEW mp \in [StyleIndexes -> Nat],
           NEW r, Consists(r, t, d.texts, y, z, mp, NoHash)
    PROVE  /\ r \in Collections /\ SameTree(d, r)
           /\ StyleAt(r) = NoHoldings /\ FontAt(r) = NoHoldings
           /\ r.styles = y /\ r.fonts = z /\ r.fontMap = mp /\ r.hash = NoHash
  <1>1. /\ r.elems = t /\ r.texts = d.texts /\ r.styles = y /\ r.fonts = z /\ r.fontMap = mp
        /\ r.hash = NoHash
        /\ r = [elems |-> t, texts |-> d.texts, styles |-> y, fonts |-> z, fontMap |-> mp, hash |-> NoHash]
    BY DEF Consists, Doc
  <1>2. d.texts \in Tables(MaxTexts) /\ NoHash \in Hashes
    BY Typed DEF Hashes
  <1>3. r \in Collections
    BY <1>1, <1>2, MakesCollection
  <1>4. /\ r.elems.free = d.elems.free /\ Len(r.elems.slots) = Len(d.elems.slots)
        /\ \A i \in 1 .. Len(d.elems.slots) :
               /\ Info(r, i).state = Info(d, i).state /\ Info(r, i).next = Info(d, i).next
               /\ Info(r, i).parent = Info(d, i).parent
               /\ Info(r, i).style = IF i \in Elements(d) THEN 0 ELSE Info(d, i).style
               /\ Info(r, i).font = IF i \in Elements(d) THEN 0 ELSE Info(d, i).font
    BY <1>1 DEF Stripped, Info
  <1>5. SameTree(d, r)
    BY <1>1, <1>4 DEF SameTree
  <1>6. ASSUME NEW i \in 1 .. MaxElems  PROVE StyleAt(r)[i] = 0 /\ FontAt(r)[i] = 0
    <2>1. CASE i \in 1 .. Len(d.elems.slots)
      <3>1. /\ StyleAt(r)[i] = Info(r, i).style /\ FontAt(r)[i] = Info(r, i).font
            /\ StyleAt(d)[i] = Info(d, i).style /\ FontAt(d)[i] = Info(d, i).font
        BY <1>3, <1>4, <2>1, ElementsAre
      <3>2. i \notin Elements(d) => Info(d, i).style = 0 /\ Info(d, i).font = 0
        BY <3>1 DEF Bare
      <3> QED  BY <1>4, <2>1, <3>1, <3>2
    <2>2. CASE i \notin 1 .. Len(d.elems.slots)
      BY <1>3, <1>4, <2>2, ElementsAre
    <2> QED  BY <2>1, <2>2
  <1>7. StyleAt(r) = NoHoldings /\ FontAt(r) = NoHoldings
    BY <1>6 DEF StyleAt, FontAt, NoHoldings
  <1> QED  BY <1>1, <1>3, <1>5, <1>7

LEMMA DropStylesIs ==
    ASSUME NEW d \in Collections, Walks(d), Bare(d), NEW r, r = DropStyles(d)
    PROVE  /\ r \in Collections /\ SameTree(d, r)
           /\ StyleAt(r) = NoHoldings /\ FontAt(r) = NoHoldings
           /\ r.styles = EmptyCache /\ r.fonts = EmptyCache /\ r.fontMap = d.fontMap /\ r.hash = NoHash
  <1>1. PICK S, t : S = StripSlots(d.elems.slots, Walked(d)) /\ t = [slots |-> S, free |-> d.elems.free]
    OBVIOUS
  <1>2. /\ d.elems \in Tables(MaxElems) /\ d.fontMap \in [StyleIndexes -> Nat] /\ MaxElems \in Nat
        /\ d = [elems |-> d.elems, texts |-> d.texts, styles |-> d.styles, fonts |-> d.fonts,
                fontMap |-> d.fontMap, hash |-> d.hash]
        /\ d.elems = [slots |-> d.elems.slots, free |-> d.elems.free]
    BY Typed, Assumed, TableTypes
  <1>3. t \in Tables(MaxElems) /\ Stripped(d.elems, t, Elements(d))
    BY <1>1, <1>2, StripsIs, WalkedIs
  <1>4. /\ GoodCache(EmptyCache, Styles) /\ GoodCache(EmptyCache, Fonts)
        /\ Len(EmptyCache.index) <= Cardinality(Styles)
    BY EmptyIsGood, Assumed
  <1>5. PICK d1, d2, d3, d4 :
            /\ d1 = [d EXCEPT !.styles = EmptyCache] /\ d2 = [d1 EXCEPT !.fonts = EmptyCache]
            /\ d3 = [d2 EXCEPT !.hash = NoHash] /\ d4 = [d3 EXCEPT !.elems = t]
    OBVIOUS
  <1>6. Consists(d, d.elems, d.texts, d.styles, d.fonts, d.fontMap, d.hash)
    BY <1>2 DEF Consists, Doc
  <1>7. Consists(d1, d.elems, d.texts, EmptyCache, d.fonts, d.fontMap, d.hash)
    BY <1>5, <1>6, FieldSet
  <1>8. Consists(d2, d.elems, d.texts, EmptyCache, EmptyCache, d.fontMap, d.hash)
    BY <1>5, <1>7, FieldSet
  <1>9. Consists(d3, d.elems, d.texts, EmptyCache, EmptyCache, d.fontMap, NoHash)
    <2>1. Consists([d2 EXCEPT !.hash = NoHash], d.elems, d.texts, EmptyCache, EmptyCache, d.fontMap, NoHash)
      BY <1>8, FieldSet
    <2> QED  BY <1>5, <2>1, Zenon
  <1>10. Consists(d4, t, d.texts, EmptyCache, EmptyCache, d.fontMap, NoHash)
    <2>1. Consists([d3 EXCEPT !.elems = t], t, d.texts, EmptyCache, EmptyCache, d.fontMap, NoHash)
      BY <1>9, FieldSet
    <2> QED  BY <1>5, <2>1, Zenon
  <1>11. r = d4
    <2>1. r = [[[[d EXCEPT !.styles = EmptyCache] EXCEPT !.fonts = EmptyCache] EXCEPT !.hash = NoHash]
                  EXCEPT !.elems.slots = [e \in DOMAIN @ |->
                     IF e \in Walked(d) THEN [@[e] EXCEPT !.style = 0, !.font = 0] ELSE @[e]]]
      BY DEF DropStyles
    <2>2. r = [d3 EXCEPT !.elems.slots = StripSlots(@, Walked(d))]
      <3>1. [[[d EXCEPT !.styles = EmptyCache] EXCEPT !.fonts = EmptyCache] EXCEPT !.hash = NoHash] = d3
        BY <1>5, Zenon
      <3>2. r = [d3 EXCEPT !.elems.slots = [e \in DOMAIN @ |->
                     IF e \in Walked(d) THEN [@[e] EXCEPT !.style = 0, !.font = 0] ELSE @[e]]]
        BY <2>1, <3>1, Zenon
      <3> QED  BY <3>2, Zenon DEF StripSlots
    <2>3. d3.elems = d.elems
      BY <1>9 DEF Consists, Doc
    <2>4. [d3 EXCEPT !.elems.slots = StripSlots(@, Walked(d))] = [d3 EXCEPT !.elems.slots = S]
      BY <1>1, <2>3
    <2>5. [d3 EXCEPT !.elems.slots = S] = [d3 EXCEPT !.elems = [d.elems EXCEPT !.slots = S]]
      BY <2>3
    <2>6. [d.elems EXCEPT !.slots = S] = t
      BY <1>1, <1>2
    <2> QED  BY <1>5, <2>2, <2>4, <2>5, <2>6
  <1> QED  BY <1>2, <1>3, <1>4, <1>10, <1>11, StrippedIs

-----------------------------------------------------------------------------
(* calcStyleHash.                                                          *)

LEMMA ValueIs ==
    ASSUME NEW d \in Collections, NEW e
    PROVE  ValueOf(d, e) \in Values
  <1>1. GoodCache(d.styles, Styles) /\ GoodCache(d.fonts, Fonts)
    BY Typed
  <1>2. Get(d.styles, Info(d, e).style) \in Styles \cup {Null}
    BY <1>1, CountIs, Assumed
  <1>3. Get(d.fonts, Info(d, e).font) \in Fonts \cup {Null}
    BY <1>1, CountIs, Assumed
  <1> QED  BY <1>2, <1>3 DEF ValueOf, Values

LEMMA HashIs ==
    ASSUME NEW d \in Collections
    PROVE  HashOf(d) \in Hashes /\ Walked(d) \subseteq Elements(d)
  <1>1. Walked(d) \subseteq Elements(d) /\ Walked(d) \in SUBSET (1 .. MaxElems)
    BY ElementsAre DEF Walked
  <1>2. HashOf(d) \in [Walked(d) -> Values]
    BY ValueIs DEF HashOf
  <1> QED  BY <1>1, <1>2 DEF Hashes

LEMMA PlacesAre ==
    ASSUME NEW bound \in Nat, NEW t \in Tables(bound)
    PROVE  /\ Len(t.slots) \in Nat /\ DOMAIN Places(t) = 1 .. Len(t.slots)
           /\ Len(Places(t)) = Len(t.slots)
           /\ \A k \in 1 .. Len(t.slots) : Places(t)[k] = k
  BY TableTypes DEF Places

\* What calcStyleHash stores.
LEMMA HashSet ==
    ASSUME NEW d \in Collections, NEW v \in Hashes, NEW r, r = [d EXCEPT !.hash = v]
    PROVE  /\ r \in Collections /\ r.elems = d.elems /\ r.texts = d.texts /\ r.styles = d.styles
           /\ r.fonts = d.fonts /\ r.fontMap = d.fontMap /\ r.hash = v
  <1>1. Consists(d, d.elems, d.texts, d.styles, d.fonts, d.fontMap, d.hash)
    BY Typed DEF Consists, Doc
  <1>2. Consists(r, d.elems, d.texts, d.styles, d.fonts, d.fontMap, v)
    BY <1>1, FieldSet
  <1>3. r = Doc(d.elems, d.texts, d.styles, d.fonts, d.fontMap, v)
    BY <1>2 DEF Consists
  <1> QED  BY <1>3, Typed, MakesCollection DEF Doc

\* One round of calcStyleHash.
Counted(W, x, e) == IF e \in W THEN GetNodeStyle(x, e) ELSE x

LEMMA CalcRounds ==
    ASSUME NEW d \in Collections, d.hash = NoHash
    PROVE  \E r : /\ r[0] = [d EXCEPT !.hash = HashOf(d)]
                  /\ \A k \in 1 .. Len(d.elems.slots) : r[k] = Counted(Walked(d), r[k - 1], Places(d.elems)[k])
                  /\ CalcStyleHash(d) = r[Len(d.elems.slots)]
  <1> DEFINE n == Len(d.elems.slots)
             base == [d EXCEPT !.hash = HashOf(d)]
             list == Places(d.elems)
             Step(x, f) == Counted(Walked(d), x, f)
             it == CHOOSE f : f = [s \in SUBSET (1 .. n) |->
                                      IF s = {} THEN base
                                      ELSE Step(f[s \ {Max(s)}], list[Max(s)])]
             G == [k \in 1 .. n |-> [x \in Collections |-> Step(x, list[k])]]
  <1>1. n \in Nat /\ DOMAIN list = 1 .. n /\ \A k \in 1 .. n : list[k] = k
    BY PlacesAre, Typed, Assumed
  <1>2. base \in Collections
    BY HashIs, HashSet
  <1>3. G \in [1 .. n -> [Collections -> Collections]]
    <2>1. ASSUME NEW k \in 1 .. n, NEW x \in Collections  PROVE Step(x, list[k]) \in Collections
      BY GetNodeStyleIs DEF Counted, Referenced
    <2> HIDE DEF n, list, Step
    <2> QED  BY <2>1
  <1>4. CalcStyleHash(d) = it[1 .. n]
    <2>1. DOMAIN list = 1 .. n
      BY <1>1
    <2> QED  BY <2>1, Zenon DEF CalcStyleHash, Counted, FoldLeft, MapThenFoldSet
  <1>5. \E f : f = [s \in SUBSET (1 .. n) |->
                       IF s = {} THEN base ELSE Step(f[s \ {Max(s)}], list[Max(s)])]
    <2>0. n \in Nat
      BY <1>1
    <2> HIDE DEF base, G, n, Step, list
    <2>1. PICK f : FoldsOver(f, Collections, base, n, G)
      BY <2>0, <1>2, <1>3, FoldExists, Zenon
    <2>2. ASSUME NEW s \in SUBSET (1 .. n), s # {}
          PROVE  G[Max(s)][f[s \ {Max(s)}]] = Step(f[s \ {Max(s)}], list[Max(s)])
      <3>1. Max(s) \in 1 .. n
        BY <2>0, <2>2, LargestIn
      <3>2. f[s \ {Max(s)}] \in Collections
        BY <2>1, <3>1 DEF FoldsOver
      <3> QED  BY <3>1, <3>2 DEF G
    <2>3. [s \in SUBSET (1 .. n) |->
              IF s = {} THEN base ELSE G[Max(s)][f[s \ {Max(s)}]]]
          = [s \in SUBSET (1 .. n) |->
                IF s = {} THEN base ELSE Step(f[s \ {Max(s)}], list[Max(s)])]
      BY <2>2, Zenon
    <2>4. f = [s \in SUBSET (1 .. n) |->
                IF s = {} THEN base ELSE Step(f[s \ {Max(s)}], list[Max(s)])]
      BY <2>1, <2>3, Zenon DEF FoldsOver
    <2> QED  BY <2>4, Zenon
  <1>6. it = [s \in SUBSET (1 .. n) |->
                 IF s = {} THEN base ELSE Step(it[s \ {Max(s)}], list[Max(s)])]
    <2> HIDE DEF base, n, Step, list
    <2> QED  BY <1>5, Zenon
  <1> DEFINE r == [k \in 0 .. n |-> it[1 .. k]]
  <1> HIDE DEF it, base, Step, n, list
  <1>7. r[0] = base
    BY <1>1, <1>6
  <1>8. ASSUME NEW k \in 1 .. n  PROVE r[k] = Step(r[k - 1], list[k])
    <2>1. k \in 0 .. n /\ k - 1 \in 0 .. n
      BY <1>1
    <2>2. /\ 1 .. k \in SUBSET (1 .. n) /\ 1 .. k # {} /\ Max(1 .. k) = k
          /\ (1 .. k) \ {k} = 1 .. k - 1
      BY <1>1, FoldPlaces
    <2>3. it[1 .. k] = IF 1 .. k = {} THEN base
                       ELSE Step(it[(1 .. k) \ {Max(1 .. k)}], list[Max(1 .. k)])
      BY <1>6, <2>2, Zenon
    <2>4. it[1 .. k] = Step(it[1 .. k - 1], list[k])
      BY <2>2, <2>3, Zenon
    <2> QED  BY <2>1, <2>4, Zenon
  <1>9. r[n] = it[1 .. n]
    BY <1>1
  <1>10. \E r1 : /\ r1[0] = base /\ \A k \in 1 .. n : r1[k] = Step(r1[k - 1], list[k])
                 /\ CalcStyleHash(d) = r1[n]
    <2> HIDE DEF r
    <2> QED  BY <1>4, <1>7, <1>8, <1>9, Zenon
  <1> QED  BY <1>10, Zenon DEF base, Step, n, list

\* What the first k elements hold.
Prefix(h, k) == [e \in 1 .. MaxElems |-> IF e <= k THEN h[e] ELSE 0]

LEMMA PrefixIs ==
    ASSUME NEW h \in Holdings
    PROVE  /\ Prefix(h, 0) = NoHoldings
           /\ \A k \in 0 .. MaxElems : Prefix(h, k) \in Holdings
           /\ \A k \in 1 .. MaxElems : /\ Prefix(h, k - 1)[k] = 0
                                       /\ Prefix(h, k) = [Prefix(h, k - 1) EXCEPT ![k] = h[k]]
           /\ \A m \in 0 .. MaxElems : (\A e \in m + 1 .. MaxElems : h[e] = 0) => Prefix(h, m) = h
  <1>1. MaxElems \in Nat /\ h = [e \in 1 .. MaxElems |-> h[e]] /\ \A e \in 1 .. MaxElems : h[e] \in Nat
    BY Assumed DEF Holdings
  <1>2. Prefix(h, 0) = NoHoldings
    BY <1>1 DEF Prefix, NoHoldings
  <1>3. \A k \in 0 .. MaxElems : Prefix(h, k) \in Holdings
    BY <1>1 DEF Prefix, Holdings
  <1>4. ASSUME NEW k \in 1 .. MaxElems
        PROVE  Prefix(h, k - 1)[k] = 0 /\ Prefix(h, k) = [Prefix(h, k - 1) EXCEPT ![k] = h[k]]
    <2>1. PICK g : g = [e \in 1 .. MaxElems |-> IF e <= k - 1 THEN h[e] ELSE 0]
      OBVIOUS
    <2>2. g[k] = 0
      BY <1>1, <2>1
    <2>3. \A e \in 1 .. MaxElems :
              (IF e = k THEN h[k] ELSE g[e]) = IF e <= k THEN h[e] ELSE 0
      <3>1. \A e \in 1 .. MaxElems : e # k => (e <= k <=> e <= k - 1)
        BY <1>1
      <3>2. k <= k
        BY <1>1
      <3> QED  BY <2>1, <3>1, <3>2
    <2>4. [g EXCEPT ![k] = h[k]] = [e \in 1 .. MaxElems |-> IF e = k THEN h[k] ELSE g[e]]
      BY <2>1
    <2> QED  BY <2>1, <2>2, <2>3, <2>4 DEF Prefix
  <1>5. ASSUME NEW m \in 0 .. MaxElems, \A e \in m + 1 .. MaxElems : h[e] = 0
        PROVE  Prefix(h, m) = h
    <2>1. \A e \in 1 .. MaxElems : ~ (e <= m) => e \in m + 1 .. MaxElems
      BY <1>1
    <2>2. \A e \in 1 .. MaxElems : (IF e <= m THEN h[e] ELSE 0) = h[e]
      BY <1>5, <2>1
    <2> QED  BY <1>1, <2>2 DEF Prefix
  <1> QED  BY <1>2, <1>3, <1>4, <1>5

\* The elements' styles are in the cache.
StylesHeld(d) == \A e \in 1 .. MaxElems : StyleAt(d)[e] # 0 => Holds(d.styles, StyleAt(d)[e])

LEMMA BackedAreHeld ==
    ASSUME NEW d \in Collections, StylesBacked(d)
    PROVE  StylesHeld(d)
  <1>1. StyleAt(d) \in Holdings /\ GoodCache(d.styles, Styles)
    BY HoldingsOf, Typed
  <1> QED  BY <1>1, BackedHolds, Assumed DEF StylesHeld, StylesBacked

LEMMA ReferencedTrans ==
    ASSUME NEW d, NEW x, NEW r, Referenced(d, x), Referenced(x, r), d \in Collections
    PROVE  Referenced(d, r)
  <1>1. GoodCache(d.styles, Styles) /\ GoodCache(x.styles, Styles) /\ GoodCache(r.styles, Styles)
    BY Typed DEF Referenced
  <1>2. \A m : Count(d.styles, m) \in Nat /\ Count(x.styles, m) \in Nat /\ Count(r.styles, m) \in Nat
    BY <1>1, CountIs, Assumed
  <1>3. \A m : Count(r.styles, m) >= Count(d.styles, m)
    BY <1>2 DEF Referenced
  <1> QED  BY <1>3 DEF Referenced

\* Nothing but references to styles and the hash has changed.
Hashed(d, r) ==
    /\ r \in Collections /\ r.elems = d.elems /\ r.texts = d.texts /\ r.fonts = d.fonts
    /\ r.fontMap = d.fontMap /\ Gained(d.styles, r.styles)
    /\ DOMAIN r.styles.index = DOMAIN d.styles.index

LEMMA CalcStyleHashIs ==
    ASSUME NEW d \in Collections, NEW r, r = CalcStyleHash(d)
    PROVE  /\ Hashed(d, r)
           /\ r.hash = IF d.hash = NoHash THEN HashOf(d) ELSE d.hash
           /\ d.hash = NoHash /\ Walks(d) /\ Bare(d) /\ StylesHeld(d) => StylesBacked(r)
  <1>1. CASE d.hash # NoHash
    <2>1. r = d
      BY <1>1 DEF CalcStyleHash
    <2>2. \A m : Count(d.styles, m) \in Nat
      BY Typed, CountIs, Assumed
    <2> QED  BY <1>1, <2>1, <2>2 DEF Hashed, Gained
  <1>2. CASE d.hash = NoHash
    <2>1. PICK f : /\ f[0] = [d EXCEPT !.hash = HashOf(d)]
                   /\ \A k \in 1 .. Len(d.elems.slots) :
                          f[k] = Counted(Walked(d), f[k - 1], Places(d.elems)[k])
                   /\ r = f[Len(d.elems.slots)]
      BY <1>2, CalcRounds
    <2>2. PICK n, b, h : n = Len(d.elems.slots) /\ b = f[0] /\ h = StyleAt(d)
      OBVIOUS
    <2>3. /\ n \in Nat /\ n <= MaxElems /\ MaxElems \in Nat
          /\ \A k \in 1 .. n : Places(d.elems)[k] = k
      BY <2>2, ElementsAre, PlacesAre, Typed, Assumed
    <2>4. /\ b \in Collections /\ b.elems = d.elems /\ b.texts = d.texts /\ b.styles = d.styles
          /\ b.fonts = d.fonts /\ b.fontMap = d.fontMap /\ b.hash = HashOf(d)
      BY <2>1, <2>2, HashIs, HashSet
    <2>5. h \in Holdings
      BY <2>2, HoldingsOf
    <2> DEFINE Well == Walks(d) /\ Bare(d) /\ StylesHeld(d)
               P == [k \in 0 .. n |-> {x \in Collections : Referenced(b, x)
                                                   /\ (Well => Backed(Prefix(h, k), x.styles))}]
    <2>6. f[0] \in P[0]
      <3>1. Referenced(b, b)
        BY <2>4, ReferencedRefl
      <3>2. Backed(Prefix(h, 0), b.styles)
        BY <2>4, <2>5, Typed, PrefixIs, NothingHeld, Assumed
      <3> QED  BY <2>2, <2>3, <2>4, <3>1, <3>2
    <2>7. ASSUME NEW k \in 1 .. n, f[k - 1] \in P[k - 1]  PROVE f[k] \in P[k]
      <3>1. PICK x, y : x = f[k - 1] /\ y = f[k]
        OBVIOUS
      <3>2. /\ x \in Collections /\ Referenced(b, x) /\ (Well => Backed(Prefix(h, k - 1), x.styles))
            /\ k - 1 \in 0 .. n /\ k \in 0 .. n /\ k \in 1 .. MaxElems
        BY <2>3, <2>7, <3>1
      <3>3. y = IF k \in Walked(d) THEN GetNodeStyle(x, k) ELSE x
        BY <2>1, <2>2, <2>3, <3>1 DEF Counted
      <3>4. Referenced(x, y)
        BY <3>2, <3>3, ReferencedRefl, GetNodeStyleIs
      <3>5. y \in Collections /\ Referenced(b, y)
        BY <2>4, <3>2, <3>4, ReferencedTrans DEF Referenced
      <3>6. ASSUME Well  PROVE Backed(Prefix(h, k), y.styles)
        <4>1. /\ GoodCache(x.styles, Styles) /\ GoodCache(y.styles, Styles)
              /\ \A m : Count(x.styles, m) \in Nat /\ Count(y.styles, m) \in Nat
          BY <3>2, <3>5, Typed, CountIs, Assumed
        <4>2. PICK g : g = Prefix(h, k - 1)
          OBVIOUS
        <4>3. g \in Holdings /\ g[k] = 0 /\ Prefix(h, k) = [g EXCEPT ![k] = h[k]] /\ h[k] \in Nat
          <5>1. k - 1 \in 0 .. MaxElems /\ h[k] \in Nat
            BY <2>3, <2>5, <3>2 DEF Holdings
          <5> QED  BY <2>5, <3>2, <4>2, <5>1, PrefixIs
        <4>4. Shifted(x.styles, y.styles, g[k], h[k])
          <5>1. CASE k \in Walked(d)
            <6>1. h[k] = Info(x, k).style
              <7>1. x.elems = d.elems
                BY <2>4, <3>2 DEF Referenced
              <7>2. Info(x, k) = Info(d, k)
                BY <7>1 DEF Info
              <7> QED  BY <2>2, <7>2, ElementsAre
            <6>2. h[k] # 0 => Holds(x.styles, h[k])
              <7>1. h[k] # 0 => Holds(d.styles, h[k])
                BY <2>2, <3>2, <3>6 DEF StylesHeld
              <7> QED  BY <2>4, <3>2, <7>1 DEF Referenced
            <6>3. \A m : Count(y.styles, m) = IF m = Info(x, k).style /\ Holds(x.styles, m)
                                          THEN Count(x.styles, m) + 1 ELSE Count(x.styles, m)
              BY <3>2, <3>3, <5>1, GetNodeStyleIs
            <6> QED  BY <4>1, <4>3, <6>1, <6>2, <6>3 DEF Shifted
          <5>2. CASE k \notin Walked(d)
            <6>1. h[k] = 0
              BY <2>2, <3>2, <3>6, <5>2, WalkedIs DEF Bare
            <6>2. x = y
              BY <3>3, <5>2
            <6> QED  BY <4>1, <4>3, <6>1, <6>2 DEF Shifted
          <5> QED  BY <5>1, <5>2
        <4> QED  BY <3>2, <3>6, <4>1, <4>2, <4>3, <4>4, BackedShifts, Assumed
      <3> HIDE DEF Well
      <3> QED  BY <3>1, <3>2, <3>5, <3>6
    <2>8. \A k \in 0 .. n : f[k] \in P[k]
      <3> HIDE DEF P
      <3> QED  BY <2>3, <2>6, <2>7, FoldKeeps
    <2>9. r \in Collections /\ Referenced(b, r) /\ (Well => Backed(Prefix(h, n), r.styles))
      <3>1. n \in 0 .. n /\ r = f[n]
        BY <2>1, <2>2, <2>3
      <3> HIDE DEF Well
      <3> QED  BY <2>8, <3>1
    <2>10. Prefix(h, n) = h
      <3>1. \A e \in n + 1 .. MaxElems : h[e] = 0
        BY <2>2, <2>3, ElementsAre
      <3> QED  BY <2>3, <2>5, <3>1, PrefixIs
    <2>11. Well => StylesBacked(r)
      <3>1. r.elems = d.elems
        BY <2>4, <2>9 DEF Referenced
      <3>2. StyleAt(r) = StyleAt(d)
        BY <3>1 DEF StyleAt, Info
      <3> QED  BY <2>2, <2>9, <2>10, <3>2 DEF StylesBacked
    <2>12. Hashed(d, r) /\ r.hash = HashOf(d)
      <3>1. DOMAIN r.styles.index = DOMAIN b.styles.index
        BY <2>4, <2>9, ReferencedDomain
      <3> QED  BY <2>4, <2>9, <3>1 DEF Hashed, Referenced, Gained
    <2> QED  BY <1>2, <2>11, <2>12
  <1> QED  BY <1>1, <1>2

-----------------------------------------------------------------------------
(* Styles are given to all elements, one after the other.                  *)

\* The collections with the tree of d.
TreesOf(d) == {x \in Collections : SameTree(d, x)}

LEMMA TreeStays ==
    ASSUME NEW d \in Collections, NEW x \in TreesOf(d), NEW r \in Collections, SameTree(x, r)
    PROVE  r \in TreesOf(d)
  BY SameTreeTrans DEF TreesOf

LEMMA InTree ==
    ASSUME NEW d \in Collections, NEW x \in TreesOf(d), NEW e \in Elements(d)
    PROVE  e \in 1 .. Len(x.elems.slots) /\ e \in 1 .. MaxElems /\ e \in Elements(x)
  BY ElementsAre, SameTreeKeeps DEF TreesOf

\* Before the first round: nothing is known of fonts.
LEMMA MapSet ==
    ASSUME NEW d \in Collections, NEW mp \in [StyleIndexes -> Nat], NEW r, r = [d EXCEPT !.fontMap = mp]
    PROVE  /\ r \in Collections /\ r.elems = d.elems /\ r.texts = d.texts /\ r.styles = d.styles
           /\ r.fonts = d.fonts /\ r.fontMap = mp /\ r.hash = d.hash /\ SameTree(d, r)
  <1>1. Consists(d, d.elems, d.texts, d.styles, d.fonts, d.fontMap, d.hash)
    BY Typed DEF Consists, Doc
  <1>2. Consists(r, d.elems, d.texts, d.styles, d.fonts, mp, d.hash)
    BY <1>1, FieldSet
  <1>3. r = Doc(d.elems, d.texts, d.styles, d.fonts, mp, d.hash)
    BY <1>2 DEF Consists
  <1>4. r \in Collections /\ r.elems = d.elems /\ r.texts = d.texts
    BY <1>3, Typed, MakesCollection DEF Doc
  <1>5. SameTree(d, r)
    BY <1>4 DEF SameTree, Info
  <1> QED  BY <1>3, <1>4, <1>5 DEF Doc

LEMMA NoFontsIs == NoFonts \in [StyleIndexes -> Nat] /\ \A n \in StyleIndexes : NoFonts[n] = 0
  BY DEF NoFonts

\* A style is set in a tree.
LEMMA StyleSetInTree ==
    ASSUME NEW d \in Collections, NEW x \in TreesOf(d), NEW e \in Elements(d), NEW s \in Styles
    PROVE  InitNodeStyle(x, e, s) \in TreesOf(d)
  <1>1. x \in Collections /\ e \in 1 .. Len(x.elems.slots)
    BY InTree DEF TreesOf
  <1>2. PICK a, b : StyleSet(x, InitNodeStyle(x, e, s), e, s, a, b)
    BY <1>1, InitNodeStyleIs
  <1>3. InitNodeStyle(x, e, s) \in Collections /\ SameTree(x, InitNodeStyle(x, e, s))
    BY <1>2 DEF StyleSet, Restyled
  <1> QED  BY <1>3, TreeStays

LEMMA InitRounds ==
    ASSUME NEW d \in Collections, NEW style \in [Elements(d) -> Styles], NEW order \in Seq(Elements(d))
    PROVE  \E r : /\ r[0] = [d EXCEPT !.fontMap = NoFonts]
                  /\ \A k \in 1 .. Len(order) : r[k] = InitNodeStyle(r[k - 1], order[k], style[order[k]])
                  /\ InitNodeStyles(d, style, order) = r[Len(order)]
  <1> DEFINE n == Len(order)
             base == [d EXCEPT !.fontMap = NoFonts]
             list == order
             Step(x, f) == InitNodeStyle(x, f, style[f])
             it == CHOOSE f : f = [s \in SUBSET (1 .. n) |->
                                      IF s = {} THEN base
                                      ELSE Step(f[s \ {Max(s)}], list[Max(s)])]
             G == [k \in 1 .. n |-> [x \in TreesOf(d) |-> Step(x, list[k])]]
  <1>1. n \in Nat /\ DOMAIN list = 1 .. n /\ \A k \in 1 .. n : list[k] \in Elements(d)
    BY SeqElements
  <1>2. base \in TreesOf(d)
    BY MapSet, NoFontsIs DEF TreesOf
  <1>3. G \in [1 .. n -> [TreesOf(d) -> TreesOf(d)]]
    <2>1. ASSUME NEW k \in 1 .. n, NEW x \in TreesOf(d)  PROVE Step(x, list[k]) \in TreesOf(d)
      <3>1. list[k] \in Elements(d)
        BY <1>1
      <3>2. style[list[k]] \in Styles
        BY <3>1
      <3> QED  BY <3>1, <3>2, StyleSetInTree
    <2> HIDE DEF n, list, Step
    <2> QED  BY <2>1
  <1>4. InitNodeStyles(d, style, order) = it[1 .. n]
    <2>1. DOMAIN list = 1 .. n
      BY <1>1
    <2> QED  BY <2>1, Zenon DEF InitNodeStyles, FoldLeft, MapThenFoldSet
  <1>5. \E f : f = [s \in SUBSET (1 .. n) |->
                       IF s = {} THEN base ELSE Step(f[s \ {Max(s)}], list[Max(s)])]
    <2>0. n \in Nat
      BY <1>1
    <2> HIDE DEF base, G, n, Step, list
    <2>1. PICK f : FoldsOver(f, TreesOf(d), base, n, G)
      BY <2>0, <1>2, <1>3, FoldExists, Zenon
    <2>2. ASSUME NEW s \in SUBSET (1 .. n), s # {}
          PROVE  G[Max(s)][f[s \ {Max(s)}]] = Step(f[s \ {Max(s)}], list[Max(s)])
      <3>1. Max(s) \in 1 .. n
        BY <2>0, <2>2, LargestIn
      <3>2. f[s \ {Max(s)}] \in TreesOf(d)
        BY <2>1, <3>1 DEF FoldsOver
      <3> QED  BY <3>1, <3>2 DEF G
    <2>3. [s \in SUBSET (1 .. n) |->
              IF s = {} THEN base ELSE G[Max(s)][f[s \ {Max(s)}]]]
          = [s \in SUBSET (1 .. n) |->
                IF s = {} THEN base ELSE Step(f[s \ {Max(s)}], list[Max(s)])]
      BY <2>2, Zenon
    <2>4. f = [s \in SUBSET (1 .. n) |->
                IF s = {} THEN base ELSE Step(f[s \ {Max(s)}], list[Max(s)])]
      BY <2>1, <2>3, Zenon DEF FoldsOver
    <2> QED  BY <2>4, Zenon
  <1>6. it = [s \in SUBSET (1 .. n) |->
                 IF s = {} THEN base ELSE Step(it[s \ {Max(s)}], list[Max(s)])]
    <2> HIDE DEF base, n, Step, list
    <2> QED  BY <1>5, Zenon
  <1> DEFINE r == [k \in 0 .. n |-> it[1 .. k]]
  <1> HIDE DEF it, base, Step, n, list
  <1>7. r[0] = base
    BY <1>1, <1>6
  <1>8. ASSUME NEW k \in 1 .. n  PROVE r[k] = Step(r[k - 1], list[k])
    <2>1. k \in 0 .. n /\ k - 1 \in 0 .. n
      BY <1>1
    <2>2. /\ 1 .. k \in SUBSET (1 .. n) /\ 1 .. k # {} /\ Max(1 .. k) = k
          /\ (1 .. k) \ {k} = 1 .. k - 1
      BY <1>1, FoldPlaces
    <2>3. it[1 .. k] = IF 1 .. k = {} THEN base
                       ELSE Step(it[(1 .. k) \ {Max(1 .. k)}], list[Max(1 .. k)])
      BY <1>6, <2>2, Zenon
    <2>4. it[1 .. k] = Step(it[1 .. k - 1], list[k])
      BY <2>2, <2>3, Zenon
    <2> QED  BY <2>1, <2>4, Zenon
  <1>9. r[n] = it[1 .. n]
    BY <1>1
  <1>10. \E r1 : /\ r1[0] = base /\ \A k \in 1 .. n : r1[k] = Step(r1[k - 1], list[k])
                 /\ InitNodeStyles(d, style, order) = r1[n]
    <2> HIDE DEF r
    <2> QED  BY <1>4, <1>7, <1>8, <1>9, Zenon
  <1> QED  BY <1>10, Zenon DEF base, Step, n, list

\* The font map has the fonts of styles in the cache only.
MapStrict(d) ==
    \A n \in StyleIndexes :
        d.fontMap[n] # 0 => /\ Holds(d.styles, n)
                            /\ Get(d.fonts, d.fontMap[n]) = FontOf[Get(d.styles, n)]

\* Styles and fonts while everything is styled again.
Strict(d) == StylesBacked(d) /\ FontsBacked(d) /\ Follows(d) /\ MapStrict(d)

\* What gets references keeps what it held.
LEMMA ShiftedKeeps ==
    ASSUME NEW V, NEW y, GoodCache(y, V), NEW r, GoodCache(r, V), Null \notin V, NEW a, Shifted(y, r, 0, a),
           NEW n, Holds(y, n)
    PROVE  Holds(r, n)
  <1>1. Count(y, n) \in Nat /\ Count(r, n) \in Nat /\ Count(y, n) # 0 /\ n \in 1 .. Len(y.index)
    BY CountIs
  <1>2. Len(y.index) \in Nat
    BY CacheTypes DEF GoodCache
  <1>3. n \in Nat \ {0}
    BY <1>1, <1>2
  <1>4. Count(r, n) >= Count(y, n) + (IF n = a THEN 1 ELSE 0)
    BY <1>1, <1>3 DEF Shifted
  <1>5. Count(r, n) # 0
    BY <1>1, <1>4
  <1> QED  BY <1>5, CountIs

LEMMA StrictStays ==
    ASSUME NEW d \in Collections, NEW r, NEW e \in 1 .. Len(d.elems.slots), NEW s \in Styles,
           NEW a, NEW b, StyleSet(d, r, e, s, a, b), Strict(d), StyleAt(d)[e] = 0, FontAt(d)[e] = 0
    PROVE  Strict(r)
  <1>1. /\ r \in Collections /\ Holds(r.styles, a) /\ Get(r.styles, a) = s /\ a \in StyleIndexes
        /\ Holds(d.styles, a) => Get(d.styles, a) = s
        /\ b \in Nat \ {0} /\ d.fontMap \in [StyleIndexes -> Nat]
    BY Typed DEF StyleSet, Restyled, Took
  <1>2. /\ GoodCache(d.fonts, Fonts) /\ GoodCache(r.fonts, Fonts)
        /\ GoodCache(d.styles, Styles) /\ GoodCache(r.styles, Styles)
    BY <1>1, Typed
  <1>3. Get(r.fonts, b) = FontOf[s]
    <2>1. CASE d.fontMap[a] = 0
      BY <2>1 DEF StyleSet, Took
    <2>2. CASE d.fontMap[a] # 0
      <3>1. Holds(d.styles, a) /\ Get(d.fonts, d.fontMap[a]) = FontOf[Get(d.styles, a)]
        BY <1>1, <2>2 DEF Strict, MapStrict
      <3>2. b = d.fontMap[a] /\ Get(r.fonts, b) = Get(d.fonts, b)
        BY <2>2 DEF StyleSet
      <3> QED  BY <1>1, <3>1, <3>2
    <2> QED  BY <2>1, <2>2
  <1>4. StylesBacked(r) /\ FontsBacked(r) /\ Follows(r)
    BY <1>3, StyleSetFollows DEF Strict
  <1>5. Holds(r.fonts, b)
    <2>1. Get(r.fonts, b) # Null
      BY <1>3, Assumed
    <2> QED  BY <1>2, <2>1, HoldsSome, Assumed
  <1>6. Shifted(d.styles, r.styles, 0, a) /\ Shifted(d.fonts, r.fonts, 0, b)
    <2>1. Info(d, e).style = 0 /\ Info(d, e).font = 0
      BY InfoIs
    <2>2. Shifted(d.styles, r.styles, Info(d, e).style, a) /\ Shifted(d.fonts, r.fonts, Info(d, e).font, b)
      BY <1>5 DEF StyleSet
    <2> QED  BY <2>1, <2>2
  <1>7. ASSUME NEW n \in StyleIndexes, r.fontMap[n] # 0
        PROVE  Holds(r.styles, n) /\ Get(r.fonts, r.fontMap[n]) = FontOf[Get(r.styles, n)]
    <2>1. CASE n = a
      <3>1. r.fontMap[a] = b
        <4>1. d.fontMap[a] = 0 => r.fontMap = [d.fontMap EXCEPT ![a] = b]
          BY DEF StyleSet
        <4>2. d.fontMap[a] # 0 => b = d.fontMap[a] /\ r.fontMap = d.fontMap
          BY DEF StyleSet
        <4> QED  BY <1>1, <4>1, <4>2
      <3> QED  BY <1>1, <1>3, <2>1, <3>1
    <2>2. CASE n # a
      <3>1. r.fontMap[n] = d.fontMap[n]
        <4>1. d.fontMap[a] = 0 => r.fontMap = [d.fontMap EXCEPT ![a] = b]
          BY DEF StyleSet
        <4>2. d.fontMap[a] # 0 => r.fontMap = d.fontMap
          BY DEF StyleSet
        <4> QED  BY <1>1, <2>2, <4>1, <4>2
      <3>2. PICK m : m = d.fontMap[n]
        OBVIOUS
      <3>3. Holds(d.styles, n) /\ Get(d.fonts, m) = FontOf[Get(d.styles, n)]
        BY <1>7, <3>1, <3>2 DEF Strict, MapStrict
      <3>4. Get(d.styles, n) \in Styles
        BY <1>2, <3>3, CountIs, Assumed
      <3>5. Holds(d.fonts, m)
        BY <1>2, <3>3, <3>4, HoldsSome, Assumed
      <3>6. Holds(r.styles, n) /\ Holds(r.fonts, m)
        BY <1>2, <1>6, <3>3, <3>5, ShiftedKeeps, Assumed
      <3>7. Get(r.fonts, m) = Get(d.fonts, m) /\ Get(r.styles, n) = Get(d.styles, n)
        BY <1>3, <3>3, <3>5, <3>6, StyleSetSameFont, StyleSetSameStyle
      <3> QED  BY <3>1, <3>2, <3>3, <3>6, <3>7
    <2> QED  BY <2>1, <2>2
  <1>8. MapStrict(r)
    BY <1>7 DEF MapStrict
  <1> QED  BY <1>4, <1>8 DEF Strict

\* The free list and the tree are sound, and what is free has no style.
Sound(d) == d \in Collections /\ Tree(d) /\ Bare(d)

LEMMA InOrder ==
    ASSUME NEW S, IsFiniteSet(S), NEW order \in SetToSeqs(S)
    PROVE  /\ order \in Seq(S) /\ Len(order) \in Nat
           /\ \A i, j \in 1 .. Len(order) : i # j => order[i] # order[j]
  <1>1. Cardinality(S) \in Nat
    BY FS_CardinalityType
  <1>2. order \in [1 .. Cardinality(S) -> S]
        /\ \A i, j \in 1 .. Cardinality(S) : i # j => order[i] # order[j]
    BY DEF SetToSeqs
  <1>3. order \in Seq(S) /\ Len(order) = Cardinality(S)
    BY <1>1, <1>2
  <1> QED  BY <1>1, <1>2, <1>3

LEMMA ElementsFinite ==
    ASSUME NEW d \in Collections
    PROVE  IsFiniteSet(Elements(d)) /\ IsFiniteSet(1 .. MaxElems)
  <1>1. IsFiniteSet(1 .. MaxElems) /\ Elements(d) \subseteq 1 .. MaxElems
    BY ElementsAre, Assumed, FS_Interval
  <1> QED  BY <1>1, FS_Subset

LEMMA RestyledBare ==
    ASSUME NEW d \in Collections, NEW e \in Elements(d), NEW r, NEW s, NEW f, Restyled(d, r, e, s, f), Bare(d)
    PROVE  Bare(r)
  <1>1. Elements(r) = Elements(d)
    BY SameTreeKeeps DEF Restyled
  <1>2. /\ StyleAt(d) \in Holdings /\ FontAt(d) \in Holdings
        /\ StyleAt(r) = [StyleAt(d) EXCEPT ![e] = s] /\ FontAt(r) = [FontAt(d) EXCEPT ![e] = f]
    BY HoldingsOf DEF Restyled
  <1>3. ASSUME NEW i \in 1 .. MaxElems, i \notin Elements(r)
        PROVE  StyleAt(r)[i] = 0 /\ FontAt(r)[i] = 0
    <2>1. i # e /\ StyleAt(d)[i] = 0 /\ FontAt(d)[i] = 0
      BY <1>1, <1>3 DEF Bare
    <2> QED  BY <1>2, <2>1 DEF Holdings
  <1> QED  BY <1>3 DEF Bare

\* A document whose elements have no style is styled.
LEMMA StyledAnewIs ==
    ASSUME NEW d \in Collections, Bare(d), StyleAt(d) = NoHoldings, FontAt(d) = NoHoldings,
           d.hash = NoHash, NEW style \in [Elements(d) -> Styles], NEW order \in SetToSeqs(Elements(d)),
           NEW r, r = InitNodeStyles(d, style, order)
    PROVE  r \in Collections /\ SameTree(d, r) /\ Strict(r) /\ Bare(r) /\ r.hash = NoHash
  <1>1. /\ order \in Seq(Elements(d)) /\ Len(order) \in Nat
        /\ \A i, j \in 1 .. Len(order) : i # j => order[i] # order[j]
    BY InOrder, ElementsFinite
  <1>2. PICK f : /\ f[0] = [d EXCEPT !.fontMap = NoFonts]
                 /\ \A k \in 1 .. Len(order) : f[k] = InitNodeStyle(f[k - 1], order[k], style[order[k]])
                 /\ r = f[Len(order)]
    BY <1>1, InitRounds
  <1>3. PICK n, b : n = Len(order) /\ b = f[0]
    OBVIOUS
  <1>4. /\ b \in Collections /\ b.elems = d.elems /\ b.styles = d.styles /\ b.fonts = d.fonts
        /\ b.fontMap = NoFonts /\ b.hash = NoHash /\ SameTree(d, b)
    BY <1>2, <1>3, MapSet, NoFontsIs
  <1>5. StyleAt(b) = NoHoldings /\ FontAt(b) = NoHoldings
    BY <1>4 DEF StyleAt, FontAt, Info
  <1>6. \A e \in 1 .. MaxElems : NoHoldings[e] = 0
    BY DEF NoHoldings
  <1> DEFINE P == [k \in 0 .. n |->
                      {x \in TreesOf(d) : /\ Strict(x) /\ Bare(x) /\ x.hash = NoHash
                                          /\ \A j \in k + 1 .. n : /\ StyleAt(x)[order[j]] = 0
                                                                   /\ FontAt(x)[order[j]] = 0}]
  <1>7. f[0] \in P[0]
    <2>1. b \in TreesOf(d)
      BY <1>4 DEF TreesOf
    <2>2. Strict(b)
      <3>1. StylesBacked(b) /\ FontsBacked(b)
        BY <1>4, <1>5, Typed, NothingHeld, Assumed DEF StylesBacked, FontsBacked
      <3>2. Follows(b)
        BY <1>5, <1>6 DEF Follows
      <3>3. MapStrict(b)
        BY <1>4, NoFontsIs DEF MapStrict
      <3> QED  BY <3>1, <3>2, <3>3 DEF Strict
    <2>3. Bare(b)
      BY <1>5, <1>6 DEF Bare
    <2>4. \A j \in 1 .. n : order[j] \in 1 .. MaxElems
      BY <1>1, <1>3, SeqElements, ElementsAre
    <2>5. 0 \in 0 .. n /\ 0 + 1 = 1
      BY <1>1, <1>3
    <2>6. \A j \in 1 .. n : StyleAt(b)[order[j]] = 0 /\ FontAt(b)[order[j]] = 0
      BY <1>5, <1>6, <2>4
    <2> QED  BY <1>3, <1>4, <2>1, <2>2, <2>3, <2>5, <2>6
  <1>8. ASSUME NEW k \in 1 .. n, f[k - 1] \in P[k - 1]  PROVE f[k] \in P[k]
    <2>1. PICK x, y, e, s : x = f[k - 1] /\ y = f[k] /\ e = order[k] /\ s = style[order[k]]
      OBVIOUS
    <2>2. k - 1 \in 0 .. n /\ k \in 0 .. n /\ k \in (k - 1) + 1 .. n
      BY <1>1, <1>3
    <2>3. /\ x \in TreesOf(d) /\ Strict(x) /\ Bare(x)
          /\ \A j \in (k - 1) + 1 .. n : StyleAt(x)[order[j]] = 0 /\ FontAt(x)[order[j]] = 0
      BY <1>8, <2>1, <2>2
    <2>4. e \in Elements(d) /\ s \in Styles
      <3>1. order[k] \in Elements(d)
        BY <1>1, <1>3, SeqElements
      <3> QED  BY <2>1, <3>1
    <2>5. x \in Collections /\ e \in 1 .. Len(x.elems.slots) /\ e \in Elements(x)
      BY <2>3, <2>4, InTree DEF TreesOf
    <2>6. PICK u, v : StyleSet(x, y, e, s, u, v)
      <3>1. y = InitNodeStyle(x, e, s)
        BY <1>2, <1>3, <2>1
      <3> QED  BY <2>4, <2>5, <3>1, InitNodeStyleIs
    <2>7. Strict(y)
      <3>1. StyleAt(x)[e] = 0 /\ FontAt(x)[e] = 0
        BY <2>1, <2>2, <2>3
      <3> QED  BY <2>3, <2>4, <2>5, <2>6, <3>1, StrictStays
    <2>8. Restyled(x, y, e, u, v) /\ y.hash = NoHash
      BY <2>6 DEF StyleSet
    <2>9. Bare(y)
      BY <2>3, <2>5, <2>8, RestyledBare
    <2>10. y \in TreesOf(d)
      BY <2>3, <2>8, TreeStays DEF Restyled
    <2>11. ASSUME NEW j \in k + 1 .. n  PROVE StyleAt(y)[order[j]] = 0 /\ FontAt(y)[order[j]] = 0
      <3>1. j \in (k - 1) + 1 .. n /\ j # k /\ j \in 1 .. n
        BY <1>1, <1>3
      <3>2. order[j] # e /\ StyleAt(x)[order[j]] = 0 /\ FontAt(x)[order[j]] = 0 /\ order[j] \in 1 .. MaxElems
        <4>1. order[j] \in Elements(d)
          BY <1>1, <1>3, <3>1, SeqElements
        <4> QED  BY <1>1, <1>3, <2>1, <2>3, <3>1, <4>1, ElementsAre
      <3>3. StyleAt(x) \in Holdings /\ FontAt(x) \in Holdings
        BY <2>5, HoldingsOf
      <3> QED  BY <2>8, <3>2, <3>3 DEF Restyled, Holdings
    <2> QED  BY <2>1, <2>2, <2>7, <2>8, <2>9, <2>10, <2>11
  <1>9. \A k \in 0 .. n : f[k] \in P[k]
    <2> HIDE DEF P
    <2> QED  BY <1>1, <1>3, <1>7, <1>8, FoldKeeps
  <1>10. r \in P[n] /\ n \in 0 .. n
    BY <1>1, <1>2, <1>3, <1>9
  <1> QED  BY <1>10 DEF TreesOf

\* What render does to the nodes when the context is another.
LEMMA RenderedIs ==
    ASSUME NEW d, Sound(d), Walks(d), NEW style \in [Elements(d) -> Styles],
           NEW order \in SetToSeqs(Elements(d)), NEW r, r = InitNodeStyles(DropStyles(d), style, order)
    PROVE  r \in Collections /\ SameTree(d, r) /\ Strict(r) /\ Bare(r) /\ r.hash = NoHash
  <1>1. PICK x : x = DropStyles(d)
    OBVIOUS
  <1>2. /\ x \in Collections /\ SameTree(d, x) /\ StyleAt(x) = NoHoldings /\ FontAt(x) = NoHoldings
        /\ x.hash = NoHash
    BY <1>1, DropStylesIs DEF Sound
  <1>3. Elements(x) = Elements(d)
    BY <1>2, SameTreeKeeps DEF Sound
  <1>4. Bare(x)
    BY <1>2 DEF Bare, NoHoldings
  <1>5. r \in Collections /\ SameTree(x, r) /\ Strict(r) /\ Bare(r) /\ r.hash = NoHash
    BY <1>1, <1>2, <1>3, <1>4, StyledAnewIs
  <1> QED  BY <1>2, <1>5, SameTreeTrans

-----------------------------------------------------------------------------
(* destroy: of texts, of an element, of what is below it.                  *)

\* Only the texts of d change, and the hash.
OtherTexts(d, r) ==
    /\ r \in Collections /\ r.elems = d.elems /\ r.styles = d.styles /\ r.fonts = d.fonts
    /\ r.fontMap = d.fontMap /\ DOMAIN r.texts.slots = DOMAIN d.texts.slots
    /\ r.hash \in {NoHash, d.hash}

LEMMA DestroyTextIs ==
    ASSUME NEW d \in Collections, NEW i \in DOMAIN d.texts.slots, NEW r, r = DestroyText(d, i)
    PROVE  OtherTexts(d, r) /\ r.texts = Recycle(d.texts, i) /\ r.hash = NoHash
  <1>0. PICK t : t = Recycle(d.texts, i)
    OBVIOUS
  <1>1. PICK d1 : d1 = [d EXCEPT !.texts = t]
    OBVIOUS
  <1>2. Consists(d, d.elems, d.texts, d.styles, d.fonts, d.fontMap, d.hash)
    BY Typed DEF Consists, Doc
  <1>3. Consists(d1, d.elems, t, d.styles, d.fonts, d.fontMap, d.hash)
    BY <1>1, <1>2, FieldSet
  <1>4. r = [d1 EXCEPT !.hash = NoHash]
    BY <1>0, <1>1 DEF DestroyText
  <1>5. Consists(r, d.elems, t, d.styles, d.fonts, d.fontMap, NoHash)
    <2>1. PICK h : h = NoHash
      OBVIOUS
    <2>2. Consists([d1 EXCEPT !.hash = h], d.elems, t, d.styles, d.fonts, d.fontMap, h)
      BY <1>3, FieldSet
    <2> QED  BY <1>4, <2>1, <2>2
  <1>6. t \in Tables(MaxTexts) /\ DOMAIN t.slots = DOMAIN d.texts.slots
    <2>1. d.texts \in Tables(MaxTexts) /\ MaxTexts \in Nat
      BY Typed, Assumed
    <2>2. t \in Tables(MaxTexts) /\ Recycled(d.texts, t, i)
      BY <1>0, <2>1, RecycleTypes
    <2> QED  BY <2>2 DEF Recycled
  <1>7. r = Doc(d.elems, t, d.styles, d.fonts, d.fontMap, NoHash) /\ NoHash \in Hashes
    BY <1>5 DEF Consists, Hashes
  <1>8. r \in Collections
    BY <1>6, <1>7, Typed, MakesCollection DEF Doc
  <1> QED  BY <1>0, <1>6, <1>7, <1>8 DEF OtherTexts, Doc

LEMMA OtherTextsTrans ==
    ASSUME NEW d, NEW x, NEW r, OtherTexts(d, x), OtherTexts(x, r)
    PROVE  OtherTexts(d, r)
  BY DEF OtherTexts

LEMMA OtherTextsRefl ==
    ASSUME NEW d \in Collections
    PROVE  OtherTexts(d, d)
  BY DEF OtherTexts

\* The collections that differ from d in the texts.
TextsOf(d) == {x \in Collections : OtherTexts(d, x)}

\* One round of the removal of texts.
TextGone(S, x, i) == IF i \in S THEN DestroyText(x, i) ELSE x

LEMMA TextRounds ==
    ASSUME NEW d \in Collections, NEW S
    PROVE  \E r : /\ r[0] = d
                  /\ \A k \in 1 .. Len(d.texts.slots) : r[k] = TextGone(S, r[k - 1], Places(d.texts)[k])
                  /\ DestroyTexts(d, S) = r[Len(d.texts.slots)]
  <1> DEFINE n == Len(d.texts.slots)
             base == d
             list == Places(d.texts)
             Step(x, f) == TextGone(S, x, f)
             it == CHOOSE f : f = [s \in SUBSET (1 .. n) |->
                                      IF s = {} THEN base
                                      ELSE Step(f[s \ {Max(s)}], list[Max(s)])]
             G == [k \in 1 .. n |-> [x \in TextsOf(d) |-> Step(x, list[k])]]
  <1>1. n \in Nat /\ DOMAIN list = 1 .. n /\ \A k \in 1 .. n : list[k] = k
    BY PlacesAre, Typed, Assumed
  <1>2. base \in TextsOf(d)
    BY OtherTextsRefl DEF TextsOf
  <1>3. G \in [1 .. n -> [TextsOf(d) -> TextsOf(d)]]
    <2>1. ASSUME NEW k \in 1 .. n, NEW x \in TextsOf(d)  PROVE Step(x, list[k]) \in TextsOf(d)
      <3>1. x \in Collections /\ OtherTexts(d, x)
        BY DEF TextsOf
      <3>2. list[k] = k /\ k \in DOMAIN x.texts.slots
        <4>1. DOMAIN d.texts.slots = 1 .. Len(d.texts.slots)
          BY Typed, TableTypes, Assumed
        <4> QED  BY <1>1, <3>1, <4>1 DEF OtherTexts
      <3>3. CASE k \in S
        <4>1. Step(x, list[k]) = DestroyText(x, k)
          BY <3>2, <3>3 DEF TextGone
        <4>2. OtherTexts(x, Step(x, list[k]))
          BY <3>1, <3>2, <4>1, DestroyTextIs
        <4>3. OtherTexts(d, Step(x, list[k]))
          BY <3>1, <4>2, OtherTextsTrans
        <4> QED  BY <4>2, <4>3 DEF TextsOf, OtherTexts
      <3>4. CASE k \notin S
        <4>1. Step(x, list[k]) = x
          BY <3>2, <3>4 DEF TextGone
        <4> QED  BY <4>1
      <3> QED  BY <3>3, <3>4
    <2> HIDE DEF n, list, Step
    <2> QED  BY <2>1
  <1>4. DestroyTexts(d, S) = it[1 .. n]
    <2>1. DOMAIN list = 1 .. n
      BY <1>1
    <2> QED  BY <2>1, Zenon DEF DestroyTexts, TextGone, FoldLeft, MapThenFoldSet
  <1>5. \E f : f = [s \in SUBSET (1 .. n) |->
                       IF s = {} THEN base ELSE Step(f[s \ {Max(s)}], list[Max(s)])]
    <2>0. n \in Nat
      BY <1>1
    <2> HIDE DEF base, G, n, Step, list
    <2>1. PICK f : FoldsOver(f, TextsOf(d), base, n, G)
      BY <2>0, <1>2, <1>3, FoldExists, Zenon
    <2>2. ASSUME NEW s \in SUBSET (1 .. n), s # {}
          PROVE  G[Max(s)][f[s \ {Max(s)}]] = Step(f[s \ {Max(s)}], list[Max(s)])
      <3>1. Max(s) \in 1 .. n
        BY <2>0, <2>2, LargestIn
      <3>2. f[s \ {Max(s)}] \in TextsOf(d)
        BY <2>1, <3>1 DEF FoldsOver
      <3> QED  BY <3>1, <3>2 DEF G
    <2>3. [s \in SUBSET (1 .. n) |->
              IF s = {} THEN base ELSE G[Max(s)][f[s \ {Max(s)}]]]
          = [s \in SUBSET (1 .. n) |->
                IF s = {} THEN base ELSE Step(f[s \ {Max(s)}], list[Max(s)])]
      BY <2>2, Zenon
    <2>4. f = [s \in SUBSET (1 .. n) |->
                IF s = {} THEN base ELSE Step(f[s \ {Max(s)}], list[Max(s)])]
      BY <2>1, <2>3, Zenon DEF FoldsOver
    <2> QED  BY <2>4, Zenon
  <1>6. it = [s \in SUBSET (1 .. n) |->
                 IF s = {} THEN base ELSE Step(it[s \ {Max(s)}], list[Max(s)])]
    <2> HIDE DEF base, n, Step, list
    <2> QED  BY <1>5, Zenon
  <1> DEFINE r == [k \in 0 .. n |-> it[1 .. k]]
  <1> HIDE DEF it, base, Step, n, list
  <1>7. r[0] = base
    BY <1>1, <1>6
  <1>8. ASSUME NEW k \in 1 .. n  PROVE r[k] = Step(r[k - 1], list[k])
    <2>1. k \in 0 .. n /\ k - 1 \in 0 .. n
      BY <1>1
    <2>2. /\ 1 .. k \in SUBSET (1 .. n) /\ 1 .. k # {} /\ Max(1 .. k) = k
          /\ (1 .. k) \ {k} = 1 .. k - 1
      BY <1>1, FoldPlaces
    <2>3. it[1 .. k] = IF 1 .. k = {} THEN base
                       ELSE Step(it[(1 .. k) \ {Max(1 .. k)}], list[Max(1 .. k)])
      BY <1>6, <2>2, Zenon
    <2>4. it[1 .. k] = Step(it[1 .. k - 1], list[k])
      BY <2>2, <2>3, Zenon
    <2> QED  BY <2>1, <2>4, Zenon
  <1>9. r[n] = it[1 .. n]
    BY <1>1
  <1>10. \E r1 : /\ r1[0] = base /\ \A k \in 1 .. n : r1[k] = Step(r1[k - 1], list[k])
                 /\ DestroyTexts(d, S) = r1[n]
    <2> HIDE DEF r
    <2> QED  BY <1>4, <1>7, <1>8, <1>9, Zenon
  <1> QED  BY <1>10, Zenon DEF base, Step, n, list

LEMMA DestroyTextsIs ==
    ASSUME NEW d \in Collections, FreeList(d.texts), NEW S, S \subseteq Live(d.texts),
           NEW r, r = DestroyTexts(d, S)
    PROVE  /\ OtherTexts(d, r) /\ FreeList(r.texts) /\ Live(r.texts) = Live(d.texts) \ S
           /\ \A i \in Live(r.texts) : r.texts.slots[i].parent = d.texts.slots[i].parent
  <1>1. PICK f : /\ f[0] = d
                 /\ \A k \in 1 .. Len(d.texts.slots) : f[k] = TextGone(S, f[k - 1], Places(d.texts)[k])
                 /\ r = f[Len(d.texts.slots)]
    BY TextRounds
  <1>2. PICK n : n = Len(d.texts.slots)
    OBVIOUS
  <1>3. /\ n \in Nat /\ \A k \in 1 .. n : Places(d.texts)[k] = k
        /\ DOMAIN d.texts.slots = 1 .. n /\ Live(d.texts) \subseteq 1 .. n
    BY <1>2, PlacesAre, TableTypes, Typed, Assumed DEF Live
  <1> DEFINE P == [k \in 0 .. n |->
                      {x \in TextsOf(d) : /\ FreeList(x.texts)
                                          /\ Live(x.texts) = {i \in Live(d.texts) : i \in S => i > k}
                                          /\ \A i \in Live(x.texts) :
                                                 x.texts.slots[i].parent = d.texts.slots[i].parent}]
  <1>4. f[0] \in P[0]
    <2>1. d \in TextsOf(d)
      BY OtherTextsRefl DEF TextsOf
    <2>2. Live(d.texts) = {i \in Live(d.texts) : i \in S => i > 0}
      BY <1>3
    <2> QED  BY <1>1, <1>3, <2>1, <2>2
  <1>5. ASSUME NEW k \in 1 .. n, f[k - 1] \in P[k - 1]  PROVE f[k] \in P[k]
    <2>1. PICK x, y : x = f[k - 1] /\ y = f[k]
      OBVIOUS
    <2>2. k - 1 \in 0 .. n /\ k \in 0 .. n
      BY <1>3
    <2>3. /\ x \in Collections /\ OtherTexts(d, x) /\ FreeList(x.texts)
          /\ Live(x.texts) = {i \in Live(d.texts) : i \in S => i > k - 1}
          /\ \A i \in Live(x.texts) : x.texts.slots[i].parent = d.texts.slots[i].parent
      BY <1>5, <2>1, <2>2 DEF TextsOf
    <2>4. y = IF k \in S THEN DestroyText(x, k) ELSE x
      BY <1>1, <1>2, <1>3, <2>1 DEF TextGone
    <2>5. CASE k \in S
      <3>1. k \in Live(x.texts) /\ k \in DOMAIN x.texts.slots
        BY <1>3, <2>3, <2>5 DEF Live
      <3>2. OtherTexts(x, y) /\ y.texts = Recycle(x.texts, k)
        BY <2>3, <2>4, <2>5, <3>1, DestroyTextIs
      <3>3. /\ FreeList(y.texts) /\ Live(y.texts) = Live(x.texts) \ {k}
            /\ \A j \in DOMAIN x.texts.slots : j # k => y.texts.slots[j].parent = x.texts.slots[j].parent
        BY <2>3, <3>1, <3>2, RecycleIs, Typed, Assumed
      <3>4. Live(y.texts) = {i \in Live(d.texts) : i \in S => i > k}
        <4>1. \A i \in Live(d.texts) : (i > k - 1 /\ i # k) <=> i > k
          BY <1>3
        <4> QED  BY <1>3, <2>3, <2>5, <3>3, <4>1
      <3>5. \A i \in Live(y.texts) : y.texts.slots[i].parent = d.texts.slots[i].parent
        BY <2>3, <3>3 DEF Live
      <3>6. OtherTexts(d, y)
        BY <2>3, <3>2, OtherTextsTrans
      <3>7. y \in TextsOf(d)
        BY <3>6 DEF TextsOf, OtherTexts
      <3> QED  BY <2>1, <2>2, <3>3, <3>4, <3>5, <3>7
    <2>6. CASE k \notin S
      <3>1. \A i \in Live(d.texts) : i \in S => (i > k - 1 <=> i > k)
        BY <1>3, <2>6
      <3>2. Live(x.texts) = {i \in Live(d.texts) : i \in S => i > k}
        BY <2>3, <3>1
      <3>3. x \in TextsOf(d)
        BY <2>3 DEF TextsOf
      <3> QED  BY <2>1, <2>2, <2>3, <2>4, <2>6, <3>2, <3>3
    <2> QED  BY <2>5, <2>6
  <1>6. \A k \in 0 .. n : f[k] \in P[k]
    <2> HIDE DEF P
    <2> QED  BY <1>3, <1>4, <1>5, FoldKeeps
  <1>7. r \in P[n] /\ n \in 0 .. n
    <2> HIDE DEF P
    <2> QED  BY <1>1, <1>2, <1>3, <1>6
  <1>8. Live(r.texts) = Live(d.texts) \ S
    <2>1. \A i \in Live(d.texts) : ~ (i > n)
      BY <1>3
    <2> QED  BY <1>7, <2>1
  <1> QED  BY <1>7, <1>8 DEF TextsOf

\* What destroy of an element leaves alone.
OtherElements(d, r) ==
    /\ r \in Collections /\ r.texts = d.texts /\ r.fontMap = d.fontMap
    /\ Len(r.elems.slots) = Len(d.elems.slots)
    /\ DOMAIN r.styles.index = DOMAIN d.styles.index

\* An element gives back its style, its font and its slot.
ElementGone(d, r, e) ==
    /\ OtherElements(d, r) /\ r.hash = NoHash
    /\ StyleAt(r) = [StyleAt(d) EXCEPT ![e] = 0] /\ FontAt(r) = [FontAt(d) EXCEPT ![e] = 0]
    /\ Released(d.styles, r.styles, Info(d, e).style) /\ Released(d.fonts, r.fonts, Info(d, e).font)
    /\ \E t : t \in Tables(MaxElems) /\ t.free = d.elems.free /\ Live(t) = Elements(d)
              /\ NextOf(t) = NextOf(d.elems) /\ r.elems = Recycle(t, e) /\ DOMAIN t.slots = DOMAIN d.elems.slots
              /\ \A i \in DOMAIN t.slots : t.slots[i].parent = Info(d, i).parent

LEMMA DestroyElementIs ==
    ASSUME NEW d \in Collections, NEW e \in 1 .. Len(d.elems.slots), NEW r, r = DestroyElement(d, e)
    PROVE  ElementGone(d, r, e)
  <1>1. PICK f : f = ClearNodeStyle(d, e)
    OBVIOUS
  <1>2. /\ Restyled(d, f, e, 0, 0)
        /\ Released(d.styles, f.styles, Info(d, e).style) /\ Released(d.fonts, f.fonts, Info(d, e).font)
        /\ DOMAIN f.styles.index = DOMAIN d.styles.index
        /\ f.fontMap = d.fontMap /\ f.hash = NoHash
    BY <1>1, ClearNodeStyleIs
  <1>3. /\ f \in Collections /\ SameTree(d, f) /\ f.texts = d.texts
        /\ StyleAt(f) = [StyleAt(d) EXCEPT ![e] = 0] /\ FontAt(f) = [FontAt(d) EXCEPT ![e] = 0]
    BY <1>2, SameTreeKeeps DEF Restyled
  <1>4. /\ Elements(f) = Elements(d) /\ DOMAIN f.elems.slots = DOMAIN d.elems.slots
        /\ Len(f.elems.slots) = Len(d.elems.slots)
        /\ \A i \in 1 .. Len(d.elems.slots) : Info(f, i).parent = Info(d, i).parent
    BY <1>3, SameTreeKeeps
  <1>5. PICK t : t = f.elems
    OBVIOUS
  <1>6. PICK u : u = Recycle(t, e)
    OBVIOUS
  <1>7. /\ t \in Tables(MaxElems) /\ MaxElems \in Nat /\ DOMAIN t.slots = 1 .. Len(d.elems.slots)
        /\ DOMAIN d.elems.slots = 1 .. Len(d.elems.slots)
    BY <1>3, <1>4, <1>5, Typed, Assumed, ElementsAre
  <1>8. u \in Tables(MaxElems) /\ Recycled(t, u, e)
    BY <1>6, <1>7, RecycleTypes
  <1>9. r = [f EXCEPT !.elems = u]
    BY <1>1, <1>5, <1>6 DEF DestroyElement
  <1>10. Consists(f, t, f.texts, f.styles, f.fonts, f.fontMap, f.hash)
    BY <1>3, <1>5, Typed DEF Consists, Doc
  <1>11. Consists([f EXCEPT !.elems = u], u, f.texts, f.styles, f.fonts, f.fontMap, f.hash)
    BY <1>10, FieldSet
  <1>12. r = Doc(u, f.texts, f.styles, f.fonts, f.fontMap, f.hash)
    BY <1>9, <1>11 DEF Consists
  <1>13. r \in Collections
    <2>1. /\ f.texts \in Tables(MaxTexts) /\ GoodCache(f.styles, Styles) /\ GoodCache(f.fonts, Fonts)
          /\ Len(f.styles.index) <= Cardinality(Styles)
          /\ f.fontMap \in [StyleIndexes -> Nat] /\ f.hash \in Hashes
      BY <1>3, Typed
    <2>2. r = [elems |-> u, texts |-> f.texts, styles |-> f.styles, fonts |-> f.fonts,
               fontMap |-> f.fontMap, hash |-> f.hash]
      BY <1>12 DEF Doc
    <2> QED  BY <1>8, <2>1, <2>2, MakesCollection
  <1>14. /\ r.elems = u /\ r.texts = f.texts /\ r.styles = f.styles /\ r.fonts = f.fonts
         /\ r.fontMap = f.fontMap /\ r.hash = f.hash
    BY <1>12 DEF Doc
  <1>15. /\ DOMAIN u.slots = DOMAIN t.slots /\ Len(u.slots) = Len(t.slots)
         /\ \A i \in DOMAIN t.slots : u.slots[i].style = t.slots[i].style /\ u.slots[i].font = t.slots[i].font
    BY <1>8 DEF Recycled
  <1>16. StyleAt(r) = StyleAt(f) /\ FontAt(r) = FontAt(f)
    BY <1>5, <1>14, <1>15 DEF StyleAt, FontAt, Info
  <1>17. OtherElements(d, r)
    BY <1>2, <1>3, <1>4, <1>5, <1>13, <1>14, <1>15 DEF OtherElements
  <1>18. /\ t.free = d.elems.free /\ Live(t) = Elements(d)
         /\ NextOf(t) = NextOf(d.elems) /\ r.elems = Recycle(t, e) /\ DOMAIN t.slots = DOMAIN d.elems.slots
         /\ \A i \in DOMAIN t.slots : t.slots[i].parent = Info(d, i).parent
    <2>1. t.free = d.elems.free
      BY <1>3, <1>5 DEF SameTree
    <2>2. Live(t) = Elements(d)
      BY <1>4, <1>5 DEF Elements
    <2>3. NextOf(t) = NextOf(d.elems)
      BY <1>3, <1>5, <1>7 DEF SameTree, NextOf, Info
    <2>4. \A i \in DOMAIN t.slots : t.slots[i].parent = Info(d, i).parent
      BY <1>4, <1>5, <1>7 DEF Info
    <2> QED  BY <1>4, <1>5, <1>6, <1>14, <2>1, <2>2, <2>3, <2>4
  <1> QED  BY <1>2, <1>3, <1>7, <1>14, <1>16, <1>17, <1>18 DEF ElementGone

LEMMA OtherElementsTrans ==
    ASSUME NEW d, NEW x, NEW r, OtherElements(d, x), OtherElements(x, r)
    PROVE  OtherElements(d, r)
  BY DEF OtherElements

LEMMA OtherElementsRefl ==
    ASSUME NEW d \in Collections
    PROVE  OtherElements(d, d)
  BY DEF OtherElements

\* The slots of the others stay as they are.
LEMMA GoneTree ==
    ASSUME NEW d \in Collections, FreeList(d.elems), NEW e \in Elements(d), NEW r, ElementGone(d, r, e)
    PROVE  /\ FreeList(r.elems) /\ Elements(r) = Elements(d) \ {e}
           /\ \A i \in Elements(r) : Info(r, i).parent = Info(d, i).parent
           /\ Bare(d) => Bare(r)
  <1>1. PICK t : /\ t \in Tables(MaxElems) /\ t.free = d.elems.free /\ Live(t) = Elements(d)
                 /\ NextOf(t) = NextOf(d.elems) /\ r.elems = Recycle(t, e) /\ DOMAIN t.slots = DOMAIN d.elems.slots
                 /\ \A i \in DOMAIN t.slots : t.slots[i].parent = Info(d, i).parent
    BY DEF ElementGone
  <1>2. FreeList(t)
    BY <1>1 DEF FreeList, Elements
  <1>3. PICK u : u = Recycle(t, e)
    OBVIOUS
  <1>4. /\ FreeList(u) /\ Live(u) = Live(t) \ {e} /\ DOMAIN u.slots = DOMAIN t.slots
        /\ \A j \in DOMAIN t.slots : j # e => u.slots[j].parent = t.slots[j].parent
    BY <1>1, <1>2, <1>3, RecycleIs, Assumed
  <1>5. Elements(r) = Elements(d) \ {e}
    BY <1>1, <1>3, <1>4 DEF Elements
  <1>6. \A i \in Elements(r) : i # e /\ i \in DOMAIN t.slots
    BY <1>1, <1>5 DEF Elements, Live
  <1>7. \A i \in Elements(r) : Info(r, i).parent = Info(d, i).parent
    BY <1>1, <1>3, <1>4, <1>6 DEF Info
  <1>8. ASSUME Bare(d)  PROVE Bare(r)
    <2>1. /\ StyleAt(d) \in Holdings /\ FontAt(d) \in Holdings
          /\ StyleAt(r) = [StyleAt(d) EXCEPT ![e] = 0] /\ FontAt(r) = [FontAt(d) EXCEPT ![e] = 0]
      BY HoldingsOf DEF ElementGone
    <2>2. ASSUME NEW i \in 1 .. MaxElems, i \notin Elements(r)
          PROVE  StyleAt(r)[i] = 0 /\ FontAt(r)[i] = 0
      <3>1. CASE i = e
        BY <2>1, <3>1 DEF Holdings
      <3>2. CASE i # e
        <4>1. StyleAt(d)[i] = 0 /\ FontAt(d)[i] = 0
          BY <1>5, <1>8, <2>2, <3>2 DEF Bare
        <4> QED  BY <2>1, <3>2, <4>1 DEF Holdings
      <3> QED  BY <3>1, <3>2
    <2> QED  BY <2>2 DEF Bare
  <1> QED  BY <1>1, <1>3, <1>4, <1>5, <1>7, <1>8

LEMMA ReleasedShifts ==
    ASSUME NEW V, NEW y, GoodCache(y, V), NEW r, GoodCache(r, V), Null \notin V, NEW h, Released(y, r, h)
    PROVE  Shifted(y, r, h, 0)
  <1>1. \A m : Count(y, m) \in Nat /\ Count(r, m) \in Nat
    BY CountIs
  <1> QED  BY <1>1 DEF Released, Shifted

LEMMA GoneStyles ==
    ASSUME NEW d \in Collections, NEW e \in Elements(d), NEW r, ElementGone(d, r, e), StylesBacked(d)
    PROVE  /\ StylesBacked(r)
           /\ FontsBacked(d) => FontsBacked(r)
           /\ FontsBacked(d) /\ Follows(d) => Follows(r)
  <1>1. /\ r \in Collections /\ StyleAt(r) = [StyleAt(d) EXCEPT ![e] = 0]
        /\ FontAt(r) = [FontAt(d) EXCEPT ![e] = 0]
        /\ Released(d.styles, r.styles, Info(d, e).style) /\ Released(d.fonts, r.fonts, Info(d, e).font)
    BY DEF ElementGone, OtherElements
  <1>2. /\ GoodCache(d.fonts, Fonts) /\ GoodCache(r.fonts, Fonts)
        /\ GoodCache(d.styles, Styles) /\ GoodCache(r.styles, Styles)
    BY <1>1, Typed
  <1>3. /\ StyleAt(d) \in Holdings /\ FontAt(d) \in Holdings /\ e \in 1 .. MaxElems
        /\ StyleAt(d)[e] = Info(d, e).style /\ FontAt(d)[e] = Info(d, e).font
        /\ StyleAt(r) \in Holdings /\ FontAt(r) \in Holdings
    BY <1>1, HoldingsOf, ElementsAre
  <1>4. Shifted(d.styles, r.styles, StyleAt(d)[e], 0) /\ Shifted(d.fonts, r.fonts, FontAt(d)[e], 0)
    BY <1>1, <1>2, <1>3, ReleasedShifts, Assumed
  <1>5. StylesBacked(r)
    <2>1. Backed([StyleAt(d) EXCEPT ![e] = 0], r.styles)
      BY <1>2, <1>3, <1>4, BackedShifts, Assumed DEF StylesBacked
    <2> QED  BY <1>1, <2>1 DEF StylesBacked
  <1>6. ASSUME FontsBacked(d)  PROVE FontsBacked(r)
    <2>1. Backed([FontAt(d) EXCEPT ![e] = 0], r.fonts)
      BY <1>2, <1>3, <1>4, <1>6, BackedShifts, Assumed DEF FontsBacked
    <2> QED  BY <1>1, <2>1 DEF FontsBacked
  <1>7. ASSUME FontsBacked(d), Follows(d)  PROVE Follows(r)
    <2>1. ASSUME NEW i \in 1 .. MaxElems, StyleAt(r)[i] # 0
          PROVE  Get(r.fonts, FontAt(r)[i]) = FontOf[Get(r.styles, StyleAt(r)[i])]
      <3>1. PICK n, f : n = StyleAt(d)[i] /\ f = FontAt(d)[i]
        OBVIOUS
      <3>2. i # e
        BY <1>1, <1>3, <2>1 DEF Holdings
      <3>3. StyleAt(r)[i] = n /\ FontAt(r)[i] = f /\ n # 0
        BY <1>1, <1>3, <2>1, <3>1, <3>2 DEF Holdings
      <3>4. Holds(d.styles, n) /\ Holds(r.styles, n)
        BY <1>2, <1>3, <1>5, <3>1, <3>3, BackedHolds, Assumed DEF StylesBacked
      <3>5. Get(d.fonts, f) = FontOf[Get(d.styles, n)]
        BY <1>7, <3>1, <3>3 DEF Follows
      <3>6. Get(d.styles, n) \in Styles
        BY <1>2, <3>4, CountIs, Assumed
      <3>7. Holds(d.fonts, f) /\ f # 0
        BY <1>2, <3>5, <3>6, HoldsSome, Assumed
      <3>8. Holds(r.fonts, f)
        BY <1>2, <1>3, <1>6, <1>7, <3>3, <3>7, BackedHolds, Assumed DEF FontsBacked
      <3>9. Get(r.fonts, f) = Get(d.fonts, f) /\ Get(r.styles, n) = Get(d.styles, n)
        BY <1>1, <3>4, <3>8 DEF Released
      <3> QED  BY <3>3, <3>5, <3>9
    <2> QED  BY <2>1, Zenon DEF Follows
  <1> QED  BY <1>5, <1>6, <1>7

\* The collections that differ from d in the elements.
ElementsOf(d) == {x \in Collections : OtherElements(d, x)}

LEMMA ElementRounds ==
    ASSUME NEW d \in Collections, NEW order \in Seq(Elements(d))
    PROVE  \E r : /\ r[0] = d
                  /\ \A k \in 1 .. Len(order) : r[k] = DestroyElement(r[k - 1], order[k])
                  /\ FoldLeft(DestroyElement, d, order) = r[Len(order)]
  <1> DEFINE n == Len(order)
             base == d
             list == order
             Step(x, f) == DestroyElement(x, f)
             it == CHOOSE f : f = [s \in SUBSET (1 .. n) |->
                                      IF s = {} THEN base
                                      ELSE Step(f[s \ {Max(s)}], list[Max(s)])]
             G == [k \in 1 .. n |-> [x \in ElementsOf(d) |-> Step(x, list[k])]]
  <1>1. n \in Nat /\ DOMAIN list = 1 .. n /\ \A k \in 1 .. n : list[k] \in Elements(d)
    BY SeqElements
  <1>2. base \in ElementsOf(d)
    BY OtherElementsRefl DEF ElementsOf
  <1>3. G \in [1 .. n -> [ElementsOf(d) -> ElementsOf(d)]]
    <2>1. ASSUME NEW k \in 1 .. n, NEW x \in ElementsOf(d)  PROVE Step(x, list[k]) \in ElementsOf(d)
      <3>1. x \in Collections /\ OtherElements(d, x)
        BY DEF ElementsOf
      <3>2. list[k] \in 1 .. Len(x.elems.slots)
        BY <1>1, <3>1, ElementsAre DEF OtherElements
      <3>3. PICK y, e : y = DestroyElement(x, e) /\ e = list[k]
        OBVIOUS
      <3>4. OtherElements(x, y)
        BY <3>1, <3>2, <3>3, DestroyElementIs DEF ElementGone
      <3>5. OtherElements(d, y)
        BY <3>1, <3>4, OtherElementsTrans
      <3> QED  BY <3>3, <3>4, <3>5 DEF ElementsOf, OtherElements
    <2> HIDE DEF n, list, Step
    <2> QED  BY <2>1
  <1>4. FoldLeft(DestroyElement, d, order) = it[1 .. n]
    <2>1. DOMAIN list = 1 .. n
      BY <1>1
    <2> QED  BY <2>1, Zenon DEF FoldLeft, FoldLeft, MapThenFoldSet
  <1>5. \E f : f = [s \in SUBSET (1 .. n) |->
                       IF s = {} THEN base ELSE Step(f[s \ {Max(s)}], list[Max(s)])]
    <2>0. n \in Nat
      BY <1>1
    <2> HIDE DEF base, G, n, Step, list
    <2>1. PICK f : FoldsOver(f, ElementsOf(d), base, n, G)
      BY <2>0, <1>2, <1>3, FoldExists, Zenon
    <2>2. ASSUME NEW s \in SUBSET (1 .. n), s # {}
          PROVE  G[Max(s)][f[s \ {Max(s)}]] = Step(f[s \ {Max(s)}], list[Max(s)])
      <3>1. Max(s) \in 1 .. n
        BY <2>0, <2>2, LargestIn
      <3>2. f[s \ {Max(s)}] \in ElementsOf(d)
        BY <2>1, <3>1 DEF FoldsOver
      <3> QED  BY <3>1, <3>2 DEF G
    <2>3. [s \in SUBSET (1 .. n) |->
              IF s = {} THEN base ELSE G[Max(s)][f[s \ {Max(s)}]]]
          = [s \in SUBSET (1 .. n) |->
                IF s = {} THEN base ELSE Step(f[s \ {Max(s)}], list[Max(s)])]
      BY <2>2, Zenon
    <2>4. f = [s \in SUBSET (1 .. n) |->
                IF s = {} THEN base ELSE Step(f[s \ {Max(s)}], list[Max(s)])]
      BY <2>1, <2>3, Zenon DEF FoldsOver
    <2> QED  BY <2>4, Zenon
  <1>6. it = [s \in SUBSET (1 .. n) |->
                 IF s = {} THEN base ELSE Step(it[s \ {Max(s)}], list[Max(s)])]
    <2> HIDE DEF base, n, Step, list
    <2> QED  BY <1>5, Zenon
  <1> DEFINE r == [k \in 0 .. n |-> it[1 .. k]]
  <1> HIDE DEF it, base, Step, n, list
  <1>7. r[0] = base
    BY <1>1, <1>6
  <1>8. ASSUME NEW k \in 1 .. n  PROVE r[k] = Step(r[k - 1], list[k])
    <2>1. k \in 0 .. n /\ k - 1 \in 0 .. n
      BY <1>1
    <2>2. /\ 1 .. k \in SUBSET (1 .. n) /\ 1 .. k # {} /\ Max(1 .. k) = k
          /\ (1 .. k) \ {k} = 1 .. k - 1
      BY <1>1, FoldPlaces
    <2>3. it[1 .. k] = IF 1 .. k = {} THEN base
                       ELSE Step(it[(1 .. k) \ {Max(1 .. k)}], list[Max(1 .. k)])
      BY <1>6, <2>2, Zenon
    <2>4. it[1 .. k] = Step(it[1 .. k - 1], list[k])
      BY <2>2, <2>3, Zenon
    <2> QED  BY <2>1, <2>4, Zenon
  <1>9. r[n] = it[1 .. n]
    BY <1>1
  <1>10. \E r1 : /\ r1[0] = base /\ \A k \in 1 .. n : r1[k] = Step(r1[k - 1], list[k])
                 /\ FoldLeft(DestroyElement, d, order) = r1[n]
    <2> HIDE DEF r
    <2> QED  BY <1>4, <1>7, <1>8, <1>9, Zenon
  <1> QED  BY <1>10, Zenon DEF base, Step, n, list

\* A set of elements that has e and what is below its members.
Closed(d, e, S) ==
    /\ S \subseteq Elements(d) /\ e \in S
    /\ \A x \in Elements(d) : Info(d, x).parent # 0 /\ Info(d, x).parent \in S => x \in S

\* What destroy takes.
LEMMA DoomedIs ==
    ASSUME NEW d \in Collections, Tree(d), NEW e \in Elements(d)
    PROVE  /\ Doomed(d, e) \subseteq Elements(d) /\ e \in Doomed(d, e)
           /\ \A x \in Elements(d) :
                  x \in Doomed(d, e) <=> \/ x = e
                                         \/ Info(d, x).parent # 0 /\ Info(d, x).parent \in Doomed(d, e)
  <1> DEFINE E == Elements(d)
             par(x) == Info(d, x).parent
             inside == CHOOSE g : g = [x \in E |-> x = e \/ (par(x) # 0 /\ g[par(x)])]
             D == {x \in E : \A S \in SUBSET E : Closed(d, e, S) => x \in S}
  <1>1. \A x \in E : par(x) # 0 => par(x) \in E
    BY DEF Tree
  <1>2. Closed(d, e, D)
    <2>1. e \in D
      BY DEF Closed
    <2>2. \A x \in E : par(x) # 0 /\ par(x) \in D => x \in D
      BY DEF Closed
    <2> QED  BY <2>1, <2>2 DEF Closed
  <1>3. \A x \in E : x \in D <=> x = e \/ (par(x) # 0 /\ par(x) \in D)
    <2> DEFINE F == {x \in E : x = e \/ (par(x) # 0 /\ par(x) \in D)}
    <2>1. F \subseteq D
      BY <1>2 DEF Closed
    <2>2. Closed(d, e, F)
      BY <2>1 DEF Closed
    <2>3. D \subseteq F
      BY <2>2
    <2> QED  BY <2>1, <2>3
  <1>4. \E g : g = [x \in E |-> x = e \/ (par(x) # 0 /\ g[par(x)])]
    <2>1. PICK g : g = [x \in E |-> x \in D]
      OBVIOUS
    <2>2. \A x \in E : (x \in D) <=> (x = e \/ (par(x) # 0 /\ g[par(x)]))
      <3> HIDE DEF D, par
      <3> QED  BY <1>1, <1>3, <2>1
    <2>3. [x \in E |-> x \in D] = [x \in E |-> x = e \/ (par(x) # 0 /\ g[par(x)])]
      <3> HIDE DEF D, E, par
      <3> QED  BY <2>2
    <2> QED  BY <2>1, <2>3, Zenon
  <1>5. inside = [x \in E |-> x = e \/ (par(x) # 0 /\ inside[par(x)])]
    <2> HIDE DEF D, E, par
    <2> QED  BY <1>4, Zenon
  <1>6. Doomed(d, e) = {x \in E : inside[x]}
    BY Zenon DEF Doomed, Subtree
  <1>7. \A x \in E : inside[x] <=> x = e \/ (par(x) # 0 /\ inside[par(x)])
    <2> HIDE DEF inside, E, par
    <2> QED  BY <1>5
  <1> HIDE DEF inside
  <1> QED  BY <1>1, <1>6, <1>7

LEMMA AllInOrder ==
    ASSUME NEW S, IsFiniteSet(S), NEW order \in SetToSeqs(S)
    PROVE  \A x \in S : \E j \in 1 .. Len(order) : order[j] = x
  <1>1. PICK n : n = Cardinality(S)
    OBVIOUS
  <1>2. n \in Nat /\ order \in [1 .. n -> S] /\ \A i, j \in 1 .. n : i # j => order[i] # order[j]
    BY <1>1, FS_CardinalityType DEF SetToSeqs
  <1>3. order \in Injection(1 .. n, S)
    BY <1>2 DEF Injection, IsInjective
  <1>4. Cardinality(1 .. n) = n
    BY <1>2, FS_Interval
  <1>5. order \in Surjection(1 .. n, S)
    BY <1>1, <1>3, <1>4, FS_Injection
  <1>6. Len(order) = n
    BY <1>2
  <1> QED  BY <1>5, <1>6 DEF Surjection

\* What removeChild and destroy of an element do.
LEMMA RemovedIs ==
    ASSUME NEW d, Sound(d), StylesBacked(d), NEW e \in Elements(d) \ {Root},
           NEW texts, texts = {i \in Live(d.texts) : d.texts.slots[i].parent \in Doomed(d, e)},
           NEW order \in SetToSeqs(Doomed(d, e)),
           NEW r, r = FoldLeft(DestroyElement, DestroyTexts(d, texts), order)
    PROVE  /\ Sound(r) /\ StylesBacked(r) /\ r.hash = NoHash /\ r.fontMap = d.fontMap
           /\ DOMAIN r.styles.index = DOMAIN d.styles.index
           /\ FontsBacked(d) /\ Follows(d) => FontsBacked(r) /\ Follows(r)
  <1>1. PICK S, x0 : S = Doomed(d, e) /\ x0 = DestroyTexts(d, texts)
    OBVIOUS
  <1>2. d \in Collections /\ Tree(d) /\ Bare(d) /\ FreeList(d.elems) /\ FreeList(d.texts)
    BY DEF Sound, Tree
  <1>3. /\ S \subseteq Elements(d) /\ e \in S
        /\ \A x \in Elements(d) :
               x \in S <=> x = e \/ (Info(d, x).parent # 0 /\ Info(d, x).parent \in S)
    BY <1>1, <1>2, DoomedIs
  <1>4. /\ OtherTexts(d, x0) /\ FreeList(x0.texts) /\ Live(x0.texts) = Live(d.texts) \ texts
        /\ \A i \in Live(x0.texts) : x0.texts.slots[i].parent = d.texts.slots[i].parent
    BY <1>1, <1>2, DestroyTextsIs
  <1>5. /\ x0 \in Collections /\ x0.elems = d.elems /\ x0.styles = d.styles /\ x0.fonts = d.fonts
        /\ x0.fontMap = d.fontMap
    BY <1>4 DEF OtherTexts
  <1>6. /\ Elements(x0) = Elements(d) /\ StyleAt(x0) = StyleAt(d) /\ FontAt(x0) = FontAt(d)
        /\ \A x : Info(x0, x) = Info(d, x)
    BY <1>5 DEF Elements, StyleAt, FontAt, Info
  <1>7. IsFiniteSet(S)
    BY <1>2, <1>3, ElementsFinite, FS_Subset
  <1>8. /\ order \in Seq(S) /\ Len(order) \in Nat
        /\ \A i, j \in 1 .. Len(order) : i # j => order[i] # order[j]
    BY <1>1, <1>7, InOrder
  <1>9. order \in Seq(Elements(x0)) /\ \A j \in 1 .. Len(order) : order[j] \in S
    <2>1. \A j \in 1 .. Len(order) : order[j] \in S
      BY <1>8, SeqElements
    <2>2. \A j \in 1 .. Len(order) : order[j] \in Elements(x0)
      BY <1>3, <1>6, <2>1
    <2> QED  BY <1>8, <2>1, <2>2, SeqIn
  <1>10. PICK f : /\ f[0] = x0
                  /\ \A k \in 1 .. Len(order) : f[k] = DestroyElement(f[k - 1], order[k])
                  /\ r = f[Len(order)]
    BY <1>1, <1>5, <1>9, ElementRounds
  <1>11. PICK n : n = Len(order)
    OBVIOUS
  <1>12. n \in Nat /\ n >= 1
    <2>1. \E j \in 1 .. Len(order) : order[j] = e
      BY <1>1, <1>3, <1>7, AllInOrder
    <2> QED  BY <1>8, <1>11, <2>1
  <1> DEFINE Fonts0(x) == FontsBacked(x) /\ Follows(x)
             P == [k \in 0 .. n |->
                      {x \in ElementsOf(x0) :
                          /\ FreeList(x.elems) /\ Bare(x) /\ StylesBacked(x)
                          /\ Elements(x) = {i \in Elements(d) : \A j \in 1 .. k : i # order[j]}
                          /\ \A i \in Elements(x) : Info(x, i).parent = Info(d, i).parent
                          /\ Fonts0(d) => Fonts0(x)
                          /\ k # 0 => x.hash = NoHash}]
  <1>13. f[0] \in P[0]
    <2>1. x0 \in ElementsOf(x0)
      BY <1>5, OtherElementsRefl DEF ElementsOf
    <2>2. FreeList(x0.elems) /\ Bare(x0) /\ StylesBacked(x0)
      BY <1>2, <1>5, <1>6 DEF Bare, StylesBacked
    <2>3. Elements(x0) = {i \in Elements(d) : \A j \in 1 .. 0 : i # order[j]}
      BY <1>6
    <2>4. Fonts0(d) => Fonts0(x0)
      BY <1>5, <1>6 DEF FontsBacked, Follows
    <2> HIDE DEF Fonts0
    <2> QED  BY <1>6, <1>10, <1>12, <2>1, <2>2, <2>3, <2>4
  <1>14. ASSUME NEW k \in 1 .. n, f[k - 1] \in P[k - 1]  PROVE f[k] \in P[k]
    <2>1. PICK x, y, a : x = f[k - 1] /\ y = f[k] /\ a = order[k]
      OBVIOUS
    <2>2. k - 1 \in 0 .. n /\ k \in 0 .. n
      BY <1>12
    <2>3. /\ x \in ElementsOf(x0) /\ FreeList(x.elems) /\ Bare(x) /\ StylesBacked(x)
          /\ Elements(x) = {i \in Elements(d) : \A j \in 1 .. k - 1 : i # order[j]}
          /\ \A i \in Elements(x) : Info(x, i).parent = Info(d, i).parent
          /\ Fonts0(d) => Fonts0(x)
      <3> HIDE DEF Fonts0
      <3> QED  BY <1>14, <2>1, <2>2
    <2>4. a \in Elements(x)
      <3>1. \A j \in 1 .. k - 1 : j \in 1 .. n /\ j # k
        BY <1>12
      <3>2. \A j \in 1 .. k - 1 : a # order[j]
        BY <1>8, <1>11, <2>1, <3>1
      <3>3. a \in Elements(d)
        BY <1>3, <1>9, <1>11, <2>1
      <3> QED  BY <2>3, <3>2, <3>3
    <2>5. x \in Collections /\ OtherElements(x0, x) /\ a \in 1 .. Len(x.elems.slots)
      BY <2>3, <2>4, ElementsAre DEF ElementsOf
    <2>6. ElementGone(x, y, a)
      <3>1. y = DestroyElement(x, a)
        BY <1>10, <1>11, <2>1
      <3> QED  BY <2>5, <3>1, DestroyElementIs
    <2>7. OtherElements(x, y) /\ y.hash = NoHash
      BY <2>6 DEF ElementGone
    <2>8. y \in ElementsOf(x0)
      <3>1. OtherElements(x0, y)
        BY <2>5, <2>7, OtherElementsTrans
      <3> QED  BY <3>1 DEF ElementsOf, OtherElements
    <2>9. /\ FreeList(y.elems) /\ Elements(y) = Elements(x) \ {a} /\ Bare(y)
          /\ \A i \in Elements(y) : Info(y, i).parent = Info(x, i).parent
      BY <2>3, <2>4, <2>5, <2>6, GoneTree
    <2>10. StylesBacked(y) /\ (Fonts0(x) => Fonts0(y))
      BY <2>3, <2>4, <2>5, <2>6, GoneStyles
    <2>11. Elements(y) = {i \in Elements(d) : \A j \in 1 .. k : i # order[j]}
      <3>1. \A j : j \in 1 .. k <=> j \in 1 .. k - 1 \/ j = k
        BY <1>12
      <3> QED  BY <2>1, <2>3, <2>9, <3>1
    <2>12. \A i \in Elements(y) : Info(y, i).parent = Info(d, i).parent
      BY <2>3, <2>9
    <2> HIDE DEF Fonts0
    <2> QED  BY <2>1, <2>2, <2>3, <2>7, <2>8, <2>9, <2>10, <2>11, <2>12
  <1>15. \A k \in 0 .. n : f[k] \in P[k]
    <2> HIDE DEF P
    <2> QED  BY <1>12, <1>13, <1>14, FoldKeeps
  <1>16. r \in P[n] /\ n \in 0 .. n /\ n # 0
    <2> HIDE DEF P
    <2> QED  BY <1>10, <1>11, <1>12, <1>15
  <1>17. /\ r \in ElementsOf(x0) /\ FreeList(r.elems) /\ Bare(r) /\ StylesBacked(r)
         /\ Elements(r) = {i \in Elements(d) : \A j \in 1 .. n : i # order[j]}
         /\ \A i \in Elements(r) : Info(r, i).parent = Info(d, i).parent
         /\ (Fonts0(d) => Fonts0(r)) /\ r.hash = NoHash
    <2> HIDE DEF Fonts0
    <2> QED  BY <1>16
  <1>18. Elements(r) = Elements(d) \ S
    <2>1. \A x \in S : \E j \in 1 .. n : order[j] = x
      BY <1>1, <1>7, <1>11, AllInOrder
    <2> QED  BY <1>9, <1>11, <1>17, <2>1
  <1>19. OtherElements(x0, r)
    BY <1>17 DEF ElementsOf
  <1>20. r \in Collections /\ r.texts = x0.texts /\ r.fontMap = d.fontMap
         /\ DOMAIN r.styles.index = DOMAIN d.styles.index
    BY <1>5, <1>19 DEF OtherElements
  <1>21. Tree(r)
    <2>1. Root \in Elements(r) /\ Info(r, Root).parent = 0
      <3>1. Root \in Elements(d) /\ Info(d, Root).parent = 0
        BY <1>2 DEF Tree
      <3>2. Root \notin S
        BY <1>3, <3>1
      <3> QED  BY <1>17, <1>18, <3>1, <3>2
    <2>2. ASSUME NEW x \in Elements(r) \ {Root}  PROVE Info(r, x).parent \in Elements(r)
      <3>1. x \in Elements(d) /\ x \notin S /\ Info(r, x).parent = Info(d, x).parent
        BY <1>17, <1>18
      <3>2. Info(d, x).parent \in Elements(d)
        BY <1>2, <3>1 DEF Tree
      <3>3. Info(d, x).parent # 0
        BY <1>2, <3>2, ElementsAre
      <3>4. Info(d, x).parent \notin S
        BY <1>3, <3>1, <3>3
      <3> QED  BY <1>18, <3>1, <3>2, <3>4
    <2>3. ASSUME NEW i \in Live(r.texts)  PROVE r.texts.slots[i].parent \in Elements(r)
      <3>1. i \in Live(d.texts) /\ i \notin texts /\ r.texts.slots[i].parent = d.texts.slots[i].parent
        BY <1>4, <1>20
      <3>2. d.texts.slots[i].parent \in Elements(d)
        BY <1>2, <3>1 DEF Tree
      <3>3. d.texts.slots[i].parent \notin S
        BY <1>1, <3>1
      <3> QED  BY <1>18, <3>1, <3>2, <3>3
    <2> QED  BY <1>4, <1>17, <1>20, <2>1, <2>2, <2>3 DEF Tree
  <1> QED  BY <1>17, <1>20, <1>21 DEF Sound

-----------------------------------------------------------------------------
(* updateLoadedStyles, and what a cache file brings back.                  *)

\* An element of a loaded document has the font b of the style under s, which has the font v.
FontLoaded(d, r, e, s, v, b) ==
    /\ Restyled(d, r, e, s, b) /\ b \in Nat \ {0} /\ r.styles = d.styles
    /\ r.fontMap = [d.fontMap EXCEPT ![s] = b] /\ (d.hash = NoHash => r.hash = NoHash)
    /\ d.fontMap[s] # 0 => b = d.fontMap[s]
    /\ d.fontMap[s] = 0 => Get(r.fonts, b) = v
    /\ \A m : Holds(d.fonts, m) => Holds(r.fonts, m) /\ Get(r.fonts, m) = Get(d.fonts, m)
    /\ Holds(r.fonts, b) => Shifted(d.fonts, r.fonts, 0, b)

LEMMA UpdateLoadedIs ==
    ASSUME NEW d \in Collections, NEW e \in 1 .. Len(d.elems.slots), NEW s, s = Info(d, e).style,
           s \in StyleIndexes, NEW list, list[s] \in Styles, NEW r, r = UpdateLoaded(d, e, list)
    PROVE  \E b : FontLoaded(d, r, e, s, FontOf[list[s]], b)
  <1>1. PICK v : v = FontOf[list[s]]
    OBVIOUS
  <1>2. PICK b : b = IF d.fontMap[s] = 0 THEN CachedAt(d.fonts, v) ELSE d.fontMap[s]
    OBVIOUS
  <1>3. PICK z : z = IF d.fontMap[s] = 0 THEN Cache(d.fonts, v) ELSE AddIndexRef(d.fonts, b)
    OBVIOUS
  <1>4. PICK mp : mp = [d.fontMap EXCEPT ![s] = b]
    OBVIOUS
  <1>5. /\ GoodCache(d.styles, Styles) /\ GoodCache(d.fonts, Fonts)
        /\ Len(d.styles.index) <= Cardinality(Styles)
        /\ d.fontMap \in [StyleIndexes -> Nat] /\ d.hash \in Hashes
        /\ Consists(d, d.elems, d.texts, d.styles, d.fonts, d.fontMap, d.hash)
    BY Typed DEF Consists, Doc
  <1>6. v \in Fonts /\ s # 0 /\ list[s] # Null
    BY <1>1, Assumed DEF StyleIndexes
  <1>7. \A m : Count(d.fonts, m) \in Nat
    BY <1>5, CountIs, Assumed
  <1>8. /\ GoodCache(z, Fonts) /\ b \in Nat \ {0}
        /\ d.fontMap[s] = 0 => Get(z, b) = v
        /\ \A m : Holds(d.fonts, m) => Holds(z, m) /\ Get(z, m) = Get(d.fonts, m)
        /\ Holds(z, b) => \A m : Count(z, m) = IF m = b THEN Count(d.fonts, m) + 1 ELSE Count(d.fonts, m)
    <2>1. CASE d.fontMap[s] = 0
      <3>1. z = Cache(d.fonts, v) /\ b = CachedAt(d.fonts, v)
        BY <1>2, <1>3, <2>1
      <3>2. GoodCache(z, Fonts) /\ Added(d.fonts, z, b, v)
        BY <1>5, <1>6, <3>1, CacheIs, Assumed
      <3>3. b \in 1 .. Len(z.index) /\ Len(z.index) \in Nat
        BY <3>2, CacheTypes DEF Added, GoodCache
      <3> QED  BY <3>2, <3>3 DEF Added
    <2>2. CASE d.fontMap[s] # 0
      <3>1. z = AddIndexRef(d.fonts, b) /\ b = d.fontMap[s]
        BY <1>2, <1>3, <2>2
      <3>2. b \in Nat \ {0}
        BY <1>5, <2>2, <3>1
      <3> QED  BY <1>5, <2>2, <3>1, <3>2, AddIndexRefIs, Assumed
    <2> QED  BY <2>1, <2>2
  <1>9. mp \in [StyleIndexes -> Nat]
    BY <1>4, <1>5, <1>8
  <1>10. PICK d1 : d1 = [d EXCEPT !.fonts = z]
    OBVIOUS
  <1>11. PICK d2 : d2 = [d1 EXCEPT !.fontMap = mp]
    OBVIOUS
  <1>12. Consists(d1, d.elems, d.texts, d.styles, z, d.fontMap, d.hash)
    BY <1>5, <1>10, FieldSet
  <1>13. Consists(d2, d.elems, d.texts, d.styles, z, mp, d.hash)
    <2>1. Consists([d1 EXCEPT !.fontMap = mp], d.elems, d.texts, d.styles, z, mp, d.hash)
      BY <1>12 DEF Consists, Doc
    <2> QED  BY <1>11, <2>1, Zenon
  <1>14. /\ d2.elems = d.elems /\ d2.texts = d.texts /\ d2.fonts = z /\ d2.styles = d.styles
         /\ d2.fontMap = mp /\ d2.hash = d.hash
         /\ d2 = [elems |-> d.elems, texts |-> d.texts, styles |-> d.styles, fonts |-> z,
                  fontMap |-> mp, hash |-> d.hash]
    BY <1>13 DEF Consists, Doc
  <1>15. d2 \in Collections
    BY <1>5, <1>8, <1>9, <1>14, Typed, MakesCollection
  <1>16. r = SetFontIndex(d2, e, b)
    <2>1. d1.fontMap = d.fontMap
      BY <1>12 DEF Consists, Doc
    <2>2. [d EXCEPT !.fonts = z, !.fontMap[s] = b] = [d1 EXCEPT !.fontMap[s] = b]
      BY <1>10
    <2>3. [d1 EXCEPT !.fontMap[s] = b] = d2
      BY <1>4, <1>11, <2>1
    <2>4. r = SetFontIndex([d EXCEPT !.fonts = z, !.fontMap[s] = b], e, b)
      BY <1>1, <1>2, <1>3, <1>6, Zenon DEF UpdateLoaded
    <2> QED  BY <2>2, <2>3, <2>4
  <1>17. Info(d2, e) = Info(d, e) /\ e \in 1 .. Len(d2.elems.slots)
    BY <1>14 DEF Info
  <1>18. /\ Restyled(d2, r, e, s, b) /\ r.styles = d.styles /\ r.fonts = z /\ r.fontMap = mp
         /\ r.hash = NoHash \/ r = d2
    BY <1>8, <1>14, <1>15, <1>16, <1>17, SetFontIndexIs
  <1>19. Restyled(d, r, e, s, b)
    BY <1>14, <1>18, RestyledFrom
  <1>20. Holds(z, b) => Shifted(d.fonts, z, 0, b)
    BY <1>7, <1>8 DEF Shifted
  <1>21. d.fontMap[s] # 0 => b = d.fontMap[s]
    BY <1>2
  <1>22. FontLoaded(d, r, e, s, v, b)
    BY <1>4, <1>8, <1>14, <1>18, <1>19, <1>20, <1>21 DEF FontLoaded
  <1> QED  BY <1>1, <1>22

\* The collections with the tree and the styles of d.
LoadsOf(d) == {x \in TreesOf(d) : StyleAt(x) = StyleAt(d)}

\* The elements of a document have styles of a list.
Listed(d, list) ==
    \A e \in Elements(d) : Info(d, e).style \in StyleIndexes /\ list[Info(d, e).style] \in Styles

LEMMA LoadStays ==
    ASSUME NEW d \in Collections, NEW x \in LoadsOf(d), NEW list, Listed(d, list), NEW e \in Elements(d),
           NEW y, y = UpdateLoaded(x, e, list)
    PROVE  /\ y \in LoadsOf(d)
           /\ \E b : FontLoaded(x, y, e, StyleAt(d)[e], FontOf[list[StyleAt(d)[e]]], b)
  <1>1. x \in TreesOf(d) /\ StyleAt(x) = StyleAt(d) /\ x \in Collections
    BY DEF LoadsOf, TreesOf
  <1>2. PICK s : s = StyleAt(d)[e]
    OBVIOUS
  <1>3. e \in 1 .. Len(x.elems.slots) /\ e \in 1 .. Len(d.elems.slots)
    BY <1>1, InTree, ElementsAre
  <1>4. s = Info(x, e).style /\ s = Info(d, e).style /\ StyleAt(x) = [StyleAt(x) EXCEPT ![e] = s]
    BY <1>1, <1>2, <1>3, InfoIs
  <1>5. s \in StyleIndexes /\ list[s] \in Styles
    BY <1>4 DEF Listed
  <1>6. PICK b : FontLoaded(x, y, e, s, FontOf[list[s]], b)
    BY <1>1, <1>3, <1>4, <1>5, UpdateLoadedIs
  <1>7. y \in Collections /\ SameTree(x, y) /\ StyleAt(y) = [StyleAt(x) EXCEPT ![e] = s]
    BY <1>6 DEF FontLoaded, Restyled
  <1>8. y \in LoadsOf(d)
    BY <1>1, <1>4, <1>7, TreeStays DEF LoadsOf
  <1> QED  BY <1>2, <1>6, <1>8

\* One round of updateLoadedStyles.
LoadRound(W, list, x, e) == IF e \in W THEN UpdateLoaded(x, e, list) ELSE x

\* The collection before the rounds.
Forgotten(d) == [d EXCEPT !.fontMap = NoFonts, !.hash = NoHash]

LEMMA ForgottenIs ==
    ASSUME NEW d \in Collections, NEW r, r = Forgotten(d)
    PROVE  /\ r \in Collections /\ r.elems = d.elems /\ r.texts = d.texts /\ r.styles = d.styles
           /\ r.fonts = d.fonts /\ r.fontMap = NoFonts /\ r.hash = NoHash
           /\ SameTree(d, r) /\ StyleAt(r) = StyleAt(d) /\ FontAt(r) = FontAt(d)
  <1>1. PICK d1 : d1 = [d EXCEPT !.fontMap = NoFonts]
    OBVIOUS
  <1>2. /\ d1 \in Collections /\ d1.elems = d.elems /\ d1.texts = d.texts /\ d1.styles = d.styles
        /\ d1.fonts = d.fonts /\ d1.fontMap = NoFonts
    BY <1>1, MapSet, NoFontsIs
  <1>3. r = [d1 EXCEPT !.hash = NoHash]
    BY <1>1 DEF Forgotten
  <1>4. NoHash \in Hashes
    BY DEF Hashes
  <1>5. /\ r \in Collections /\ r.elems = d.elems /\ r.texts = d.texts /\ r.styles = d.styles
        /\ r.fonts = d.fonts /\ r.fontMap = NoFonts /\ r.hash = NoHash
    BY <1>2, <1>3, <1>4, HashSet
  <1> QED  BY <1>5 DEF SameTree, StyleAt, FontAt, Info

LEMMA LoadRounds ==
    ASSUME NEW d \in Collections, Listed(d, GetIndex(d.styles))
    PROVE  \E r : /\ r[0] = Forgotten(d)
                  /\ \A k \in 1 .. Len(d.elems.slots) :
                          r[k] = LoadRound(Walked(d), GetIndex(d.styles), r[k - 1], Places(d.elems)[k])
                  /\ UpdateLoadedStyles(d, TRUE) = r[Len(d.elems.slots)]
  <1> DEFINE n == Len(d.elems.slots)
             base == Forgotten(d)
             list == Places(d.elems)
             Step(x, f) == LoadRound(Walked(d), GetIndex(d.styles), x, f)
             it == CHOOSE f : f = [s \in SUBSET (1 .. n) |->
                                      IF s = {} THEN base
                                      ELSE Step(f[s \ {Max(s)}], list[Max(s)])]
             G == [k \in 1 .. n |-> [x \in LoadsOf(d) |-> Step(x, list[k])]]
  <1>1. n \in Nat /\ DOMAIN list = 1 .. n /\ \A k \in 1 .. n : list[k] = k
    BY PlacesAre, Typed, Assumed
  <1>2. base \in LoadsOf(d)
    BY ForgottenIs DEF LoadsOf, TreesOf
  <1>3. G \in [1 .. n -> [LoadsOf(d) -> LoadsOf(d)]]
    <2>1. ASSUME NEW k \in 1 .. n, NEW x \in LoadsOf(d)  PROVE Step(x, list[k]) \in LoadsOf(d)
      <3>1. CASE list[k] \in Walked(d)
        <4>1. list[k] \in Elements(d)
          BY <3>1, HashIs
        <4>2. Step(x, list[k]) = UpdateLoaded(x, list[k], GetIndex(d.styles))
          BY <3>1 DEF LoadRound
        <4> QED  BY <4>1, <4>2, LoadStays
      <3>2. CASE list[k] \notin Walked(d)
        BY <3>2 DEF LoadRound
      <3> QED  BY <3>1, <3>2
    <2> HIDE DEF n, list, Step
    <2> QED  BY <2>1
  <1>4. UpdateLoadedStyles(d, TRUE) = it[1 .. n]
    <2>1. DOMAIN list = 1 .. n
      BY <1>1
    <2> QED  BY <2>1, Zenon DEF UpdateLoadedStyles, LoadRound, Forgotten, FoldLeft, MapThenFoldSet
  <1>5. \E f : f = [s \in SUBSET (1 .. n) |->
                       IF s = {} THEN base ELSE Step(f[s \ {Max(s)}], list[Max(s)])]
    <2>0. n \in Nat
      BY <1>1
    <2> HIDE DEF base, G, n, Step, list
    <2>1. PICK f : FoldsOver(f, LoadsOf(d), base, n, G)
      BY <2>0, <1>2, <1>3, FoldExists, Zenon
    <2>2. ASSUME NEW s \in SUBSET (1 .. n), s # {}
          PROVE  G[Max(s)][f[s \ {Max(s)}]] = Step(f[s \ {Max(s)}], list[Max(s)])
      <3>1. Max(s) \in 1 .. n
        BY <2>0, <2>2, LargestIn
      <3>2. f[s \ {Max(s)}] \in LoadsOf(d)
        BY <2>1, <3>1 DEF FoldsOver
      <3> QED  BY <3>1, <3>2 DEF G
    <2>3. [s \in SUBSET (1 .. n) |->
              IF s = {} THEN base ELSE G[Max(s)][f[s \ {Max(s)}]]]
          = [s \in SUBSET (1 .. n) |->
                IF s = {} THEN base ELSE Step(f[s \ {Max(s)}], list[Max(s)])]
      BY <2>2, Zenon
    <2>4. f = [s \in SUBSET (1 .. n) |->
                IF s = {} THEN base ELSE Step(f[s \ {Max(s)}], list[Max(s)])]
      BY <2>1, <2>3, Zenon DEF FoldsOver
    <2> QED  BY <2>4, Zenon
  <1>6. it = [s \in SUBSET (1 .. n) |->
                 IF s = {} THEN base ELSE Step(it[s \ {Max(s)}], list[Max(s)])]
    <2> HIDE DEF base, n, Step, list
    <2> QED  BY <1>5, Zenon
  <1> DEFINE r == [k \in 0 .. n |-> it[1 .. k]]
  <1> HIDE DEF it, base, Step, n, list
  <1>7. r[0] = base
    BY <1>1, <1>6
  <1>8. ASSUME NEW k \in 1 .. n  PROVE r[k] = Step(r[k - 1], list[k])
    <2>1. k \in 0 .. n /\ k - 1 \in 0 .. n
      BY <1>1
    <2>2. /\ 1 .. k \in SUBSET (1 .. n) /\ 1 .. k # {} /\ Max(1 .. k) = k
          /\ (1 .. k) \ {k} = 1 .. k - 1
      BY <1>1, FoldPlaces
    <2>3. it[1 .. k] = IF 1 .. k = {} THEN base
                       ELSE Step(it[(1 .. k) \ {Max(1 .. k)}], list[Max(1 .. k)])
      BY <1>6, <2>2, Zenon
    <2>4. it[1 .. k] = Step(it[1 .. k - 1], list[k])
      BY <2>2, <2>3, Zenon
    <2> QED  BY <2>1, <2>4, Zenon
  <1>9. r[n] = it[1 .. n]
    BY <1>1
  <1>10. \E r1 : /\ r1[0] = base /\ \A k \in 1 .. n : r1[k] = Step(r1[k - 1], list[k])
                 /\ UpdateLoadedStyles(d, TRUE) = r1[n]
    <2> HIDE DEF r
    <2> QED  BY <1>4, <1>7, <1>8, <1>9, Zenon
  <1> QED  BY <1>10, Zenon DEF base, Step, n, list

LEMMA PrefixMoves ==
    ASSUME NEW h \in Holdings, NEW k \in 1 .. MaxElems, NEW a \in Nat
    PROVE  Prefix([h EXCEPT ![k] = a], k) = [Prefix(h, k - 1) EXCEPT ![k] = a]
  <1>1. PICK g : g = [h EXCEPT ![k] = a]
    OBVIOUS
  <1>2. g \in Holdings /\ g[k] = a /\ \A e \in 1 .. MaxElems : e # k => g[e] = h[e]
    BY <1>1 DEF Holdings
  <1>3. MaxElems \in Nat
    BY Assumed
  <1>4. Prefix(g, k - 1) = Prefix(h, k - 1)
    <2>1. \A e \in 1 .. MaxElems : (IF e <= k - 1 THEN g[e] ELSE 0) = IF e <= k - 1 THEN h[e] ELSE 0
      BY <1>2, <1>3
    <2> QED  BY <2>1 DEF Prefix
  <1>5. Prefix(g, k) = [Prefix(g, k - 1) EXCEPT ![k] = g[k]]
    BY <1>2, PrefixIs
  <1> QED  BY <1>1, <1>2, <1>4, <1>5

\* The first k elements of x have the fonts of their styles, with a reference each.
LoadedTo(x, k) ==
    /\ Backed(Prefix(FontAt(x), k), x.fonts) /\ MapStrict(x)
    /\ \A e \in 1 .. MaxElems :
           e <= k /\ StyleAt(x)[e] # 0 =>
               Get(x.fonts, FontAt(x)[e]) = FontOf[Get(x.styles, StyleAt(x)[e])]

LEMMA LoadedOne ==
    ASSUME NEW x \in Collections, NEW e \in 1 .. Len(x.elems.slots), NEW y, NEW b,
           LoadedTo(x, e - 1), StylesHeld(x), StyleAt(x)[e] # 0,
           FontLoaded(x, y, e, StyleAt(x)[e], FontOf[Get(x.styles, StyleAt(x)[e])], b)
    PROVE  LoadedTo(y, e)
  <1>1. PICK s, v : s = StyleAt(x)[e] /\ v = FontOf[Get(x.styles, s)]
    OBVIOUS
  <1>2. /\ y \in Collections /\ StyleAt(y) = [StyleAt(x) EXCEPT ![e] = s]
        /\ FontAt(y) = [FontAt(x) EXCEPT ![e] = b] /\ b \in Nat \ {0} /\ y.styles = x.styles
        /\ y.fontMap = [x.fontMap EXCEPT ![s] = b]
        /\ x.fontMap[s] # 0 => b = x.fontMap[s]
        /\ x.fontMap[s] = 0 => Get(y.fonts, b) = v
        /\ \A m : Holds(x.fonts, m) => Holds(y.fonts, m) /\ Get(y.fonts, m) = Get(x.fonts, m)
        /\ Holds(y.fonts, b) => Shifted(x.fonts, y.fonts, 0, b)
    BY <1>1 DEF FontLoaded, Restyled
  <1>3. /\ GoodCache(x.styles, Styles) /\ GoodCache(x.fonts, Fonts) /\ GoodCache(y.fonts, Fonts)
        /\ x.fontMap \in [StyleIndexes -> Nat] /\ Len(x.styles.index) <= Cardinality(Styles)
    BY <1>2, Typed
  <1>4. /\ e \in 1 .. MaxElems /\ StyleAt(x) \in Holdings /\ FontAt(x) \in Holdings
        /\ StyleAt(y) = StyleAt(x) /\ MaxElems \in Nat
    <2>1. StyleAt(x)[e] = Info(x, e).style
      BY InfoIs
    <2> QED  BY <1>1, <1>2, <2>1, InfoIs, Assumed
  <1>5. Holds(x.styles, s) /\ Get(x.styles, s) \in Styles /\ s \in StyleIndexes
    <2>1. Holds(x.styles, s) /\ Get(x.styles, s) \in Styles /\ s \in 1 .. Len(x.styles.index)
      BY <1>1, <1>3, <1>4, CountIs, Assumed DEF StylesHeld
    <2>2. Len(x.styles.index) \in Nat /\ Cardinality(Styles) \in Nat
      BY <1>3, CacheTypes, Assumed DEF GoodCache
    <2> QED  BY <1>3, <2>1, <2>2 DEF StyleIndexes
  <1>6. MapStrict(x)
    BY DEF LoadedTo
  <1>7. Get(y.fonts, b) = v /\ Holds(y.fonts, b)
    <2>1. Get(y.fonts, b) = v
      <3>1. CASE x.fontMap[s] # 0
        <4>1. b = x.fontMap[s] /\ Get(x.fonts, b) = v
          BY <1>1, <1>2, <1>5, <1>6, <3>1 DEF MapStrict
        <4>2. Holds(x.fonts, b)
          BY <1>1, <1>3, <1>5, <4>1, HoldsSome, Assumed
        <4> QED  BY <1>2, <4>1, <4>2
      <3> QED  BY <1>2, <3>1
    <2> QED  BY <1>1, <1>3, <1>5, <2>1, HoldsSome, Assumed
  <1>8. Backed(Prefix(FontAt(y), e), y.fonts)
    <2>1. PICK g : g = Prefix(FontAt(x), e - 1)
      OBVIOUS
    <2>2. e - 1 \in 0 .. MaxElems
      BY <1>4
    <2>3. g \in Holdings /\ g[e] = 0 /\ Backed(g, x.fonts)
      BY <1>4, <2>1, <2>2, PrefixIs DEF LoadedTo
    <2>4. Prefix(FontAt(y), e) = [g EXCEPT ![e] = b]
      <3>1. b \in Nat
        BY <1>2
      <3>2. Prefix([FontAt(x) EXCEPT ![e] = b], e) = [Prefix(FontAt(x), e - 1) EXCEPT ![e] = b]
        BY <1>4, <3>1, PrefixMoves
      <3> QED  BY <1>2, <2>1, <3>2
    <2>5. Shifted(x.fonts, y.fonts, g[e], b)
      BY <1>2, <1>7, <2>3
    <2> QED  BY <1>2, <1>3, <1>4, <2>3, <2>4, <2>5, BackedShifts, Assumed
  <1>9. ASSUME NEW n \in StyleIndexes, y.fontMap[n] # 0
        PROVE  Holds(y.styles, n) /\ Get(y.fonts, y.fontMap[n]) = FontOf[Get(y.styles, n)]
    <2>1. CASE n = s
      <3>1. y.fontMap[n] = b
        BY <1>2, <1>3, <1>5, <2>1
      <3> QED  BY <1>1, <1>2, <1>5, <1>7, <2>1, <3>1
    <2>2. CASE n # s
      <3>1. y.fontMap[n] = x.fontMap[n]
        BY <1>2, <1>3, <1>5, <2>2
      <3>2. Holds(x.styles, n) /\ Get(x.fonts, x.fontMap[n]) = FontOf[Get(x.styles, n)]
        BY <1>6, <1>9, <3>1 DEF MapStrict
      <3>3. Get(x.styles, n) \in Styles
        BY <1>3, <3>2, CountIs, Assumed
      <3>4. Holds(x.fonts, x.fontMap[n])
        BY <1>3, <3>2, <3>3, HoldsSome, Assumed
      <3> QED  BY <1>2, <3>1, <3>2, <3>4
    <2> QED  BY <2>1, <2>2
  <1>10. ASSUME NEW i \in 1 .. MaxElems, i <= e, StyleAt(y)[i] # 0
         PROVE  Get(y.fonts, FontAt(y)[i]) = FontOf[Get(y.styles, StyleAt(y)[i])]
    <2>1. CASE i = e
      <3>1. FontAt(y)[i] = b /\ StyleAt(y)[i] = s
        BY <1>1, <1>2, <1>4, <2>1 DEF Holdings
      <3> QED  BY <1>1, <1>2, <1>7, <3>1
    <2>2. CASE i # e
      <3>1. i <= e - 1 /\ FontAt(y)[i] = FontAt(x)[i] /\ StyleAt(y)[i] = StyleAt(x)[i]
        BY <1>2, <1>4, <1>10, <2>2 DEF Holdings
      <3>2. PICK n, f : n = StyleAt(x)[i] /\ f = FontAt(x)[i]
        OBVIOUS
      <3>3. n # 0
        BY <1>10, <3>1, <3>2
      <3>4. Get(x.fonts, f) = FontOf[Get(x.styles, n)]
        BY <3>1, <3>2, <3>3 DEF LoadedTo
      <3>5. Holds(x.styles, n) /\ Get(x.styles, n) \in Styles
        BY <1>3, <3>2, <3>3, CountIs, Assumed DEF StylesHeld
      <3>6. Holds(x.fonts, f)
        BY <1>3, <3>4, <3>5, HoldsSome, Assumed
      <3> QED  BY <1>2, <3>1, <3>2, <3>4, <3>6
    <2> QED  BY <2>1, <2>2
  <1> QED  BY <1>8, <1>9, <1>10 DEF LoadedTo, MapStrict

\* An element without a style is left alone.
LEMMA LoadedNone ==
    ASSUME NEW x \in Collections, NEW e \in 1 .. MaxElems, LoadedTo(x, e - 1),
           StyleAt(x)[e] = 0, FontAt(x)[e] = 0
    PROVE  LoadedTo(x, e)
  <1>1. PICK g : g = Prefix(FontAt(x), e - 1)
    OBVIOUS
  <1>2. FontAt(x) \in Holdings /\ e - 1 \in 0 .. MaxElems /\ MaxElems \in Nat
    BY HoldingsOf, Assumed
  <1>3. g \in Holdings /\ g[e] = 0 /\ Backed(g, x.fonts) /\ Prefix(FontAt(x), e) = [g EXCEPT ![e] = 0]
    BY <1>1, <1>2, PrefixIs DEF LoadedTo
  <1>4. [g EXCEPT ![e] = 0] = g
    BY <1>3 DEF Holdings
  <1>5. \A i \in 1 .. MaxElems : i <= e /\ StyleAt(x)[i] # 0 => i <= e - 1
    BY <1>2
  <1> QED  BY <1>3, <1>4, <1>5 DEF LoadedTo

\* What updateLoadedStyles makes of a document whose styles are there.
LEMMA UpdatedIs ==
    ASSUME NEW d \in Collections, Walks(d), Bare(d), StylesHeld(d),
           \A e \in Elements(d) : Info(d, e).style # 0,
           d.fonts = EmptyCache, NEW r, r = UpdateLoadedStyles(d, TRUE)
    PROVE  /\ r \in Collections /\ SameTree(d, r) /\ StyleAt(r) = StyleAt(d) /\ r.styles = d.styles
           /\ r.hash = NoHash /\ Bare(r)
           /\ FontsBacked(r) /\ Follows(r) /\ MapStrict(r)
  <1>1. PICK list, n, b : list = GetIndex(d.styles) /\ n = Len(d.elems.slots) /\ b = Forgotten(d)
    OBVIOUS
  <1>2. /\ n \in Nat /\ n <= MaxElems /\ MaxElems \in Nat
        /\ \A k \in 1 .. n : Places(d.elems)[k] = k /\ k \in 1 .. MaxElems
        /\ \A e \in n + 1 .. MaxElems : FontAt(d)[e] = 0 /\ StyleAt(d)[e] = 0
    BY <1>1, ElementsAre, PlacesAre, Typed, Assumed
  <1>3. GoodCache(d.styles, Styles) /\ DOMAIN d.styles.index = 1 .. Len(d.styles.index)
        /\ Len(d.styles.index) \in Nat /\ Len(d.styles.index) <= Cardinality(Styles)
    BY Typed, CacheTypes DEF GoodCache
  <1>4. \A e \in Elements(d) : /\ Info(d, e).style = StyleAt(d)[e] /\ e \in 1 .. MaxElems
                               /\ e \in 1 .. n
    BY <1>1, ElementsAre
  <1>5. \A m : Holds(d.styles, m) => m \in StyleIndexes /\ list[m] = Get(d.styles, m) /\ list[m] \in Styles
    <2>1. ASSUME NEW m, Holds(d.styles, m)
          PROVE  m \in StyleIndexes /\ list[m] = Get(d.styles, m) /\ list[m] \in Styles
      <3>1. m \in 1 .. Len(d.styles.index) /\ Get(d.styles, m) \in Styles
        BY <1>3, <2>1, CountIs, Assumed
      <3>2. m \in StyleIndexes
        BY <1>3, <3>1, Assumed DEF StyleIndexes
      <3>3. list[m] = Get(d.styles, m)
        BY <1>1, <1>3, <2>1, <3>1 DEF GetIndex, Get
      <3> QED  BY <3>1, <3>2, <3>3
    <2> QED  BY <2>1
  <1>6. Listed(d, list)
    BY <1>4, <1>5 DEF Listed, StylesHeld
  <1>7. PICK f : /\ f[0] = b
                 /\ \A k \in 1 .. n : f[k] = LoadRound(Walked(d), list, f[k - 1], Places(d.elems)[k])
                 /\ r = f[n]
    BY <1>1, <1>6, LoadRounds
  <1>8. /\ b \in Collections /\ b.styles = d.styles /\ b.fonts = d.fonts /\ b.fontMap = NoFonts
        /\ b.hash = NoHash /\ SameTree(d, b) /\ StyleAt(b) = StyleAt(d) /\ FontAt(b) = FontAt(d)
    BY <1>1, ForgottenIs
  <1> DEFINE P == [k \in 0 .. n |->
                      {x \in LoadsOf(d) : /\ x.styles = d.styles /\ x.hash = NoHash /\ LoadedTo(x, k)
                                          /\ Bare(x)}]
  <1>9. f[0] \in P[0]
    <2>1. b \in LoadsOf(d)
      BY <1>8 DEF LoadsOf, TreesOf
    <2>2. Bare(b)
      BY <1>8, SameTreeKeeps DEF Bare
    <2>3. LoadedTo(b, 0)
      <3>1. Prefix(FontAt(b), 0) = NoHoldings
        BY <1>8, HoldingsOf, PrefixIs
      <3>2. Backed(NoHoldings, b.fonts)
        BY <1>8, Typed, NothingHeld, Assumed
      <3>3. MapStrict(b)
        BY <1>8, NoFontsIs DEF MapStrict
      <3>4. \A e \in 1 .. MaxElems : ~ (e <= 0)
        BY <1>2
      <3> QED  BY <3>1, <3>2, <3>3, <3>4 DEF LoadedTo
    <2> QED  BY <1>2, <1>7, <1>8, <2>1, <2>2, <2>3
  <1>10. ASSUME NEW k \in 1 .. n, f[k - 1] \in P[k - 1]  PROVE f[k] \in P[k]
    <2>1. PICK x, y : x = f[k - 1] /\ y = f[k]
      OBVIOUS
    <2>2. k - 1 \in 0 .. n /\ k \in 0 .. n /\ k \in 1 .. MaxElems
      BY <1>2
    <2>3. x \in LoadsOf(d) /\ x.styles = d.styles /\ x.hash = NoHash /\ LoadedTo(x, k - 1) /\ Bare(x)
      BY <1>10, <2>1, <2>2
    <2>4. x \in Collections /\ x \in TreesOf(d) /\ SameTree(d, x) /\ StyleAt(x) = StyleAt(d)
      BY <2>3 DEF LoadsOf, TreesOf
    <2>5. y = IF k \in Walked(d) THEN UpdateLoaded(x, k, list) ELSE x
      BY <1>2, <1>7, <2>1 DEF LoadRound
    <2>6. CASE k \in Elements(d)
      <3>1. y = UpdateLoaded(x, k, list)
        BY <2>5, <2>6, WalkedIs
      <3>2. PICK c : FontLoaded(x, y, k, StyleAt(d)[k], FontOf[list[StyleAt(d)[k]]], c)
        BY <1>6, <2>3, <2>6, <3>1, LoadStays
      <3>3. y \in LoadsOf(d)
        BY <1>6, <2>3, <2>6, <3>1, LoadStays
      <3>4. StyleAt(x)[k] # 0 /\ Holds(d.styles, StyleAt(x)[k])
        BY <1>4, <2>4, <2>6 DEF StylesHeld
      <3>5. StylesHeld(x)
        BY <2>3, <2>4 DEF StylesHeld
      <3>6. FontLoaded(x, y, k, StyleAt(x)[k], FontOf[Get(x.styles, StyleAt(x)[k])], c)
        <4>1. list[StyleAt(d)[k]] = Get(x.styles, StyleAt(x)[k])
          BY <1>5, <2>3, <2>4, <3>4
        <4> QED  BY <2>4, <3>2, <4>1
      <3>7. k \in 1 .. Len(x.elems.slots)
        BY <2>4, <2>6, InTree
      <3>8. LoadedTo(y, k)
        BY <2>3, <2>4, <3>4, <3>5, <3>6, <3>7, LoadedOne
      <3>9. y.styles = d.styles /\ y.hash = NoHash /\ Restyled(x, y, k, StyleAt(x)[k], c)
        BY <2>3, <3>6 DEF FontLoaded
      <3>10. Bare(y)
        BY <2>3, <2>4, <2>6, <3>9, InTree, RestyledBare
      <3> QED  BY <2>1, <2>2, <3>3, <3>8, <3>9, <3>10
    <2>7. CASE k \notin Elements(d)
      <3>1. y = x
        BY <2>5, <2>7, WalkedIs
      <3>2. StyleAt(x)[k] = 0 /\ FontAt(x)[k] = 0
        <4>1. Elements(x) = Elements(d)
          BY <2>4, SameTreeKeeps
        <4> QED  BY <2>2, <2>3, <2>7, <4>1 DEF Bare
      <3>3. LoadedTo(x, k)
        BY <2>2, <2>3, <2>4, <3>2, LoadedNone
      <3> QED  BY <2>1, <2>2, <2>3, <3>1, <3>3
    <2> QED  BY <2>6, <2>7
  <1>11. \A k \in 0 .. n : f[k] \in P[k]
    <2> HIDE DEF P
    <2> QED  BY <1>2, <1>9, <1>10, FoldKeeps
  <1>12. r \in P[n] /\ n \in 0 .. n
    <2> HIDE DEF P
    <2>1. n \in 0 .. n
      BY <1>2
    <2>2. f[n] \in P[n]
      BY <1>11, <2>1
    <2> QED  BY <1>7, <2>1, <2>2
  <1>13. r \in LoadsOf(d) /\ r.styles = d.styles /\ r.hash = NoHash /\ LoadedTo(r, n) /\ Bare(r)
    BY <1>12
  <1>14. r \in Collections /\ SameTree(d, r) /\ StyleAt(r) = StyleAt(d)
    BY <1>13 DEF LoadsOf, TreesOf
  <1>15. Prefix(FontAt(r), n) = FontAt(r)
    <2>1. Len(r.elems.slots) = n
      BY <1>1, <1>14, SameTreeKeeps
    <2>2. \A e \in n + 1 .. MaxElems : FontAt(r)[e] = 0
      <3>1. \A e \in n + 1 .. MaxElems : e \in 1 .. MaxElems /\ e \notin 1 .. n
        BY <1>2
      <3>2. \A e \in 1 .. MaxElems : e \notin 1 .. n => FontAt(r)[e] = 0
        BY <1>14, <2>1, ElementsAre
      <3> QED  BY <3>1, <3>2
    <2>3. n \in 0 .. MaxElems
      BY <1>2
    <2> QED  BY <1>14, <2>2, <2>3, HoldingsOf, PrefixIs
  <1>16. FontsBacked(r) /\ MapStrict(r)
    BY <1>13, <1>15 DEF LoadedTo, FontsBacked
  <1>17. Follows(r)
    <2>1. \A e \in 1 .. MaxElems : StyleAt(r)[e] # 0 => e <= n
      <3>1. \A e \in 1 .. MaxElems : ~ (e <= n) => e \in n + 1 .. MaxElems
        BY <1>2
      <3> QED  BY <1>2, <1>14, <3>1
    <2> QED  BY <1>13, <2>1 DEF LoadedTo, Follows
  <1> QED  BY <1>13, <1>14, <1>16, <1>17

AllStyled(d) == \A e \in Elements(d) : Info(d, e).style # 0
NothingStyled(d) == StyleAt(d) = NoHoldings /\ FontAt(d) = NoHoldings

\* The fonts are those of the styles, and _fontMap names them.
Right(d) == MapCurrent(d) /\ FontsBacked(d) /\ Follows(d)

\* What saveChanges writes of d.
Kept(d, o, im) ==
    im = [elems |-> d.elems.slots, texts |-> d.texts.slots, list |-> GetIndex(d.styles),
          values |-> [e \in Elements(d) |-> ValueOf(d, e)], stale |-> o]

\* The nodes of a cache file as they are opened.
Reopened(im, styles) ==
    [NewCollection EXCEPT !.elems = [slots |-> im.elems, free |-> 0],
                          !.texts = [slots |-> im.texts, free |-> 0],
                          !.styles = styles]

\* What has the slots of t is sound without the free list.
LEMMA SlotsKept ==
    ASSUME NEW bound \in Nat, NEW t \in Tables(bound), NEW r, r = [slots |-> t.slots, free |-> 0]
    PROVE  r \in Tables(bound) /\ FreeList(r) /\ Live(r) = Live(t) /\ r.slots = t.slots
  <1>1. r.slots = t.slots /\ r.free = 0
    OBVIOUS
  <1>2. t.slots \in Seq(SlotsOf(bound)) /\ Len(t.slots) <= bound /\ 0 \in 0 .. bound
    BY TableTypes
  <1>3. r \in [slots : Seq(SlotsOf(bound)), free : 0 .. bound]
    BY <1>2
  <1>4. r \in Tables(bound)
    BY <1>1, <1>2, <1>3 DEF Tables
  <1>5. Linked(<<>>, 0, NextOf(r)) /\ Range(<<>>) = {}
    BY NothingLinked
  <1>6. FreeList(r)
    BY <1>1, <1>5 DEF FreeList
  <1> QED  BY <1>1, <1>4, <1>6 DEF Live

LEMMA ReopenedIs ==
    ASSUME NEW d, Sound(d), NEW o, NEW im, Kept(d, o, im), NEW y, GoodCache(y, Styles),
           Len(y.index) <= Cardinality(Styles), NEW r, r = Reopened(im, y)
    PROVE  /\ Sound(r) /\ r.styles = y /\ r.fonts = EmptyCache /\ r.fontMap = NoFonts /\ r.hash = NoHash
           /\ Elements(r) = Elements(d) /\ StyleAt(r) = StyleAt(d) /\ FontAt(r) = FontAt(d)
           /\ \A e : Info(r, e) = Info(d, e)
           /\ Len(r.elems.slots) = Len(d.elems.slots)
  <1>1. d \in Collections /\ Tree(d) /\ Bare(d) /\ d.elems \in Tables(MaxElems) /\ d.texts \in Tables(MaxTexts)
    BY Typed DEF Sound
  <1>2. im.elems = d.elems.slots /\ im.texts = d.texts.slots
    BY DEF Kept
  <1>3. PICK t : t = [slots |-> d.elems.slots, free |-> 0]
    OBVIOUS
  <1>4. PICK x : x = [slots |-> d.texts.slots, free |-> 0]
    OBVIOUS
  <1>5. t \in Tables(MaxElems) /\ FreeList(t) /\ Live(t) = Live(d.elems) /\ t.slots = d.elems.slots
    BY <1>1, <1>3, SlotsKept, Assumed
  <1>6. x \in Tables(MaxTexts) /\ FreeList(x) /\ Live(x) = Live(d.texts) /\ x.slots = d.texts.slots
    BY <1>1, <1>4, SlotsKept, Assumed
  <1>7. PICK d1 : d1 = [NewCollection EXCEPT !.elems = t]
    OBVIOUS
  <1>8. PICK d2 : d2 = [d1 EXCEPT !.texts = x]
    OBVIOUS
  <1>9. PICK d3 : d3 = [d2 EXCEPT !.styles = y]
    OBVIOUS
  <1>10. Consists(NewCollection, Alloc(EmptyTable, 0), EmptyTable, EmptyCache, EmptyCache, NoFonts, NoHash)
    BY DEF NewCollection, Consists, Doc
  <1>11. Consists(d1, t, EmptyTable, EmptyCache, EmptyCache, NoFonts, NoHash)
    BY <1>7, <1>10, FieldSet
  <1>12. Consists(d2, t, x, EmptyCache, EmptyCache, NoFonts, NoHash)
    BY <1>8, <1>11, FieldSet
  <1>13. Consists(d3, t, x, y, EmptyCache, NoFonts, NoHash)
    BY <1>9, <1>12, FieldSet
  <1>14. r = d3
    <2>1. r = [NewCollection EXCEPT !.elems = t, !.texts = x, !.styles = y]
      BY <1>2, <1>3, <1>4 DEF Reopened
    <2> QED  BY <1>7, <1>8, <1>9, <2>1
  <1>15. r = Doc(t, x, y, EmptyCache, NoFonts, NoHash)
    BY <1>13, <1>14 DEF Consists
  <1>16. r \in Collections
    <2>1. GoodCache(EmptyCache, Fonts) /\ NoHash \in Hashes /\ NoFonts \in [StyleIndexes -> Nat]
      BY EmptyIsGood, NoFontsIs DEF Hashes
    <2> QED  BY <1>5, <1>6, <1>15, <2>1, MakesCollection DEF Doc
  <1>17. /\ r.elems = t /\ r.texts = x /\ r.styles = y /\ r.fonts = EmptyCache /\ r.fontMap = NoFonts
         /\ r.hash = NoHash
    BY <1>15 DEF Doc
  <1>18. /\ Elements(r) = Elements(d) /\ \A e : Info(r, e) = Info(d, e)
         /\ StyleAt(r) = StyleAt(d) /\ FontAt(r) = FontAt(d)
    BY <1>5, <1>17 DEF Elements, Info, StyleAt, FontAt
  <1>19. Tree(r)
    BY <1>1, <1>5, <1>6, <1>17, <1>18 DEF Tree
  <1>20. Bare(r)
    BY <1>1, <1>18 DEF Bare
  <1> QED  BY <1>5, <1>16, <1>17, <1>18, <1>19, <1>20 DEF Sound

\* The table of styles is read back.
LEMMA StylesReadIs ==
    ASSUME NEW d \in Collections, NEW y, y = SetIndex(GetIndex(d.styles))
    PROVE  /\ GoodCache(y, Styles) /\ Len(y.index) <= Cardinality(Styles)
           /\ \A m : (Holds(y, m) <=> Holds(d.styles, m)) /\ Get(y, m) = Get(d.styles, m)
  <1>1. PICK list, n : list = GetIndex(d.styles) /\ n = Len(d.styles.index)
    OBVIOUS
  <1>2. /\ GoodCache(d.styles, Styles) /\ n \in Nat /\ DOMAIN d.styles.index = 1 .. n
        /\ n <= Cardinality(Styles) /\ \A i \in 1 .. n : d.styles.index[i].item \in Styles \cup {Null}
    BY <1>1, Typed, CacheTypes DEF GoodCache
  <1>3. list = [i \in 1 .. n |-> d.styles.index[i].item]
    BY <1>1, <1>2 DEF GetIndex
  <1>4. list \in Seq(Styles \cup {Null}) /\ Len(list) = n
    BY <1>2, <1>3
  <1>5. \A i, j \in 1 .. n : list[i] # Null /\ list[i] = list[j] => i = j
    BY <1>2, <1>3 DEF GoodCache, Gaps
  <1>6. /\ GoodCache(y, Styles) /\ Len(y.index) = n /\ \A i \in 1 .. n : y.index[i].item = list[i]
    <2> DEFINE V == Styles
    <2>1. Null \notin V /\ list \in Seq(V \cup {Null}) /\ y = SetIndex(list)
          /\ \A i, j \in 1 .. Len(list) : list[i] # Null /\ list[i] = list[j] => i = j
      BY <1>1, <1>4, <1>5, Assumed
    <2> HIDE DEF V
    <2>2. GoodCache(y, V) /\ Len(y.index) = Len(list) /\ \A i \in 1 .. Len(list) : y.index[i].item = list[i]
      BY <2>1, SetIndexIs
    <2> QED  BY <1>4, <2>2 DEF V
  <1>7. DOMAIN y.index = 1 .. n
    BY <1>6, CacheTypes DEF GoodCache
  <1>8. \A i \in 1 .. n : y.index[i].item = d.styles.index[i].item
    BY <1>3, <1>6
  <1>9. \A m : (Holds(y, m) <=> Holds(d.styles, m)) /\ Get(y, m) = Get(d.styles, m)
    BY <1>2, <1>7, <1>8 DEF Holds, Get
  <1> QED  BY <1>2, <1>6, <1>9

\* The document that a cache file comes from.
Saved(d, o, im) ==
    /\ Sound(d) /\ StylesBacked(d) /\ AllStyled(d) /\ Walks(d) /\ Kept(d, o, im)
    /\ o \in BOOLEAN /\ (~ o => Follows(d))

LEMMA StrictIsCurrent ==
    ASSUME NEW d, MapStrict(d)
    PROVE  MapCurrent(d)
  BY DEF MapStrict, MapCurrent

\* A document that came back with its styles.
Restored(r, o, im) ==
    /\ Sound(r) /\ StylesHeld(r) /\ AllStyled(r) /\ r.hash = NoHash /\ Right(r)
    /\ ~ o => \A e \in Elements(r) : ValueOf(r, e) = im.values[e]

\* A document that is opened with its styles.
LEMMA OpenedIs ==
    ASSUME NEW d, NEW o, NEW im, Saved(d, o, im),
           NEW r, r = UpdateLoadedStyles(Reopened(im, SetIndex(im.list)), TRUE)
    PROVE  Restored(r, o, im)
  <1>1. PICK x, y : y = SetIndex(im.list) /\ x = Reopened(im, y)
    OBVIOUS
  <1>2. /\ d \in Collections /\ Sound(d) /\ StylesBacked(d) /\ AllStyled(d) /\ Walks(d) /\ Kept(d, o, im)
        /\ (~ o => Follows(d))
    BY DEF Saved, Sound
  <1>3. im.list = GetIndex(d.styles) /\ im.values = [e \in Elements(d) |-> ValueOf(d, e)]
    BY <1>2 DEF Kept
  <1>4. /\ GoodCache(y, Styles) /\ Len(y.index) <= Cardinality(Styles)
        /\ \A m : (Holds(y, m) <=> Holds(d.styles, m)) /\ Get(y, m) = Get(d.styles, m)
    BY <1>1, <1>2, <1>3, StylesReadIs
  <1>5. /\ Sound(x) /\ x.styles = y /\ x.fonts = EmptyCache /\ x.fontMap = NoFonts
        /\ Elements(x) = Elements(d) /\ StyleAt(x) = StyleAt(d)
        /\ \A e : Info(x, e) = Info(d, e)
        /\ Len(x.elems.slots) = Len(d.elems.slots)
    BY <1>1, <1>2, <1>4, ReopenedIs
  <1>6. x \in Collections /\ Tree(x) /\ Bare(x)
    BY <1>5 DEF Sound
  <1>7. Walks(x) /\ StylesHeld(x) /\ \A e \in Elements(x) : Info(x, e).style # 0
    <2>1. StylesHeld(d)
      BY <1>2, BackedAreHeld
    <2> QED  BY <1>2, <1>4, <1>5, <2>1 DEF Walks, StylesHeld, AllStyled
  <1>8. /\ r \in Collections /\ SameTree(x, r) /\ StyleAt(r) = StyleAt(x) /\ r.styles = y
        /\ r.hash = NoHash /\ Bare(r) /\ FontsBacked(r) /\ Follows(r) /\ MapStrict(r)
    BY <1>1, <1>5, <1>6, <1>7, UpdatedIs
  <1>9. Sound(r) /\ Elements(r) = Elements(d)
    BY <1>5, <1>6, <1>8, SameTreeKeeps DEF Sound
  <1>10. StylesHeld(r)
    BY <1>5, <1>7, <1>8 DEF StylesHeld
  <1>11. \A e \in Elements(r) : /\ Info(r, e).style = StyleAt(d)[e] /\ Info(d, e).style = StyleAt(d)[e]
                                /\ Info(r, e).font = FontAt(r)[e] /\ Info(d, e).font = FontAt(d)[e]
                                /\ StyleAt(d)[e] # 0 /\ e \in 1 .. MaxElems
    <2>1. ASSUME NEW e \in Elements(r)
          PROVE  /\ Info(r, e).style = StyleAt(d)[e] /\ Info(d, e).style = StyleAt(d)[e]
                 /\ Info(r, e).font = FontAt(r)[e] /\ Info(d, e).font = FontAt(d)[e]
                 /\ StyleAt(d)[e] # 0 /\ e \in 1 .. MaxElems
      <3>1. e \in Elements(d) /\ e \in 1 .. Len(r.elems.slots) /\ e \in 1 .. Len(d.elems.slots)
        BY <1>2, <1>8, <1>9, ElementsAre
      <3>2. Info(d, e).style # 0
        BY <1>2, <3>1 DEF AllStyled
      <3>3. Info(d, e).style = StyleAt(d)[e] /\ Info(d, e).font = FontAt(d)[e] /\ e \in 1 .. MaxElems
        BY <1>2, <3>1, InfoIs
      <3>4. Info(r, e).style = StyleAt(r)[e] /\ Info(r, e).font = FontAt(r)[e]
        BY <1>8, <3>1, InfoIs
      <3>5. StyleAt(r) = StyleAt(d)
        BY <1>5, <1>8
      <3> QED  BY <3>2, <3>3, <3>4, <3>5
    <2> QED  BY <2>1
  <1>12. AllStyled(r)
    BY <1>11 DEF AllStyled
  <1>13. Right(r)
    BY <1>8, StrictIsCurrent DEF Right
  <1>14. ASSUME ~ o, NEW e \in Elements(r)  PROVE ValueOf(r, e) = im.values[e]
    <2>1. PICK n : n = StyleAt(d)[e]
      OBVIOUS
    <2>2. Get(r.styles, n) = Get(d.styles, n)
      BY <1>4, <1>8
    <2>3. Get(r.fonts, FontAt(r)[e]) = FontOf[Get(r.styles, n)]
      <3>1. StyleAt(r)[e] = n /\ n # 0 /\ e \in 1 .. MaxElems
        BY <1>5, <1>8, <1>11, <1>14, <2>1
      <3>2. Follows(r)
        BY <1>8
      <3> QED  BY <3>1, <3>2 DEF Follows
    <2>4. Get(d.fonts, FontAt(d)[e]) = FontOf[Get(d.styles, n)]
      BY <1>2, <1>11, <1>14, <2>1 DEF Follows
    <2>5. ValueOf(r, e) = ValueOf(d, e)
      <3>1. Info(r, e).style = n /\ Info(d, e).style = n
        BY <1>11, <1>14, <2>1
      <3>2. Info(r, e).font = FontAt(r)[e] /\ Info(d, e).font = FontAt(d)[e]
        BY <1>11, <1>14
      <3>3. Get(r.fonts, FontAt(r)[e]) = Get(d.fonts, FontAt(d)[e])
        BY <2>2, <2>3, <2>4
      <3> QED  BY <2>2, <3>1, <3>2, <3>3 DEF ValueOf
    <2> QED  BY <1>3, <1>9, <2>5
  <1> QED  BY <1>8, <1>9, <1>10, <1>12, <1>13, <1>14 DEF Restored

LEMMA UnstyledTable ==
    ASSUME NEW x \in Collections, NEW t \in Tables(MaxElems), Stripped(x.elems, t, Elements(x)), Bare(x),
           NEW r, Consists(r, t, x.texts, EmptyCache, EmptyCache, NoFonts, NoHash)
    PROVE  /\ r \in Collections /\ SameTree(x, r) /\ StyleAt(r) = NoHoldings /\ FontAt(r) = NoHoldings
           /\ r.styles = EmptyCache /\ r.fonts = EmptyCache /\ r.fontMap = NoFonts /\ r.hash = NoHash
  <1>1. /\ GoodCache(EmptyCache, Styles) /\ GoodCache(EmptyCache, Fonts)
        /\ Len(EmptyCache.index) <= Cardinality(Styles) /\ NoFonts \in [StyleIndexes -> Nat]
    BY EmptyIsGood, NoFontsIs, Assumed
  <1> QED  BY <1>1, StrippedIs

\* A document that is opened without its styles.
LEMMA UnstyledIs ==
    ASSUME NEW d, NEW o, NEW im, Saved(d, o, im),
           NEW r, r = UpdateLoadedStyles(Reopened(im, EmptyCache), FALSE)
    PROVE  Sound(r) /\ StylesHeld(r) /\ NothingStyled(r) /\ r.hash = NoHash /\ Right(r)
  <1>1. PICK x : x = Reopened(im, EmptyCache)
    OBVIOUS
  <1>2. GoodCache(EmptyCache, Styles) /\ GoodCache(EmptyCache, Fonts)
        /\ Len(EmptyCache.index) <= Cardinality(Styles)
    BY EmptyIsGood, Assumed
  <1>3. /\ Sound(x) /\ x.styles = EmptyCache /\ x.fonts = EmptyCache
        /\ Len(x.elems.slots) = Len(d.elems.slots)
    BY <1>1, <1>2, ReopenedIs DEF Saved
  <1>4. x \in Collections /\ Tree(x) /\ Bare(x) /\ Walks(x)
    BY <1>3 DEF Sound, Saved, Walks
  <1>5. PICK S, t : S = StripSlots(x.elems.slots, Walked(x)) /\ t = [slots |-> S, free |-> x.elems.free]
    OBVIOUS
  <1>6. /\ x.elems \in Tables(MaxElems) /\ MaxElems \in Nat
        /\ x.elems = [slots |-> x.elems.slots, free |-> x.elems.free]
        /\ Consists(x, x.elems, x.texts, x.styles, x.fonts, x.fontMap, x.hash)
    BY <1>4, Typed, Assumed, TableTypes DEF Consists, Doc
  <1>7. t \in Tables(MaxElems) /\ Stripped(x.elems, t, Elements(x))
    BY <1>4, <1>5, <1>6, StripsIs, WalkedIs
  <1>8. PICK d1 : d1 = [x EXCEPT !.fontMap = NoFonts]
    OBVIOUS
  <1>9. PICK d2 : d2 = [d1 EXCEPT !.hash = NoHash]
    OBVIOUS
  <1>10. PICK d3 : d3 = [d2 EXCEPT !.elems = t]
    OBVIOUS
  <1>11. Consists(d1, x.elems, x.texts, x.styles, x.fonts, NoFonts, x.hash)
    BY <1>6, <1>8, FieldSet
  <1>12. Consists(d2, x.elems, x.texts, x.styles, x.fonts, NoFonts, NoHash)
    BY <1>9, <1>11, FieldSet
  <1>13. Consists(d3, t, x.texts, x.styles, x.fonts, NoFonts, NoHash)
    BY <1>10, <1>12, FieldSet
  <1>14. r = d3
    <2>1. r = [[[x EXCEPT !.fontMap = NoFonts] EXCEPT !.hash = NoHash]
                  EXCEPT !.elems.slots = [e \in DOMAIN @ |->
                     IF e \in Walked(x) THEN [@[e] EXCEPT !.style = 0, !.font = 0] ELSE @[e]]]
      BY <1>1 DEF UpdateLoadedStyles
    <2>2. r = [d2 EXCEPT !.elems.slots = StripSlots(@, Walked(x))]
      BY <1>8, <1>9, <2>1, Zenon DEF StripSlots
    <2>3. d2.elems = x.elems
      BY <1>12 DEF Consists, Doc
    <2>4. [d2 EXCEPT !.elems.slots = StripSlots(@, Walked(x))] = [d2 EXCEPT !.elems.slots = S]
      BY <1>5, <2>3
    <2>5. [d2 EXCEPT !.elems.slots = S] = [d2 EXCEPT !.elems = [x.elems EXCEPT !.slots = S]]
      BY <2>3
    <2>6. [x.elems EXCEPT !.slots = S] = t
      BY <1>5, <1>6
    <2> QED  BY <1>10, <2>2, <2>4, <2>5, <2>6
  <1>15. /\ r \in Collections /\ SameTree(x, r) /\ StyleAt(r) = NoHoldings /\ FontAt(r) = NoHoldings
         /\ r.styles = EmptyCache /\ r.fonts = EmptyCache /\ r.fontMap = NoFonts /\ r.hash = NoHash
    <2>1. Consists(r, t, x.texts, EmptyCache, EmptyCache, NoFonts, NoHash)
      BY <1>3, <1>13, <1>14
    <2> QED  BY <1>4, <1>7, <2>1, UnstyledTable
  <1>16. \A e \in 1 .. MaxElems : StyleAt(r)[e] = 0 /\ FontAt(r)[e] = 0
    BY <1>15 DEF NoHoldings
  <1>17. Sound(r)
    BY <1>4, <1>15, <1>16, SameTreeKeeps DEF Sound, Bare
  <1>18. MapCurrent(r)
    BY <1>15, NoFontsIs DEF MapCurrent
  <1>19. FontsBacked(r)
    BY <1>2, <1>15, NothingHeld, Assumed DEF FontsBacked
  <1> QED  BY <1>15, <1>16, <1>17, <1>18, <1>19 DEF StylesHeld, NothingStyled, Right, Follows

-----------------------------------------------------------------------------
(* The invariant, and what each operation does to it.                      *)

Phases == {"parsing", "parsed", "boxing", "layout", "ready", "loaded"}

\* Every index of a style has a font in _fontMap.
Mapped(d) == \A n \in DOMAIN d.styles.index : d.fontMap[n] # 0

HashRight(d) == d.hash # NoHash => d.hash = HashOf(d)

\* What holds of the styles of d in phase ph.
Phased(d, ph) ==
    /\ ph \in {"parsing", "boxing"} => d.hash = NoHash
    /\ ph = "parsing" => Mapped(d)
    /\ ph \in {"layout", "ready"} => AllStyled(d)
    /\ ph = "parsed" => AllStyled(d) \/ Get(d.fonts, Info(d, Root).font) = Null
    /\ ph = "loaded" => (AllStyled(d) \/ NothingStyled(d)) /\ d.hash = NoHash
    /\ ph # "loaded" => StylesBacked(d)

\* What holds of the document, when o says that _fontMap was wrong.
DocOK(d, o, ph) ==
    /\ Sound(d) /\ StylesHeld(d) /\ HashRight(d) /\ Phased(d, ph)
    /\ o \in BOOLEAN /\ (~ o => Right(d))

\* The styles and fonts of the elements are those of d; there may be more references.
Alike(d, r) ==
    /\ r \in Collections /\ StyleAt(r) = StyleAt(d) /\ FontAt(r) = FontAt(d)
    /\ r.fonts = d.fonts /\ r.fontMap = d.fontMap /\ Gained(d.styles, r.styles)
    /\ DOMAIN r.styles.index = DOMAIN d.styles.index

LEMMA AlikeKeeps ==
    ASSUME NEW d \in Collections, NEW r, Alike(d, r)
    PROVE  /\ StylesHeld(d) => StylesHeld(r)
           /\ StylesBacked(d) => StylesBacked(r)
           /\ Mapped(d) => Mapped(r)
           /\ MapCurrent(r) <=> MapCurrent(d)
           /\ Right(d) => Right(r)
  <1>1. /\ r \in Collections /\ StyleAt(r) = StyleAt(d) /\ FontAt(r) = FontAt(d)
        /\ r.fonts = d.fonts /\ r.fontMap = d.fontMap /\ Gained(d.styles, r.styles)
        /\ DOMAIN r.styles.index = DOMAIN d.styles.index
    BY DEF Alike
  <1>2. /\ \A m : (Holds(r.styles, m) <=> Holds(d.styles, m)) /\ Get(r.styles, m) = Get(d.styles, m)
        /\ \A m : Count(r.styles, m) >= Count(d.styles, m)
    BY <1>1 DEF Gained
  <1>3. StylesHeld(d) => StylesHeld(r)
    BY <1>1, <1>2 DEF StylesHeld
  <1>4. ASSUME StylesBacked(d)  PROVE StylesBacked(r)
    <2>1. /\ GoodCache(d.styles, Styles) /\ GoodCache(r.styles, Styles) /\ Null \notin Styles
          /\ StyleAt(d) \in Holdings /\ Backed(StyleAt(d), d.styles)
      BY <1>1, <1>4, Typed, Assumed, HoldingsOf DEF StylesBacked
    <2>2. Backed(StyleAt(d), r.styles)
      BY <1>2, <2>1, BackedMore
    <2> QED  BY <1>1, <2>2 DEF StylesBacked
  <1>5. Mapped(d) => Mapped(r)
    BY <1>1 DEF Mapped
  <1>6. MapCurrent(r) <=> MapCurrent(d)
    BY <1>1, <1>2 DEF MapCurrent
  <1>7. FontsBacked(d) => FontsBacked(r)
    BY <1>1 DEF FontsBacked
  <1>8. Follows(d) => Follows(r)
    BY <1>1, <1>2 DEF Follows
  <1> QED  BY <1>3, <1>4, <1>5, <1>6, <1>7, <1>8 DEF Right

\* The values of elements whose slots stay.
LEMMA AlikeValues ==
    ASSUME NEW d \in Collections, NEW r, Alike(d, r), r.elems = d.elems
    PROVE  /\ Elements(r) = Elements(d) /\ \A e : Info(r, e) = Info(d, e) /\ ValueOf(r, e) = ValueOf(d, e)
           /\ HashOf(r) = HashOf(d)
           /\ AllStyled(d) => AllStyled(r)
           /\ NothingStyled(d) => NothingStyled(r)
  <1>1. /\ StyleAt(r) = StyleAt(d) /\ FontAt(r) = FontAt(d) /\ r.fonts = d.fonts
        /\ \A m : Get(r.styles, m) = Get(d.styles, m)
    BY DEF Alike, Gained
  <1>2. Elements(r) = Elements(d) /\ Walked(r) = Walked(d) /\ \A e : Info(r, e) = Info(d, e)
    BY DEF Elements, Walked, Info
  <1>3. \A e : ValueOf(r, e) = ValueOf(d, e)
    BY <1>1, <1>2 DEF ValueOf
  <1>4. HashOf(r) = HashOf(d)
    BY <1>2, <1>3 DEF HashOf
  <1> QED  BY <1>1, <1>2, <1>3, <1>4 DEF AllStyled, NothingStyled

\* What Track says of an operation that leaves styles and fonts.
LEMMA AlikeOK ==
    ASSUME NEW d, NEW o, NEW ph, DocOK(d, o, ph), NEW r, Alike(d, r), NEW o2, o2 = (o \/ ~ MapCurrent(r))
    PROVE  o2 \in BOOLEAN /\ (~ o2 => Right(r)) /\ StylesHeld(r)
  <1>1. d \in Collections /\ StylesHeld(d) /\ (~ o => Right(d)) /\ o \in BOOLEAN
    BY DEF DocOK, Sound
  <1>2. StylesHeld(r) /\ (Right(d) => Right(r))
    BY <1>1, AlikeKeeps
  <1> QED  BY <1>1, <1>2

LEMMA SameHoldings ==
    ASSUME NEW S, NEW g \in [S -> Nat], NEW h \in [S -> Nat], \A e \in S : g[e] = h[e]
    PROVE  g = h
  OBVIOUS

LEMMA Rehashed ==
    ASSUME NEW t, NEW x, NEW y, NEW z, NEW mp, NEW hs, NEW d, Consists(d, t, x, y, z, mp, hs), NEW v, NEW h
    PROVE  /\ Consists([d EXCEPT !.elems = v, !.hash = h], v, x, y, z, mp, h)
           /\ Consists([d EXCEPT !.texts = v, !.hash = h], t, v, y, z, mp, h)
  <1>1. PICK d1, d2 : d1 = [d EXCEPT !.elems = v] /\ d2 = [d EXCEPT !.texts = v]
    OBVIOUS
  <1>2. Consists(d1, v, x, y, z, mp, hs) /\ Consists(d2, t, v, y, z, mp, hs)
    BY <1>1, FieldSet
  <1>3. Consists([d1 EXCEPT !.hash = h], v, x, y, z, mp, h) /\ Consists([d2 EXCEPT !.hash = h], t, v, y, z, mp, h)
    BY <1>2, FieldSet
  <1>4. /\ [d EXCEPT !.elems = v, !.hash = h] = [d1 EXCEPT !.hash = h]
        /\ [d EXCEPT !.texts = v, !.hash = h] = [d2 EXCEPT !.hash = h]
    BY <1>1, Zenon
  <1> QED  BY <1>3, <1>4, Zenon

LEMMA DocHas ==
    ASSUME NEW t, NEW x, NEW y, NEW z, NEW mp, NEW hs, NEW d, Consists(d, t, x, y, z, mp, hs)
    PROVE  /\ d.elems = t /\ d.texts = x /\ d.styles = y /\ d.fonts = z /\ d.fontMap = mp /\ d.hash = hs
           /\ d = [elems |-> t, texts |-> x, styles |-> y, fonts |-> z, fontMap |-> mp, hash |-> hs]
  BY DEF Doc, Consists

\* The styles of the slots after an allocation.
LEMMA AllocatedBare ==
    ASSUME NEW d, Sound(d), NEW at, NEW p, NEW r \in Collections, Allocated(d.elems, r.elems, at, p)
    PROVE  StyleAt(r) = StyleAt(d) /\ FontAt(r) = FontAt(d) /\ Bare(r) /\ Elements(r) = Elements(d) \cup {at}
  <1>0. PICK t : t = r.elems /\ Allocated(d.elems, t, at, p)
    OBVIOUS
  <1>1. /\ d \in Collections /\ Bare(d) /\ d.elems \in Tables(MaxElems) /\ MaxElems \in Nat
        /\ t \in Tables(MaxElems)
    BY <1>0, Typed, Assumed DEF Sound
  <1>2. /\ at \in DOMAIN t.slots /\ at \notin Elements(d) /\ Elements(r) = Elements(d) \cup {at}
        /\ DOMAIN t.slots = DOMAIN d.elems.slots \cup {at}
        /\ \A i \in DOMAIN d.elems.slots : /\ t.slots[i].style = Info(d, i).style
                                           /\ t.slots[i].font = Info(d, i).font
        /\ at \notin DOMAIN d.elems.slots => t.slots[at].style = 0 /\ t.slots[at].font = 0
    BY <1>0 DEF Allocated, Elements, Info
  <1>3. /\ DOMAIN r.elems.slots = DOMAIN t.slots
        /\ \A e : Info(r, e).style = t.slots[e].style /\ Info(r, e).font = t.slots[e].font
    BY <1>0 DEF Info
  <1>4. ASSUME NEW e \in 1 .. MaxElems
        PROVE  StyleAt(r)[e] = StyleAt(d)[e] /\ FontAt(r)[e] = FontAt(d)[e]
    <2>1. /\ StyleAt(r)[e] = IF e \in DOMAIN t.slots THEN t.slots[e].style ELSE 0
          /\ FontAt(r)[e] = IF e \in DOMAIN t.slots THEN t.slots[e].font ELSE 0
      BY <1>3 DEF StyleAt, FontAt
    <2>2. /\ StyleAt(d)[e] = IF e \in DOMAIN d.elems.slots THEN Info(d, e).style ELSE 0
          /\ FontAt(d)[e] = IF e \in DOMAIN d.elems.slots THEN Info(d, e).font ELSE 0
      BY DEF StyleAt, FontAt
    <2> QED  BY <1>2, <2>1, <2>2
  <1>5. StyleAt(r) = StyleAt(d)
    <2>1. PICK g, h : g = StyleAt(r) /\ h = StyleAt(d)
      OBVIOUS
    <2>2. g \in [1 .. MaxElems -> Nat] /\ h \in [1 .. MaxElems -> Nat] /\ \A e \in 1 .. MaxElems : g[e] = h[e]
      BY <1>1, <1>4, <2>1, HoldingsOf DEF Holdings
    <2>3. g = h
      BY <2>2, SameHoldings
    <2> QED  BY <2>1, <2>3
  <1>6. FontAt(r) = FontAt(d)
    <2>1. PICK g, h : g = FontAt(r) /\ h = FontAt(d)
      OBVIOUS
    <2>2. g \in [1 .. MaxElems -> Nat] /\ h \in [1 .. MaxElems -> Nat] /\ \A e \in 1 .. MaxElems : g[e] = h[e]
      BY <1>1, <1>4, <2>1, HoldingsOf DEF Holdings
    <2>3. g = h
      BY <2>2, SameHoldings
    <2> QED  BY <2>1, <2>3
  <1>7. Bare(r)
    BY <1>1, <1>2, <1>5, <1>6 DEF Bare
  <1> QED  BY <1>2, <1>5, <1>6, <1>7

\* A collection with other elements, or other texts, and no hash.
LEMMA RehashedIs ==
    ASSUME NEW d \in Collections, NEW v
    PROVE  /\ Consists([d EXCEPT !.elems = v, !.hash = NoHash], v, d.texts, d.styles, d.fonts, d.fontMap, NoHash)
           /\ Consists([d EXCEPT !.texts = v, !.hash = NoHash], d.elems, v, d.styles, d.fonts, d.fontMap, NoHash)
  <1>1. Consists(d, d.elems, d.texts, d.styles, d.fonts, d.fontMap, d.hash)
    BY Typed DEF Consists, Doc
  <1> QED  BY <1>1, Rehashed

LEMMA ElementAdded ==
    ASSUME NEW d, Sound(d), NEW p \in Elements(d), NEW t \in Tables(MaxElems), FreeList(t),
           NEW at, Allocated(d.elems, t, at, p),
           NEW r, Consists(r, t, d.texts, d.styles, d.fonts, d.fontMap, NoHash)
    PROVE  Sound(r) /\ Alike(d, r) /\ r.hash = NoHash
  <1>1. /\ d \in Collections /\ Tree(d) /\ Bare(d) /\ FreeList(d.texts) /\ NoHash \in Hashes
        /\ GoodCache(d.styles, Styles) /\ GoodCache(d.fonts, Fonts) /\ d.texts \in Tables(MaxTexts)
        /\ Len(d.styles.index) <= Cardinality(Styles) /\ d.fontMap \in [StyleIndexes -> Nat]
    BY Typed DEF Sound, Hashes, Tree
  <1>2. /\ r = [elems |-> t, texts |-> d.texts, styles |-> d.styles, fonts |-> d.fonts,
                fontMap |-> d.fontMap, hash |-> NoHash]
        /\ r.elems = t /\ r.texts = d.texts /\ r.styles = d.styles /\ r.fonts = d.fonts
        /\ r.fontMap = d.fontMap /\ r.hash = NoHash
    BY DocHas
  <1>3. r \in Collections
    BY <1>1, <1>2, MakesCollection
  <1>4. StyleAt(r) = StyleAt(d) /\ FontAt(r) = FontAt(d) /\ Bare(r) /\ Elements(r) = Elements(d) \cup {at}
    <2>1. Allocated(d.elems, r.elems, at, p)
      BY <1>2, Zenon
    <2> QED  BY <1>3, <2>1, AllocatedBare
  <1>5. Alike(d, r)
    BY <1>1, <1>2, <1>3, <1>4, CountIs, Assumed DEF Alike, Gained
  <1>6. Tree(r)
    <2>1. \A e \in Elements(d) : e \in DOMAIN d.elems.slots
      BY DEF Elements, Live
    <2>2. \A e \in Elements(d) : Info(r, e).parent = Info(d, e).parent
      BY <1>2, <2>1 DEF Allocated, Info, Elements
    <2>3. Info(r, at).parent = p
      BY <1>2 DEF Allocated, Info
    <2>4. Root \in Elements(r) /\ Info(r, Root).parent = 0
      BY <1>1, <1>4, <2>2 DEF Tree
    <2>5. \A e \in Elements(r) \ {Root} : Info(r, e).parent \in Elements(r)
      BY <1>1, <1>4, <2>2, <2>3 DEF Tree
    <2>6. \A i \in Live(r.texts) : r.texts.slots[i].parent \in Elements(r)
      BY <1>1, <1>2, <1>4 DEF Tree
    <2> QED  BY <1>1, <1>2, <2>4, <2>5, <2>6 DEF Tree
  <1> QED  BY <1>2, <1>3, <1>4, <1>5, <1>6 DEF Sound

LEMMA AddedElementIs ==
    ASSUME NEW d, Sound(d), d.elems.free # 0 \/ Len(d.elems.slots) < MaxElems, NEW p \in Elements(d),
           NEW r, r = [d EXCEPT !.elems = Alloc(@, p), !.hash = NoHash]
    PROVE  Sound(r) /\ Alike(d, r) /\ r.hash = NoHash
  <1>1. /\ d \in Collections /\ d.elems \in Tables(MaxElems) /\ MaxElems \in Nat
        /\ p \in 0 .. MaxElems /\ FreeList(d.elems)
    BY Typed, Assumed, ElementsAre DEF Sound, Tree
  <1>2. PICK t, at : t = Alloc(d.elems, p) /\ at = AllocAt(d.elems)
    OBVIOUS
  <1>3. t \in Tables(MaxElems) /\ FreeList(t) /\ Allocated(d.elems, t, at, p)
    BY <1>1, <1>2, AllocIs
  <1>4. r = [d EXCEPT !.elems = t, !.hash = NoHash]
    BY <1>2
  <1>5. Consists([d EXCEPT !.elems = t, !.hash = NoHash], t, d.texts, d.styles, d.fonts, d.fontMap, NoHash)
    BY <1>1, RehashedIs
  <1>6. Consists(r, t, d.texts, d.styles, d.fonts, d.fontMap, NoHash)
    BY <1>4, <1>5, Zenon
  <1> QED  BY <1>3, <1>6, ElementAdded

\* Operations on the texts.
LEMMA TextsGiven ==
    ASSUME NEW d, Sound(d), NEW x \in Tables(MaxTexts), FreeList(x),
           \A i \in Live(x) : x.slots[i].parent \in Elements(d),
           NEW r, Consists(r, d.elems, x, d.styles, d.fonts, d.fontMap, NoHash)
    PROVE  Sound(r) /\ Alike(d, r) /\ r.elems = d.elems /\ r.hash = NoHash
  <1>1. /\ d \in Collections /\ Tree(d) /\ Bare(d) /\ d.elems \in Tables(MaxElems) /\ NoHash \in Hashes
        /\ GoodCache(d.styles, Styles) /\ GoodCache(d.fonts, Fonts)
        /\ Len(d.styles.index) <= Cardinality(Styles) /\ d.fontMap \in [StyleIndexes -> Nat]
    BY Typed DEF Sound, Hashes
  <1>2. /\ r = [elems |-> d.elems, texts |-> x, styles |-> d.styles, fonts |-> d.fonts,
                fontMap |-> d.fontMap, hash |-> NoHash]
        /\ r.elems = d.elems /\ r.texts = x /\ r.styles = d.styles /\ r.fonts = d.fonts
        /\ r.fontMap = d.fontMap /\ r.hash = NoHash
    BY DocHas
  <1>3. r \in Collections
    BY <1>1, <1>2, MakesCollection
  <1>4. /\ StyleAt(r) = StyleAt(d) /\ FontAt(r) = FontAt(d) /\ Elements(r) = Elements(d)
        /\ \A e : Info(r, e) = Info(d, e)
    BY <1>2 DEF StyleAt, FontAt, Elements, Info
  <1>5. Alike(d, r)
    BY <1>1, <1>2, <1>3, <1>4, CountIs, Assumed DEF Alike, Gained
  <1>6. Bare(r) /\ Tree(r)
    BY <1>1, <1>2, <1>4 DEF Bare, Tree
  <1> QED  BY <1>2, <1>3, <1>5, <1>6 DEF Sound

\* A slot of a table with another parent.
Adopted(t, i, b) == [slots |-> [t.slots EXCEPT ![i].parent = b], free |-> t.free]

LEMMA AdoptedIs ==
    ASSUME NEW bound \in Nat, NEW t \in Tables(bound), FreeList(t), NEW i \in Live(t), NEW b \in 0 .. MaxElems,
           NEW r, r = Adopted(t, i, b)
    PROVE  /\ r \in Tables(bound) /\ FreeList(r) /\ Live(r) = Live(t) /\ DOMAIN r.slots = DOMAIN t.slots
           /\ i \in DOMAIN t.slots /\ r.slots[i].parent = b
           /\ \A j \in DOMAIN t.slots : /\ j # i => r.slots[j].parent = t.slots[j].parent
                                        /\ r.slots[j].style = t.slots[j].style
                                        /\ r.slots[j].font = t.slots[j].font
  <1>1. i \in DOMAIN t.slots
    BY DEF Live
  <1>2. PICK S, z : S = t.slots /\ z = S[i]
    OBVIOUS
  <1>3. DOMAIN S = 1 .. Len(S) /\ z \in SlotsOf(bound) /\ t.free \in 0 .. bound
    BY <1>1, <1>2, TableTypes
  <1>4. PICK w : w = [state |-> z.state, next |-> z.next, parent |-> b, style |-> z.style, font |-> z.font]
    OBVIOUS
  <1>5. w \in SlotsOf(bound) /\ w = [z EXCEPT !.parent = b]
    <2>1. /\ z.state \in {"free", "live"} /\ z.next \in 0 .. bound /\ z.style \in Nat /\ z.font \in Nat
          /\ z = [state |-> z.state, next |-> z.next, parent |-> z.parent, style |-> z.style, font |-> z.font]
      BY <1>3, SlotFields
    <2>2. w \in SlotsOf(bound)
      BY <1>4, <2>1 DEF SlotsOf
    <2>3. PICK st, nx, pa, sy, fo :
              /\ z = [state |-> st, next |-> nx, parent |-> pa, style |-> sy, font |-> fo]
              /\ w = [state |-> st, next |-> nx, parent |-> b, style |-> sy, font |-> fo]
      BY <1>4, <2>1, Zenon
    <2>4. w = [z EXCEPT !.parent = b]
      BY <2>3
    <2> QED  BY <2>2, <2>4
  <1>6. r = [slots |-> [t.slots EXCEPT ![i] = w], free |-> t.free]
    <2>1. [S EXCEPT ![i].parent = b] = [S EXCEPT ![i] = w]
      BY <1>2, <1>5
    <2> QED  BY <1>2, <2>1 DEF Adopted
  <1>7. r \in Tables(bound) /\ WithSlot(t, r, i, w) /\ r.free = t.free
    BY <1>1, <1>3, <1>5, <1>6, WithSlotIs
  <1>8. /\ DOMAIN r.slots = DOMAIN S /\ r.slots[i] = w /\ \A j \in DOMAIN S : j # i => r.slots[j] = S[j]
    BY <1>2, <1>7 DEF WithSlot
  <1>9. \A j \in DOMAIN S : /\ r.slots[j].state = S[j].state /\ r.slots[j].next = S[j].next
                            /\ r.slots[j].style = S[j].style /\ r.slots[j].font = S[j].font
    BY <1>2, <1>4, <1>8
  <1>10. Live(r) = Live(t)
    BY <1>2, <1>8, <1>9 DEF Live
  <1>11. NextOf(r) = NextOf(t)
    BY <1>2, <1>8, <1>9 DEF NextOf
  <1>12. FreeList(r)
    BY <1>2, <1>7, <1>8, <1>10, <1>11 DEF FreeList
  <1> QED  BY <1>1, <1>2, <1>4, <1>7, <1>8, <1>9, <1>10, <1>12

\* The collection that an adoption makes.
LEMMA AdoptionIs ==
    ASSUME NEW d, d \in Collections, NEW i, NEW b
    PROVE  /\ Consists([d EXCEPT !.elems.slots[i].parent = b],
                       Adopted(d.elems, i, b), d.texts, d.styles, d.fonts, d.fontMap, d.hash)
           /\ Consists([d EXCEPT !.texts.slots[i].parent = b],
                       d.elems, Adopted(d.texts, i, b), d.styles, d.fonts, d.fontMap, d.hash)
  <1>1. Consists(d, d.elems, d.texts, d.styles, d.fonts, d.fontMap, d.hash)
    BY Typed DEF Consists, Doc
  <1>2. ASSUME NEW t, t = [slots |-> t.slots, free |-> t.free]
        PROVE  [t EXCEPT !.slots[i].parent = b] = Adopted(t, i, b)
    <2>1. PICK S, F, S1 : S = t.slots /\ F = t.free /\ S1 = [S EXCEPT ![i].parent = b]
      OBVIOUS
    <2>2. [t EXCEPT !.slots[i].parent = b] = [t EXCEPT !.slots = S1]
      BY <2>1
    <2>3. t = [slots |-> S, free |-> F]
      BY <1>2, <2>1
    <2>4. [t EXCEPT !.slots = S1] = [slots |-> S1, free |-> F]
      BY <2>3
    <2> QED  BY <2>1, <2>2, <2>4 DEF Adopted
  <1>3. /\ d.elems = [slots |-> d.elems.slots, free |-> d.elems.free]
        /\ d.texts = [slots |-> d.texts.slots, free |-> d.texts.free]
    BY Typed, Assumed, TableTypes
  <1>4. PICK t1, t2 : t1 = Adopted(d.elems, i, b) /\ t2 = Adopted(d.texts, i, b)
    OBVIOUS
  <1>5. /\ [d.elems EXCEPT !.slots[i].parent = b] = t1
        /\ [d.texts EXCEPT !.slots[i].parent = b] = t2
    BY <1>2, <1>3, <1>4
  <1>6. /\ [d EXCEPT !.elems.slots[i].parent = b] = [d EXCEPT !.elems = t1]
        /\ [d EXCEPT !.texts.slots[i].parent = b] = [d EXCEPT !.texts = t2]
    BY <1>5
  <1>7. /\ Consists([d EXCEPT !.elems = t1], t1, d.texts, d.styles, d.fonts, d.fontMap, d.hash)
        /\ Consists([d EXCEPT !.texts = t2], d.elems, t2, d.styles, d.fonts, d.fontMap, d.hash)
    BY <1>1, FieldSet
  <1> QED  BY <1>4, <1>6, <1>7

\* moveItemsTo of an element and of a text.
LEMMA MovedElementIs ==
    ASSUME NEW d, Sound(d), d.hash = NoHash, NEW e \in Elements(d) \ {Root}, NEW b \in Elements(d),
           NEW r, r = [d EXCEPT !.elems.slots[e].parent = b]
    PROVE  Sound(r) /\ Alike(d, r) /\ r.hash = NoHash
  <1>1. /\ d \in Collections /\ Tree(d) /\ Bare(d) /\ FreeList(d.elems) /\ d.elems \in Tables(MaxElems)
        /\ d.texts \in Tables(MaxTexts) /\ MaxElems \in Nat /\ NoHash \in Hashes
        /\ GoodCache(d.styles, Styles) /\ GoodCache(d.fonts, Fonts)
        /\ Len(d.styles.index) <= Cardinality(Styles) /\ d.fontMap \in [StyleIndexes -> Nat]
    BY Typed, Assumed DEF Sound, Hashes, Tree
  <1>2. PICK t : t = Adopted(d.elems, e, b)
    OBVIOUS
  <1>3. /\ t \in Tables(MaxElems) /\ FreeList(t) /\ Live(t) = Live(d.elems)
        /\ DOMAIN t.slots = DOMAIN d.elems.slots /\ t.slots[e].parent = b
        /\ \A j \in DOMAIN d.elems.slots : /\ j # e => t.slots[j].parent = d.elems.slots[j].parent
                                           /\ t.slots[j].style = d.elems.slots[j].style
                                           /\ t.slots[j].font = d.elems.slots[j].font
    <2>1. b \in 0 .. MaxElems /\ e \in Live(d.elems)
      BY <1>1, ElementsAre DEF Elements
    <2> QED  BY <1>1, <1>2, <2>1, AdoptedIs
  <1>4. Consists(r, t, d.texts, d.styles, d.fonts, d.fontMap, NoHash)
    BY <1>1, <1>2, AdoptionIs
  <1>5. /\ r = [elems |-> t, texts |-> d.texts, styles |-> d.styles, fonts |-> d.fonts,
                fontMap |-> d.fontMap, hash |-> NoHash]
        /\ r.elems = t /\ r.texts = d.texts /\ r.styles = d.styles /\ r.fonts = d.fonts
        /\ r.fontMap = d.fontMap /\ r.hash = NoHash
    BY <1>4, DocHas
  <1>6. r \in Collections
    BY <1>1, <1>3, <1>5, MakesCollection
  <1>7. /\ Elements(r) = Elements(d) /\ DOMAIN r.elems.slots = DOMAIN d.elems.slots
        /\ Info(r, e).parent = b
        /\ \A j \in DOMAIN d.elems.slots : /\ j # e => Info(r, j).parent = Info(d, j).parent
                                           /\ Info(r, j).style = Info(d, j).style
                                           /\ Info(r, j).font = Info(d, j).font
    BY <1>3, <1>5 DEF Elements, Info
  <1>8. StyleAt(r) = StyleAt(d) /\ FontAt(r) = FontAt(d)
    <2>1. PICK D : D = DOMAIN d.elems.slots
      OBVIOUS
    <2>2. /\ DOMAIN r.elems.slots = D
          /\ \A j \in D : Info(r, j).style = Info(d, j).style /\ Info(r, j).font = Info(d, j).font
      BY <1>7, <2>1
    <2>3. /\ StyleAt(r) = [j \in 1 .. MaxElems |-> IF j \in D THEN Info(r, j).style ELSE 0]
          /\ FontAt(r) = [j \in 1 .. MaxElems |-> IF j \in D THEN Info(r, j).font ELSE 0]
          /\ StyleAt(d) = [j \in 1 .. MaxElems |-> IF j \in D THEN Info(d, j).style ELSE 0]
          /\ FontAt(d) = [j \in 1 .. MaxElems |-> IF j \in D THEN Info(d, j).font ELSE 0]
      BY <2>1, <2>2, Zenon DEF StyleAt, FontAt
    <2>4. \A j \in 1 .. MaxElems :
              /\ (IF j \in D THEN Info(r, j).style ELSE 0) = IF j \in D THEN Info(d, j).style ELSE 0
              /\ (IF j \in D THEN Info(r, j).font ELSE 0) = IF j \in D THEN Info(d, j).font ELSE 0
      BY <2>2, Zenon
    <2> QED  BY <2>3, <2>4, Zenon
  <1>9. Alike(d, r)
    BY <1>1, <1>5, <1>6, <1>8, CountIs, Assumed DEF Alike, Gained
  <1>10. Tree(r)
    <2>1. \A j \in Elements(d) : j \in DOMAIN d.elems.slots
      BY DEF Elements, Live
    <2>2. \A j \in Elements(r) \ {Root} : Info(r, j).parent \in Elements(r)
      BY <1>1, <1>7, <2>1 DEF Tree
    <2>3. Root \in Elements(r) /\ Info(r, Root).parent = 0
      BY <1>1, <1>7, <2>1 DEF Tree
    <2>4. \A i \in Live(r.texts) : r.texts.slots[i].parent \in Elements(r)
      BY <1>1, <1>5, <1>7 DEF Tree
    <2> QED  BY <1>1, <1>3, <1>5, <2>2, <2>3, <2>4 DEF Tree
  <1>11. Bare(r)
    BY <1>1, <1>7, <1>8 DEF Bare
  <1> QED  BY <1>5, <1>6, <1>9, <1>10, <1>11 DEF Sound

LEMMA MovedTextIs ==
    ASSUME NEW d, Sound(d), d.hash = NoHash, NEW i \in Live(d.texts), NEW b \in Elements(d),
           NEW r, r = [d EXCEPT !.texts.slots[i].parent = b]
    PROVE  Sound(r) /\ Alike(d, r) /\ r.hash = NoHash
  <1>1. /\ d \in Collections /\ d.texts \in Tables(MaxTexts) /\ MaxTexts \in Nat /\ FreeList(d.texts)
        /\ b \in 0 .. MaxElems /\ \A j \in Live(d.texts) : d.texts.slots[j].parent \in Elements(d)
    BY Typed, Assumed, ElementsAre DEF Sound, Tree
  <1>2. PICK t : t = Adopted(d.texts, i, b)
    OBVIOUS
  <1>3. /\ t \in Tables(MaxTexts) /\ FreeList(t) /\ Live(t) = Live(d.texts) /\ t.slots[i].parent = b
        /\ \A j \in DOMAIN d.texts.slots : j # i => t.slots[j].parent = d.texts.slots[j].parent
    BY <1>1, <1>2, AdoptedIs
  <1>4. \A j \in Live(t) : t.slots[j].parent \in Elements(d)
    <2>1. \A j \in Live(d.texts) : j \in DOMAIN d.texts.slots
      BY DEF Live
    <2> QED  BY <1>1, <1>3, <2>1
  <1>5. Consists(r, d.elems, t, d.styles, d.fonts, d.fontMap, NoHash)
    BY <1>1, <1>2, AdoptionIs
  <1> QED  BY <1>3, <1>4, <1>5, TextsGiven

\* r is d with the texts x and no hash.
Texted(d, r, x) == r = [d EXCEPT !.texts = x, !.hash = NoHash]

LEMMA TextsChange ==
    ASSUME NEW d, Sound(d), NEW x \in Tables(MaxTexts), FreeList(x),
           \A i \in Live(x) : x.slots[i].parent \in Elements(d),
           NEW r, Texted(d, r, x)
    PROVE  Sound(r) /\ Alike(d, r) /\ r.elems = d.elems /\ r.hash = NoHash
  <1>1. Consists([d EXCEPT !.texts = x, !.hash = NoHash], d.elems, x, d.styles, d.fonts, d.fontMap, NoHash)
    BY RehashedIs DEF Sound
  <1>2. Consists(r, d.elems, x, d.styles, d.fonts, d.fontMap, NoHash)
    BY <1>1, Zenon DEF Texted
  <1> QED  BY <1>2, TextsGiven

LEMMA AddedTextIs ==
    ASSUME NEW d, Sound(d), d.texts.free # 0 \/ Len(d.texts.slots) < MaxTexts, NEW p \in Elements(d),
           NEW r, r = [d EXCEPT !.texts = Alloc(@, p), !.hash = NoHash]
    PROVE  Sound(r) /\ Alike(d, r) /\ r.elems = d.elems /\ r.hash = NoHash
  <1>1. /\ d \in Collections /\ Tree(d) /\ d.texts \in Tables(MaxTexts) /\ MaxTexts \in Nat
        /\ p \in 0 .. MaxElems /\ FreeList(d.texts)
        /\ \A i \in Live(d.texts) : d.texts.slots[i].parent \in Elements(d)
    BY Typed, Assumed, ElementsAre DEF Sound, Tree
  <1>2. PICK t, at : t = Alloc(d.texts, p) /\ at = AllocAt(d.texts)
    OBVIOUS
  <1>3. t \in Tables(MaxTexts) /\ FreeList(t) /\ Allocated(d.texts, t, at, p)
    BY <1>1, <1>2, AllocIs
  <1>4. \A i \in Live(t) : t.slots[i].parent \in Elements(d)
    <2>1. \A i \in Live(d.texts) : i \in DOMAIN d.texts.slots
      BY DEF Live
    <2> QED  BY <1>1, <1>3, <2>1 DEF Allocated
  <1>5. Texted(d, r, t)
    BY <1>2 DEF Texted
  <1>6. t \in Tables(MaxTexts) /\ FreeList(t)
    BY <1>3
  <1> HIDE <1>3
  <1> QED  BY <1>4, <1>5, <1>6, TextsChange

LEMMA RemovedTextIs ==
    ASSUME NEW d, Sound(d), NEW i \in Live(d.texts), NEW r, r = DestroyText(d, i)
    PROVE  Sound(r) /\ Alike(d, r) /\ r.elems = d.elems /\ r.hash = NoHash
  <1>1. /\ d \in Collections /\ Tree(d) /\ d.texts \in Tables(MaxTexts) /\ MaxTexts \in Nat
        /\ FreeList(d.texts) /\ \A j \in Live(d.texts) : d.texts.slots[j].parent \in Elements(d)
    BY Typed, Assumed DEF Sound, Tree
  <1>2. PICK t : t = Recycle(d.texts, i)
    OBVIOUS
  <1>3. /\ t \in Tables(MaxTexts) /\ FreeList(t) /\ Live(t) = Live(d.texts) \ {i}
        /\ \A j \in DOMAIN d.texts.slots : j # i => t.slots[j].parent = d.texts.slots[j].parent
    BY <1>1, <1>2, RecycleIs
  <1>4. \A j \in Live(t) : t.slots[j].parent \in Elements(d)
    <2>1. \A j \in Live(d.texts) : j \in DOMAIN d.texts.slots
      BY DEF Live
    <2> QED  BY <1>1, <1>3, <2>1
  <1>5. Texted(d, r, t)
    BY <1>2 DEF Texted, DestroyText
  <1> QED  BY <1>3, <1>4, <1>5, TextsChange

\* A style is asked for.
LEMMA ReadIs ==
    ASSUME NEW d, Sound(d), NEW e, NEW r, r = GetNodeStyle(d, e)
    PROVE  Sound(r) /\ Alike(d, r) /\ r.elems = d.elems /\ r.hash = d.hash
  <1>1. d \in Collections /\ Tree(d) /\ Bare(d)
    BY DEF Sound
  <1>2. Referenced(d, r)
    BY <1>1, GetNodeStyleIs
  <1>3. /\ r \in Collections /\ r.elems = d.elems /\ r.texts = d.texts /\ r.fonts = d.fonts
        /\ r.fontMap = d.fontMap /\ r.hash = d.hash /\ Gained(d.styles, r.styles)
        /\ DOMAIN r.styles.index = DOMAIN d.styles.index
    BY <1>1, <1>2, ReferencedDomain DEF Referenced, Gained
  <1>4. /\ StyleAt(r) = StyleAt(d) /\ FontAt(r) = FontAt(d) /\ Elements(r) = Elements(d)
        /\ \A x : Info(r, x) = Info(d, x)
    BY <1>3 DEF StyleAt, FontAt, Elements, Info
  <1>5. Bare(r) /\ Tree(r)
    BY <1>1, <1>3, <1>4 DEF Bare, Tree
  <1> QED  BY <1>3, <1>4, <1>5 DEF Sound, Alike

\* The hash is taken.
LEMMA HashedIs ==
    ASSUME NEW d, Sound(d), NEW r, r = CalcStyleHash(d)
    PROVE  /\ Sound(r) /\ Alike(d, r) /\ r.elems = d.elems
           /\ HashRight(d) => HashRight(r)
           /\ d.hash = NoHash /\ Walks(d) /\ StylesHeld(d) => StylesBacked(r)
  <1>1. d \in Collections /\ Tree(d) /\ Bare(d)
    BY DEF Sound
  <1>2. /\ Hashed(d, r) /\ r.hash = IF d.hash = NoHash THEN HashOf(d) ELSE d.hash
        /\ d.hash = NoHash /\ Walks(d) /\ Bare(d) /\ StylesHeld(d) => StylesBacked(r)
    BY <1>1, CalcStyleHashIs
  <1>3. /\ r \in Collections /\ r.elems = d.elems /\ r.texts = d.texts /\ r.fonts = d.fonts
        /\ r.fontMap = d.fontMap /\ Gained(d.styles, r.styles)
        /\ DOMAIN r.styles.index = DOMAIN d.styles.index
    BY <1>2 DEF Hashed
  <1>4. /\ StyleAt(r) = StyleAt(d) /\ FontAt(r) = FontAt(d) /\ Elements(r) = Elements(d)
        /\ \A x : Info(r, x) = Info(d, x)
    BY <1>3 DEF StyleAt, FontAt, Elements, Info
  <1>5. Bare(r) /\ Tree(r)
    BY <1>1, <1>3, <1>4 DEF Bare, Tree
  <1>6. Sound(r) /\ Alike(d, r)
    BY <1>3, <1>4, <1>5 DEF Sound, Alike
  <1>7. HashRight(d) => HashRight(r)
    BY <1>1, <1>2, <1>3, <1>6, AlikeValues DEF HashRight
  <1> QED  BY <1>1, <1>2, <1>3, <1>6, <1>7

\* The context is updated: the hash is that of the document, with a reference for each element.
LEMMA ContextIs ==
    ASSUME NEW d, Sound(d), NEW r, r = UpdateRenderContext(d)
    PROVE  /\ Sound(r) /\ Alike(d, r) /\ r.elems = d.elems /\ HashRight(r)
           /\ Walks(d) /\ StylesHeld(d) => StylesBacked(r)
  <1>1. PICK x : x = [d EXCEPT !.hash = NoHash]
    OBVIOUS
  <1>2. d \in Collections /\ Tree(d) /\ Bare(d) /\ NoHash \in Hashes
    BY DEF Sound, Hashes
  <1>3. /\ x \in Collections /\ x.elems = d.elems /\ x.texts = d.texts /\ x.styles = d.styles
        /\ x.fonts = d.fonts /\ x.fontMap = d.fontMap /\ x.hash = NoHash
    BY <1>1, <1>2, HashSet
  <1>4. /\ StyleAt(x) = StyleAt(d) /\ FontAt(x) = FontAt(d) /\ Elements(x) = Elements(d)
        /\ \A e : Info(x, e) = Info(d, e)
    BY <1>3 DEF StyleAt, FontAt, Elements, Info
  <1>5. Sound(x)
    BY <1>2, <1>3, <1>4 DEF Sound, Bare, Tree
  <1>6. HashRight(x) /\ (Walks(d) => Walks(x)) /\ (StylesHeld(d) => StylesHeld(x))
    BY <1>3, <1>4 DEF HashRight, Walks, StylesHeld
  <1>7. r = CalcStyleHash(x)
    BY <1>1 DEF UpdateRenderContext
  <1>8. /\ Sound(r) /\ Alike(x, r) /\ r.elems = x.elems /\ HashRight(r)
        /\ Walks(d) /\ StylesHeld(d) => StylesBacked(r)
    BY <1>3, <1>5, <1>6, <1>7, HashedIs
  <1>9. Alike(d, r)
    BY <1>3, <1>4, <1>8 DEF Alike
  <1> QED  BY <1>3, <1>8, <1>9

LEMMA NoNull ==
    ASSUME NEW V, NEW y, GoodCache(y, V), Null \notin V
    PROVE  Get(y, 0) = Null /\ ~ Holds(y, 0)
  <1>1. ~ Holds(y, 0)
    BY CountIs, CacheTypes DEF GoodCache
  <1> QED  BY <1>1, CountIs

\* initNodeStyle.
LEMMA InitStyled ==
    ASSUME NEW d, Sound(d), StylesBacked(d), NEW e \in Elements(d), NEW s \in Styles,
           NEW r, r = InitNodeStyle(d, e, s)
    PROVE  /\ Sound(r) /\ SameTree(d, r) /\ StylesBacked(r) /\ StylesHeld(r) /\ r.hash = NoHash
           /\ Mapped(d) => Mapped(r)
           /\ Right(d) /\ MapCurrent(r) => Right(r)
           /\ \A x \in Elements(d) : x = e \/ Info(d, x).style # 0 => Info(r, x).style # 0
  <1>1. d \in Collections /\ Tree(d) /\ Bare(d) /\ e \in 1 .. Len(d.elems.slots) /\ e \in 1 .. MaxElems
    BY ElementsAre DEF Sound
  <1>2. PICK a, b : StyleSet(d, r, e, s, a, b)
    BY <1>1, InitNodeStyleIs
  <1>3. Restyled(d, r, e, a, b) /\ r.hash = NoHash /\ a # 0 /\ b # 0 /\ a \in StyleIndexes
    BY <1>2, Assumed DEF StyleSet, StyleIndexes
  <1>4. r \in Collections /\ SameTree(d, r)
    BY <1>3 DEF Restyled
  <1>5. Sound(r)
    BY <1>1, <1>3, <1>4, RestyledBare, SameTreeKeeps DEF Sound
  <1>6. StylesBacked(r) /\ StylesHeld(r)
    BY <1>1, <1>2, <1>4, StyleSetStyles, BackedAreHeld
  <1>7. ASSUME Mapped(d)  PROVE Mapped(r)
    <2>1. ASSUME NEW n \in DOMAIN r.styles.index  PROVE r.fontMap[n] # 0
      <3>1. n = a \/ n \in DOMAIN d.styles.index
        BY <1>2 DEF StyleSet
      <3>2. n = a \/ d.fontMap[n] # 0
        BY <1>7, <3>1 DEF Mapped
      <3>3. d.fontMap \in [StyleIndexes -> Nat]
        BY <1>1, Typed
      <3>4. CASE d.fontMap[a] = 0
        <4>1. r.fontMap = [d.fontMap EXCEPT ![a] = b]
          BY <1>2, <3>4 DEF StyleSet
        <4> QED  BY <1>3, <3>2, <3>3, <4>1
      <3>5. CASE d.fontMap[a] # 0
        <4>1. r.fontMap = d.fontMap
          BY <1>2, <3>5 DEF StyleSet
        <4> QED  BY <3>2, <3>5, <4>1
      <3> QED  BY <3>4, <3>5
    <2> QED  BY <2>1 DEF Mapped
  <1>8. ASSUME Right(d), MapCurrent(r)  PROVE Right(r)
    <2>1. FontsBacked(d) /\ Follows(d)
      BY <1>8 DEF Right
    <2>2. Get(r.fonts, b) = FontOf[s]
      BY <1>1, <1>2, <1>8, StyleSetFont
    <2>3. FontsBacked(r) /\ Follows(r)
      BY <1>1, <1>2, <2>1, <2>2, StyleSetFollows
    <2> QED  BY <1>8, <2>3 DEF Right
  <1>9. ASSUME NEW x \in Elements(d), x = e \/ Info(d, x).style # 0  PROVE Info(r, x).style # 0
    <2>1. x \in 1 .. Len(d.elems.slots) /\ x \in 1 .. Len(r.elems.slots) /\ x \in 1 .. MaxElems
      BY <1>1, <1>4, ElementsAre DEF SameTree
    <2>2. StyleAt(r) = [StyleAt(d) EXCEPT ![e] = a] /\ StyleAt(d) \in Holdings
      BY <1>1, <1>3, HoldingsOf DEF Restyled
    <2>3. Info(r, x).style = StyleAt(r)[x] /\ Info(d, x).style = StyleAt(d)[x]
      BY <1>1, <1>4, <2>1, ElementsAre
    <2>4. StyleAt(r)[x] = IF x = e THEN a ELSE StyleAt(d)[x]
      BY <2>1, <2>2 DEF Holdings
    <2> QED  BY <1>3, <1>9, <2>3, <2>4
  <1> QED  BY <1>3, <1>4, <1>5, <1>6, <1>7, <1>8, <1>9

\* setStyle, with a style that has the same font.
LEMMA StyleReplaced ==
    ASSUME NEW d, Sound(d), StylesBacked(d), AllStyled(d), NEW e \in Elements(d), NEW s \in Styles,
           FontOf[s] = FontOf[Get(d.styles, Info(d, e).style)], NEW r, r = SetNodeStyle(d, e, s)
    PROVE  /\ Sound(r) /\ StylesBacked(r) /\ StylesHeld(r) /\ AllStyled(r) /\ r.hash = NoHash
           /\ FontsBacked(d) => FontsBacked(r)
           /\ Follows(d) => Follows(r)
  <1>1. d \in Collections /\ Tree(d) /\ Bare(d) /\ e \in 1 .. Len(d.elems.slots) /\ e \in 1 .. MaxElems
    BY ElementsAre DEF Sound
  <1>2. PICK a : a = CachedAt(d.styles, s)
    OBVIOUS
  <1>3. /\ Restyled(d, r, e, a, Info(d, e).font) /\ a \in StyleIndexes /\ Took(d.styles, r.styles, a, s)
        /\ Shifted(d.styles, r.styles, Info(d, e).style, a)
        /\ r.fonts = d.fonts /\ r.fontMap = d.fontMap /\ r.hash = NoHash
    BY <1>1, <1>2, SetNodeStyleIs
  <1>4. r \in Collections /\ SameTree(d, r) /\ a # 0 /\ a \in Nat
    BY <1>3, Assumed DEF Restyled, StyleIndexes
  <1>5. Sound(r)
    BY <1>1, <1>3, <1>4, RestyledBare, SameTreeKeeps DEF Sound
  <1>6. /\ StyleAt(r) = [StyleAt(d) EXCEPT ![e] = a] /\ FontAt(r) = FontAt(d)
        /\ StyleAt(d) \in Holdings /\ StyleAt(d)[e] = Info(d, e).style
    BY <1>1, <1>3, InfoIs DEF Restyled
  <1>7. GoodCache(d.styles, Styles) /\ GoodCache(r.styles, Styles) /\ Null \notin Styles
    BY <1>1, <1>4, Typed, Assumed
  <1>8. StylesBacked(r)
    <2>1. Backed(StyleAt(d), d.styles) /\ Shifted(d.styles, r.styles, StyleAt(d)[e], a)
      BY <1>3, <1>6 DEF StylesBacked
    <2>2. Backed([StyleAt(d) EXCEPT ![e] = a], r.styles)
      BY <1>1, <1>4, <1>6, <1>7, <2>1, BackedShifts
    <2> QED  BY <1>6, <2>2 DEF StylesBacked
  <1>9. StylesHeld(r) /\ StylesHeld(d)
    BY <1>1, <1>4, <1>8, BackedAreHeld
  <1>10. AllStyled(r)
    <2>1. ASSUME NEW x \in Elements(r)  PROVE Info(r, x).style # 0
      <3>1. /\ x \in Elements(d) /\ x \in 1 .. Len(d.elems.slots) /\ x \in 1 .. Len(r.elems.slots)
            /\ x \in 1 .. MaxElems
        BY <1>1, <1>4, SameTreeKeeps, ElementsAre
      <3>2. Info(r, x).style = StyleAt(r)[x] /\ Info(d, x).style = StyleAt(d)[x] /\ Info(d, x).style # 0
        BY <1>1, <1>4, <3>1, ElementsAre DEF AllStyled
      <3>3. StyleAt(r)[x] = IF x = e THEN a ELSE StyleAt(d)[x]
        BY <1>6, <3>1 DEF Holdings
      <3> QED  BY <1>4, <3>2, <3>3
    <2> QED  BY <2>1 DEF AllStyled
  <1>11. FontsBacked(d) => FontsBacked(r)
    BY <1>3, <1>6 DEF FontsBacked
  <1>12. ASSUME Follows(d)  PROVE Follows(r)
    <2>1. ASSUME NEW x \in 1 .. MaxElems, StyleAt(r)[x] # 0
          PROVE  Get(r.fonts, FontAt(r)[x]) = FontOf[Get(r.styles, StyleAt(r)[x])]
      <3>1. StyleAt(r)[x] = IF x = e THEN a ELSE StyleAt(d)[x]
        BY <1>6 DEF Holdings
      <3>2. CASE x = e
        <4>1. Get(r.styles, a) = s
          BY <1>3 DEF Took
        <4>2. Info(d, e).style # 0
          BY DEF AllStyled
        <4>3. Get(d.fonts, FontAt(d)[e]) = FontOf[Get(d.styles, Info(d, e).style)]
          BY <1>1, <1>6, <1>12, <4>2 DEF Follows
        <4> QED  BY <1>3, <1>6, <3>1, <3>2, <4>1, <4>3
      <3>3. CASE x # e
        <4>1. PICK n : n = StyleAt(d)[x]
          OBVIOUS
        <4>2. StyleAt(r)[x] = n /\ n # 0 /\ Holds(d.styles, n) /\ Holds(r.styles, n)
          BY <1>9, <2>1, <3>1, <3>3, <4>1 DEF StylesHeld
        <4>3. Get(r.styles, n) = Get(d.styles, n)
          BY <1>3, <4>2 DEF Took
        <4>4. Get(d.fonts, FontAt(d)[x]) = FontOf[Get(d.styles, n)]
          BY <1>12, <4>1, <4>2 DEF Follows
        <4> QED  BY <1>3, <1>6, <4>2, <4>3, <4>4
      <3> QED  BY <3>2, <3>3
    <2> QED  BY <2>1 DEF Follows
  <1> QED  BY <1>3, <1>5, <1>8, <1>9, <1>10, <1>11, <1>12

\* dropStyles.
LEMMA DroppedIs ==
    ASSUME NEW d, Sound(d), Walks(d), NEW r, r = DropStyles(d)
    PROVE  /\ Sound(r) /\ SameTree(d, r) /\ StylesBacked(r) /\ StylesHeld(r) /\ Right(r) /\ NothingStyled(r)
           /\ r.hash = NoHash /\ r.styles = EmptyCache /\ r.fonts = EmptyCache /\ r.fontMap = d.fontMap
           /\ Get(r.fonts, Info(r, Root).font) = Null
  <1>1. d \in Collections /\ Tree(d) /\ Bare(d)
    BY DEF Sound
  <1>2. /\ r \in Collections /\ SameTree(d, r) /\ StyleAt(r) = NoHoldings /\ FontAt(r) = NoHoldings
        /\ r.styles = EmptyCache /\ r.fonts = EmptyCache /\ r.fontMap = d.fontMap /\ r.hash = NoHash
    BY <1>1, DropStylesIs
  <1>3. \A e \in 1 .. MaxElems : StyleAt(r)[e] = 0 /\ FontAt(r)[e] = 0
    BY <1>2 DEF NoHoldings
  <1>4. Sound(r)
    BY <1>1, <1>2, <1>3, SameTreeKeeps DEF Sound, Bare
  <1>5. /\ GoodCache(EmptyCache, Styles) /\ GoodCache(EmptyCache, Fonts) /\ Null \notin Styles
        /\ Null \notin Fonts /\ \A n : ~ Holds(EmptyCache, n) /\ Get(EmptyCache, n) = Null
    BY EmptyIsGood, Assumed
  <1>6. StylesBacked(r) /\ FontsBacked(r)
    BY <1>2, <1>5, NothingHeld DEF StylesBacked, FontsBacked
  <1>7. StylesHeld(r) /\ Follows(r)
    BY <1>3 DEF StylesHeld, Follows
  <1>8. MapCurrent(r)
    BY <1>2, <1>5 DEF MapCurrent
  <1> QED  BY <1>2, <1>4, <1>5, <1>6, <1>7, <1>8 DEF Right, NothingStyled

\* initNodeFont of an element that has the font of _fontMap.
LEMMA FontAgain ==
    ASSUME NEW d, Sound(d), StylesBacked(d), NEW e \in Elements(d), NEW s, s = Info(d, e).style, s \in StyleIndexes,
           NEW b, b = d.fontMap[s], b # 0, Info(d, e).font = b, d.hash = NoHash,
           NEW r, r = InitNodeFont(d, e)
    PROVE  /\ Sound(r) /\ SameTree(d, r) /\ StylesBacked(r) /\ r.hash = NoHash
           /\ \A x \in Elements(d) : /\ x \in Elements(r) /\ Info(r, x).style = Info(d, x).style
                                     /\ Info(r, x).font = Info(d, x).font
           /\ \A m : Get(r.fonts, m) = Get(d.fonts, m)
           /\ MapCurrent(r) <=> MapCurrent(d)
           /\ Right(d) => Right(r)
  <1>1. d \in Collections /\ Tree(d) /\ Bare(d) /\ e \in 1 .. Len(d.elems.slots) /\ e \in 1 .. MaxElems
    BY ElementsAre DEF Sound
  <1>2. /\ FontSet(d, r, e, s, b) /\ r.fontMap = d.fontMap
        /\ \A m : (Holds(r.fonts, m) <=> Holds(d.fonts, m)) /\ Get(r.fonts, m) = Get(d.fonts, m)
    BY <1>1, KnownFontIs
  <1>3. /\ Restyled(d, r, e, s, b) /\ r.styles = d.styles /\ r.hash = NoHash /\ b \in Nat \ {0}
        /\ Holds(r.fonts, b) => Shifted(d.fonts, r.fonts, b, b)
    BY <1>2 DEF FontSet
  <1>4. r \in Collections /\ SameTree(d, r)
    BY <1>3 DEF Restyled
  <1>5. Sound(r)
    BY <1>1, <1>3, <1>4, RestyledBare, SameTreeKeeps DEF Sound
  <1>6. StyleAt(r) = StyleAt(d) /\ FontAt(r) = FontAt(d) /\ FontAt(d)[e] = b /\ FontAt(d) \in Holdings
    BY <1>1, <1>3, InfoIs DEF Restyled
  <1>7. ASSUME NEW x \in Elements(d)
        PROVE  /\ x \in Elements(r) /\ Info(r, x).style = Info(d, x).style
               /\ Info(r, x).font = Info(d, x).font
    <2>1. x \in 1 .. Len(d.elems.slots) /\ x \in 1 .. Len(r.elems.slots) /\ x \in Elements(r)
      BY <1>1, <1>4, SameTreeKeeps, ElementsAre
    <2> QED  BY <1>1, <1>4, <1>6, <2>1, ElementsAre
  <1>8. StylesBacked(r)
    BY <1>3, <1>6 DEF StylesBacked
  <1>9. MapCurrent(r) <=> MapCurrent(d)
    BY <1>2, <1>3 DEF MapCurrent
  <1>10. Follows(d) => Follows(r)
    BY <1>2, <1>3, <1>6 DEF Follows
  <1>11. ASSUME FontsBacked(d)  PROVE FontsBacked(r)
    <2>1. GoodCache(d.fonts, Fonts) /\ GoodCache(r.fonts, Fonts) /\ Null \notin Fonts /\ Backed(FontAt(d), d.fonts)
      BY <1>1, <1>4, <1>11, Typed, Assumed DEF FontsBacked
    <2>2. Holds(d.fonts, b)
      <3>1. FontAt(d)[e] # 0
        BY <1>3, <1>6
      <3>2. Holds(d.fonts, FontAt(d)[e])
        BY <1>1, <1>6, <2>1, <3>1, BackedHolds
      <3> QED  BY <1>6, <3>2
    <2>3. Shifted(d.fonts, r.fonts, FontAt(d)[e], b)
      BY <1>2, <1>3, <1>6, <2>2
    <2>4. Backed([FontAt(d) EXCEPT ![e] = b], r.fonts)
      BY <1>1, <1>3, <1>6, <2>1, <2>3, BackedShifts
    <2>5. [FontAt(d) EXCEPT ![e] = b] = FontAt(d)
      BY <1>6 DEF Holdings
    <2> QED  BY <1>6, <2>4, <2>5 DEF FontsBacked
  <1> QED  BY <1>2, <1>3, <1>4, <1>5, <1>7, <1>8, <1>9, <1>10, <1>11 DEF Right

\* What InitNodeStyle leaves for a second InitNodeFont.
LEMMA InitStyledFont ==
    ASSUME NEW d, Sound(d), NEW e \in Elements(d), NEW s \in Styles, NEW r, r = InitNodeStyle(d, e, s)
    PROVE  /\ Info(r, e).style \in StyleIndexes /\ r.fontMap[Info(r, e).style] # 0
           /\ Info(r, e).font = r.fontMap[Info(r, e).style]
           /\ Get(r.styles, Info(r, e).style) = s /\ Holds(r.styles, Info(r, e).style)
           /\ d.styles = EmptyCache => Info(r, e).style = 1
           /\ d.fonts = EmptyCache /\ d.fontMap[Info(r, e).style] # 0 => \A m : Get(r.fonts, m) = Null
  <1>1. d \in Collections /\ e \in 1 .. Len(d.elems.slots) /\ e \in 1 .. MaxElems
    BY ElementsAre DEF Sound
  <1>2. PICK a, b : StyleSet(d, r, e, s, a, b)
    BY <1>1, InitNodeStyleIs
  <1>3. /\ Restyled(d, r, e, a, b) /\ a \in StyleIndexes /\ b \in Nat \ {0} /\ Took(d.styles, r.styles, a, s)
        /\ \A n \in DOMAIN r.styles.index : n = a \/ n \in DOMAIN d.styles.index
    BY <1>2 DEF StyleSet
  <1>4. r \in Collections /\ SameTree(d, r) /\ StyleAt(r) = [StyleAt(d) EXCEPT ![e] = a]
        /\ FontAt(r) = [FontAt(d) EXCEPT ![e] = b]
    BY <1>3 DEF Restyled
  <1>5. Info(r, e).style = a /\ Info(r, e).font = b
    <2>1. e \in 1 .. Len(r.elems.slots)
      BY <1>1, <1>4 DEF SameTree
    <2>2. StyleAt(r)[e] = Info(r, e).style /\ FontAt(r)[e] = Info(r, e).font
      BY <1>4, <2>1, ElementsAre
    <2>3. StyleAt(d) \in Holdings /\ FontAt(d) \in Holdings
      BY <1>1, HoldingsOf
    <2> QED  BY <1>1, <1>4, <2>2, <2>3 DEF Holdings
  <1>6. d.fontMap \in [StyleIndexes -> Nat]
    BY <1>1, Typed
  <1>7. r.fontMap[a] = b
    <2>1. CASE d.fontMap[a] = 0
      <3>1. r.fontMap = [d.fontMap EXCEPT ![a] = b]
        BY <1>2, <2>1 DEF StyleSet
      <3> QED  BY <1>3, <1>6, <3>1
    <2>2. CASE d.fontMap[a] # 0
      BY <1>2, <2>2 DEF StyleSet
    <2> QED  BY <2>1, <2>2
  <1>8. Get(r.styles, a) = s /\ Holds(r.styles, a)
    BY <1>3 DEF Took
  <1>9. ASSUME d.styles = EmptyCache  PROVE a = 1
    <2>1. DOMAIN d.styles.index = {} /\ DOMAIN EmptyCache.index = {}
      BY <1>9 DEF EmptyCache
    <2>2. GoodCache(r.styles, Styles) /\ Null \notin Styles
      BY <1>4, Typed, Assumed
    <2>3. DOMAIN r.styles.index = 1 .. Len(r.styles.index) /\ Len(r.styles.index) \in Nat
      BY <2>2, CacheTypes DEF GoodCache
    <2>4. a \in 1 .. Len(r.styles.index)
      BY <1>8, <2>2, CountIs
    <2>5. 1 \in DOMAIN r.styles.index
      BY <2>3, <2>4
    <2> QED  BY <1>3, <2>1, <2>5
  <1>10. ASSUME d.fonts = EmptyCache, d.fontMap[a] # 0  PROVE \A m : Get(r.fonts, m) = Null
    <2>1. \A m : Get(r.fonts, m) = Get(d.fonts, m)
      BY <1>2, <1>10 DEF StyleSet
    <2>2. \A m : Get(EmptyCache, m) = Null
      BY EmptyIsGood
    <2> QED  BY <1>10, <2>1, <2>2
  <1> QED  BY <1>3, <1>5, <1>7, <1>8, <1>9, <1>10

\* The root is styled again at the end of parsing: d is the document with or without its styles.
LEMMA RootStyled ==
    ASSUME NEW d, Sound(d), Walks(d), StylesBacked(d), NEW s \in Styles,
           NEW y, y = InitNodeStyle(d, Root, s), NEW x, x = InitNodeFont(y, Root),
           NEW r, r = UpdateRenderContext(x)
    PROVE  /\ Sound(r) /\ Walks(r) /\ StylesBacked(r) /\ StylesHeld(r) /\ HashRight(r)
           /\ AllStyled(d) => AllStyled(r)
           /\ Right(d) /\ MapCurrent(r) => Right(r)
           /\ d.styles = EmptyCache /\ d.fonts = EmptyCache /\ d.fontMap[1] # 0
                 => Get(r.fonts, Info(r, Root).font) = Null /\ ~ MapCurrent(r)
  <1>1. d \in Collections /\ Tree(d) /\ Root \in Elements(d)
    BY DEF Sound, Tree
  <1>2. /\ Sound(y) /\ SameTree(d, y) /\ StylesBacked(y) /\ StylesHeld(y) /\ y.hash = NoHash
        /\ Right(d) /\ MapCurrent(y) => Right(y)
        /\ \A e \in Elements(d) : e = Root \/ Info(d, e).style # 0 => Info(y, e).style # 0
    BY <1>1, InitStyled
  <1>3. PICK a, b : a = Info(y, Root).style /\ b = y.fontMap[a]
    OBVIOUS
  <1>4. /\ a \in StyleIndexes /\ b # 0 /\ Info(y, Root).font = b
        /\ Get(y.styles, a) = s /\ Holds(y.styles, a)
        /\ d.styles = EmptyCache => a = 1
        /\ d.fonts = EmptyCache /\ d.fontMap[a] # 0 => \A m : Get(y.fonts, m) = Null
    BY <1>1, <1>3, InitStyledFont
  <1>5. y \in Collections /\ Elements(y) = Elements(d) /\ Root \in Elements(y)
    BY <1>1, <1>2, SameTreeKeeps DEF Sound
  <1>6. /\ Sound(x) /\ SameTree(y, x) /\ StylesBacked(x) /\ x.hash = NoHash
        /\ \A e \in Elements(y) : /\ e \in Elements(x) /\ Info(x, e).style = Info(y, e).style
                                  /\ Info(x, e).font = Info(y, e).font
        /\ \A m : Get(x.fonts, m) = Get(y.fonts, m)
        /\ MapCurrent(x) <=> MapCurrent(y)
        /\ Right(y) => Right(x)
    BY <1>2, <1>3, <1>4, <1>5, FontAgain
  <1>7. x \in Collections /\ Elements(x) = Elements(d)
    BY <1>5, <1>6, SameTreeKeeps DEF Sound
  <1>8. Walks(x)
    BY <1>2, <1>6 DEF Walks, SameTree
  <1>9. Sound(r) /\ Alike(x, r) /\ r.elems = x.elems /\ HashRight(r)
    BY <1>6, ContextIs
  <1>10. Walks(r) /\ HashRight(r)
    BY <1>8, <1>9 DEF Walks
  <1>11. StylesBacked(r) /\ StylesHeld(r) /\ (MapCurrent(r) <=> MapCurrent(x)) /\ (Right(x) => Right(r))
    BY <1>6, <1>7, <1>9, AlikeKeeps, BackedAreHeld DEF Sound
  <1>12. AllStyled(x) => AllStyled(r)
    BY <1>7, <1>9, AlikeValues
  <1>13. AllStyled(d) => AllStyled(x)
    BY <1>2, <1>5, <1>6, <1>7 DEF AllStyled
  <1>14. Right(d) /\ MapCurrent(r) => Right(r)
    BY <1>2, <1>6, <1>11
  <1>15. ASSUME d.styles = EmptyCache, d.fonts = EmptyCache, d.fontMap[1] # 0
         PROVE  Get(r.fonts, Info(r, Root).font) = Null /\ ~ MapCurrent(r)
    <2>1. \A m : Get(y.fonts, m) = Null
      BY <1>4, <1>15
    <2>2. \A m : Get(r.fonts, m) = Null
      BY <1>6, <1>9, <2>1 DEF Alike
    <2>3. ~ MapCurrent(y)
      <3>1. FontOf[s] # Null
        BY Assumed
      <3>2. Get(y.fonts, y.fontMap[a]) = Null
        BY <2>1
      <3>3. a \in StyleIndexes /\ y.fontMap[a] # 0 /\ Holds(y.styles, a) /\ FontOf[Get(y.styles, a)] = FontOf[s]
        BY <1>3, <1>4
      <3> QED  BY <3>1, <3>2, <3>3 DEF MapCurrent
    <2> QED  BY <1>6, <1>11, <2>2, <2>3
  <1> QED  BY <1>9, <1>10, <1>11, <1>12, <1>13, <1>14, <1>15

\* The end of parsing.
LEMMA ParsedIs ==
    ASSUME NEW d, NEW o, DocOK(d, o, "parsing"), Walks(d), AllStyled(d),
           NEW fonts \in BOOLEAN, NEW pseudo \in BOOLEAN,
           NEW before, before = IF fonts THEN DropStyles(d) ELSE d,
           NEW s, s = Get(d.styles, Info(d, Root).style),
           NEW y, y = InitNodeStyle(before, Root, s), NEW root, root = UpdateRenderContext(InitNodeFont(y, Root)),
           NEW r, r = IF pseudo THEN DropStyles(root) ELSE root,
           NEW o2, o2 = (o \/ ~ MapCurrent(r))
    PROVE  DocOK(r, o2, "parsed")
  <1>1. /\ Sound(d) /\ StylesHeld(d) /\ StylesBacked(d) /\ Mapped(d) /\ o \in BOOLEAN /\ (~ o => Right(d))
        /\ d \in Collections /\ Root \in Elements(d)
    BY DEF DocOK, Phased, Sound, Tree
  <1>2. s \in Styles /\ 1 \in DOMAIN d.styles.index
    <2>1. PICK n : n = Info(d, Root).style
      OBVIOUS
    <2>2. StyleAt(d)[Root] = n /\ n # 0 /\ Root \in 1 .. MaxElems
      BY <1>1, <2>1, ElementsAre DEF AllStyled
    <2>3. Holds(d.styles, n) /\ GoodCache(d.styles, Styles) /\ Null \notin Styles
      BY <1>1, <2>2, Typed, Assumed DEF StylesHeld
    <2>4. n \in 1 .. Len(d.styles.index) /\ Get(d.styles, n) \in Styles
      BY <2>3, CountIs
    <2>5. DOMAIN d.styles.index = 1 .. Len(d.styles.index) /\ Len(d.styles.index) \in Nat
      BY <2>3, CacheTypes DEF GoodCache
    <2> QED  BY <2>1, <2>4, <2>5
  <1>3. d.fontMap[1] # 0
    BY <1>1, <1>2 DEF Mapped
  <1>4. /\ Sound(root) /\ Walks(root) /\ StylesBacked(root) /\ StylesHeld(root) /\ HashRight(root)
        /\ AllStyled(root) \/ Get(root.fonts, Info(root, Root).font) = Null
        /\ ~ o /\ MapCurrent(root) => Right(root)
    <2>1. PICK x : x = InitNodeFont(y, Root)
      OBVIOUS
    <2>2. CASE fonts
      <3>1. before = DropStyles(d)
        BY <2>2
      <3>2. /\ Sound(before) /\ SameTree(d, before) /\ StylesBacked(before)
            /\ before.styles = EmptyCache /\ before.fonts = EmptyCache /\ before.fontMap = d.fontMap
        BY <1>1, <3>1, DroppedIs
      <3>3. Walks(before)
        BY <3>2 DEF Walks, SameTree
      <3>4. before.fontMap[1] # 0
        BY <1>3, <3>2
      <3>5. /\ Sound(root) /\ Walks(root) /\ StylesBacked(root) /\ StylesHeld(root) /\ HashRight(root)
            /\ Get(root.fonts, Info(root, Root).font) = Null /\ ~ MapCurrent(root)
        BY <1>2, <2>1, <3>2, <3>3, <3>4, RootStyled
      <3> QED  BY <3>5
    <2>3. CASE ~ fonts
      <3>1. before = d
        BY <2>3
      <3>2. /\ Sound(root) /\ Walks(root) /\ StylesBacked(root) /\ StylesHeld(root) /\ HashRight(root)
            /\ AllStyled(root) /\ (Right(d) /\ MapCurrent(root) => Right(root))
        BY <1>1, <1>2, <2>1, <3>1, RootStyled
      <3> QED  BY <1>1, <3>2
    <2> QED  BY <2>2, <2>3
  <1>5. CASE pseudo
    <2>1. r = DropStyles(root)
      BY <1>5
    <2>2. /\ Sound(r) /\ StylesBacked(r) /\ StylesHeld(r) /\ Right(r) /\ r.hash = NoHash
          /\ Get(r.fonts, Info(r, Root).font) = Null
      BY <1>4, <2>1, DroppedIs
    <2>3. HashRight(r) /\ Phased(r, "parsed") /\ o2 \in BOOLEAN
      BY <1>1, <2>2 DEF HashRight, Phased
    <2> QED  BY <2>2, <2>3 DEF DocOK
  <1>6. CASE ~ pseudo
    <2>1. r = root
      BY <1>6
    <2>2. Phased(r, "parsed") /\ o2 \in BOOLEAN /\ (~ o2 => Right(r))
      BY <1>1, <1>4, <2>1 DEF Phased
    <2> QED  BY <1>4, <2>1, <2>2 DEF DocOK
  <1> QED  BY <1>5, <1>6

-----------------------------------------------------------------------------
(* Every action keeps the invariant.                                       *)

\* What the file holds was saved from a document.
FromSaved == image = NoImage \/ \E d, o : Saved(d, o, image)

NodesInv ==
    /\ phase \in Phases /\ DocOK(nodes, outdated, phase)
    /\ FromSaved /\ LoadedAsSaved

LEMMA BoundaryWalks ==
    ASSUME ~ AtBoundary, Boundary
    PROVE  Walks(nodes)
  BY DEF Boundary, Walks

LEMMA UnstyledAll ==
    ASSUME Unstyled = {}
    PROVE  AllStyled(nodes)
  BY DEF Unstyled, AllStyled

\* What an operation keeps that leaves the file and does not load.
LEMMA NotLoaded ==
    ASSUME FromSaved, image' = image \/ image' = NoImage, phase' # "loaded"
    PROVE  FromSaved' /\ LoadedAsSaved'
  BY DEF FromSaved, LoadedAsSaved

LEMMA InitOK == ASSUME NodesInit PROVE NodesInv
  <1>1. PICK t : t = Alloc(EmptyTable, 0)
    OBVIOUS
  <1>2. EmptyTable \in Tables(MaxElems) /\ EmptyTable \in Tables(MaxTexts) /\ FreeList(EmptyTable)
        /\ Live(EmptyTable) = {} /\ DOMAIN EmptyTable.slots = {} /\ Len(EmptyTable.slots) = 0
        /\ EmptyTable.free = 0
    <2>1. EmptyTable.slots = <<>> /\ EmptyTable.free = 0
      BY DEF EmptyTable
    <2>2. Linked(<<>>, 0, NextOf(EmptyTable)) /\ Range(<<>>) = {}
      BY NothingLinked
    <2>3. FreeList(EmptyTable)
      BY <2>1, <2>2 DEF FreeList
    <2>4. EmptyTable \in Tables(MaxElems) /\ EmptyTable \in Tables(MaxTexts)
      BY Assumed DEF EmptyTable, Tables
    <2>5. DOMAIN EmptyTable.slots = {} /\ Len(EmptyTable.slots) = 0
      BY <2>1
    <2> QED  BY <2>1, <2>3, <2>4, <2>5 DEF Live
  <1>3. AllocAt(EmptyTable) = 1
    BY <1>2 DEF AllocAt
  <1>4. t \in Tables(MaxElems) /\ FreeList(t) /\ Allocated(EmptyTable, t, 1, 0)
    <2>1. MaxElems \in Nat /\ 0 \in 0 .. MaxElems /\ Len(EmptyTable.slots) < MaxElems
      BY <1>2, Assumed
    <2> QED  BY <1>1, <1>2, <1>3, <2>1, AllocIs
  <1>5. /\ Live(t) = {1} /\ DOMAIN t.slots = {1} /\ t.slots[1].parent = 0
        /\ t.slots[1].style = 0 /\ t.slots[1].font = 0
    BY <1>2, <1>4 DEF Allocated
  <1>6. Consists(nodes, t, EmptyTable, EmptyCache, EmptyCache, NoFonts, NoHash)
    BY <1>1 DEF NodesInit, NewCollection, Consists, Doc
  <1>7. /\ nodes = [elems |-> t, texts |-> EmptyTable, styles |-> EmptyCache, fonts |-> EmptyCache,
                    fontMap |-> NoFonts, hash |-> NoHash]
        /\ nodes.elems = t /\ nodes.texts = EmptyTable /\ nodes.styles = EmptyCache
        /\ nodes.fonts = EmptyCache /\ nodes.fontMap = NoFonts /\ nodes.hash = NoHash
    BY <1>6, DocHas
  <1>8. /\ GoodCache(EmptyCache, Styles) /\ GoodCache(EmptyCache, Fonts) /\ Len(EmptyCache.index) = 0
        /\ Null \notin Styles /\ Null \notin Fonts /\ NoFonts \in [StyleIndexes -> Nat]
        /\ NoHash \in Hashes /\ Cardinality(Styles) \in Nat
        /\ \A n : ~ Holds(EmptyCache, n)
    BY EmptyIsGood, NoFontsIs, Assumed DEF Hashes
  <1>9. nodes \in Collections
    BY <1>2, <1>4, <1>7, <1>8, MakesCollection
  <1>10. /\ Elements(nodes) = {1} /\ Info(nodes, 1).parent = 0
         /\ Info(nodes, 1).style = 0 /\ Info(nodes, 1).font = 0
    BY <1>5, <1>7 DEF Elements, Info
  <1>11. \A e \in 1 .. MaxElems : StyleAt(nodes)[e] = 0 /\ FontAt(nodes)[e] = 0
    BY <1>5, <1>7, <1>10 DEF StyleAt, FontAt
  <1>12. StyleAt(nodes) = NoHoldings /\ FontAt(nodes) = NoHoldings
    BY <1>11 DEF StyleAt, FontAt, NoHoldings
  <1>13. Sound(nodes)
    BY <1>2, <1>4, <1>7, <1>9, <1>10, <1>11 DEF Sound, Tree, Bare, Root
  <1>14. StylesBacked(nodes) /\ FontsBacked(nodes)
    BY <1>7, <1>8, <1>12, NothingHeld DEF StylesBacked, FontsBacked
  <1>15. MapCurrent(nodes) /\ Mapped(nodes)
    BY <1>7, <1>8 DEF MapCurrent, Mapped, EmptyCache
  <1>16. StylesHeld(nodes) /\ Follows(nodes)
    BY <1>11 DEF StylesHeld, Follows
  <1>17. phase = "parsing" /\ outdated = FALSE /\ image = NoImage
    BY DEF NodesInit
  <1> QED
    BY <1>7, <1>13, <1>14, <1>15, <1>16, <1>17
    DEF NodesInv, Phases, DocOK, Phased, HashRight, Right, FromSaved, LoadedAsSaved

\* A change of the tree while it is built.
LEMMA BuildingOK ==
    ASSUME NodesInv, Building, Sound(nodes'), Alike(nodes, nodes'), nodes'.hash = NoHash,
           Track, UNCHANGED <<phase, image>>
    PROVE  NodesInv'
  <1>1. /\ phase \in {"parsing", "boxing"} /\ phase' = phase /\ image' = image
        /\ outdated' = (outdated \/ ~ MapCurrent(nodes'))
    BY DEF Building, Track
  <1>2. DocOK(nodes, outdated, phase) /\ StylesBacked(nodes) /\ nodes \in Collections /\ FromSaved
        /\ (phase = "parsing" => Mapped(nodes))
    BY <1>1 DEF NodesInv, DocOK, Phased, Sound
  <1>3. PICK d, o, ph, r, o2 : d = nodes /\ o = outdated /\ ph = phase /\ r = nodes' /\ o2 = outdated'
    OBVIOUS
  <1>4. o2 \in BOOLEAN /\ (~ o2 => Right(r)) /\ StylesHeld(r)
    <2>1. DocOK(d, o, ph) /\ Alike(d, r) /\ o2 = (o \/ ~ MapCurrent(r))
      BY <1>1, <1>2, <1>3
    <2> QED  BY <2>1, AlikeOK
  <1>5. StylesBacked(r) /\ (Mapped(d) => Mapped(r))
    BY <1>2, <1>3, AlikeKeeps
  <1>6. DocOK(r, o2, ph)
    BY <1>1, <1>2, <1>3, <1>4, <1>5 DEF DocOK, HashRight, Phased
  <1>7. FromSaved' /\ LoadedAsSaved'
    BY <1>1, <1>2, NotLoaded
  <1> QED  BY <1>1, <1>3, <1>6, <1>7 DEF NodesInv, Phases

LEMMA AddElementOK == ASSUME NodesInv, AddElement PROVE NodesInv'
  <1>1. PICK p \in Elements(nodes) : nodes' = [nodes EXCEPT !.elems = Alloc(@, p), !.hash = NoHash]
    BY DEF AddElement
  <1>2. /\ Building /\ Track /\ UNCHANGED <<phase, image>>
        /\ nodes.elems.free # 0 \/ Len(nodes.elems.slots) < MaxElems
    BY DEF AddElement
  <1>3. Sound(nodes)
    BY DEF NodesInv, DocOK
  <1>4. Sound(nodes') /\ Alike(nodes, nodes') /\ nodes'.hash = NoHash
    BY <1>1, <1>2, <1>3, AddedElementIs
  <1> QED  BY <1>2, <1>4, BuildingOK

LEMMA AddTextOK == ASSUME NodesInv, AddText PROVE NodesInv'
  <1>1. PICK p \in Elements(nodes) : nodes' = [nodes EXCEPT !.texts = Alloc(@, p), !.hash = NoHash]
    BY DEF AddText
  <1>2. /\ Building /\ Track /\ UNCHANGED <<phase, image>>
        /\ nodes.texts.free # 0 \/ Len(nodes.texts.slots) < MaxTexts
    BY DEF AddText, Building
  <1>3. Sound(nodes)
    BY DEF NodesInv, DocOK
  <1>4. Sound(nodes') /\ Alike(nodes, nodes') /\ nodes'.hash = NoHash
    BY <1>1, <1>2, <1>3, AddedTextIs
  <1> QED  BY <1>2, <1>4, BuildingOK

LEMMA RemoveTextOK == ASSUME NodesInv, RemoveText PROVE NodesInv'
  <1>1. PICK i \in Live(nodes.texts) : nodes' = DestroyText(nodes, i)
    BY DEF RemoveText
  <1>2. Building /\ Track /\ UNCHANGED <<phase, image>>
    BY DEF RemoveText, Building
  <1>3. Sound(nodes)
    BY DEF NodesInv, DocOK
  <1>4. Sound(nodes') /\ Alike(nodes, nodes') /\ nodes'.hash = NoHash
    BY <1>1, <1>3, RemovedTextIs
  <1> QED  BY <1>2, <1>4, BuildingOK

LEMMA MoveItemOK == ASSUME NodesInv, MoveItem PROVE NodesInv'
  <1>1. PICK b \in Elements(nodes) :
            \/ \E e \in Elements(nodes) \ {Root} : nodes' = [nodes EXCEPT !.elems.slots[e].parent = b]
            \/ \E i \in Live(nodes.texts) : nodes' = [nodes EXCEPT !.texts.slots[i].parent = b]
    BY DEF MoveItem
  <1>2. Building /\ Track /\ UNCHANGED <<phase, image>>
    BY DEF MoveItem
  <1>3. Sound(nodes) /\ nodes.hash = NoHash
    BY <1>2 DEF NodesInv, DocOK, Phased, Building
  <1>4. Sound(nodes') /\ Alike(nodes, nodes') /\ nodes'.hash = NoHash
    BY <1>1, <1>3, MovedElementIs, MovedTextIs
  <1> QED  BY <1>2, <1>4, BuildingOK

LEMMA InitStyleOK == ASSUME NodesInv, InitStyle PROVE NodesInv'
  <1>1. PICK e \in Elements(nodes), s \in Styles : nodes' = InitNodeStyle(nodes, e, s)
    BY DEF InitStyle
  <1>2. /\ phase \in {"parsing", "boxing"} /\ phase' = phase /\ image' = image
        /\ outdated' = (outdated \/ ~ MapCurrent(nodes'))
    BY DEF InitStyle, Building, Track
  <1>3. /\ Sound(nodes) /\ StylesBacked(nodes) /\ (phase = "parsing" => Mapped(nodes))
        /\ outdated \in BOOLEAN /\ (~ outdated => Right(nodes)) /\ FromSaved
    BY <1>2 DEF NodesInv, DocOK, Phased
  <1>4. /\ Sound(nodes') /\ StylesBacked(nodes') /\ StylesHeld(nodes') /\ nodes'.hash = NoHash
        /\ Mapped(nodes) => Mapped(nodes')
        /\ Right(nodes) /\ MapCurrent(nodes') => Right(nodes')
    <2>1. PICK d, r : d = nodes /\ r = nodes'
      OBVIOUS
    <2>2. Sound(d) /\ StylesBacked(d) /\ e \in Elements(d) /\ r = InitNodeStyle(d, e, s)
      BY <1>1, <1>3, <2>1
    <2>3. /\ Sound(r) /\ StylesBacked(r) /\ StylesHeld(r) /\ r.hash = NoHash
          /\ Mapped(d) => Mapped(r)
          /\ Right(d) /\ MapCurrent(r) => Right(r)
      BY <2>2, InitStyled
    <2> QED  BY <2>1, <2>3
  <1>5. outdated' \in BOOLEAN /\ (~ outdated' => Right(nodes'))
    BY <1>2, <1>3, <1>4
  <1>6. Phased(nodes', phase') /\ HashRight(nodes')
    BY <1>2, <1>3, <1>4 DEF Phased, HashRight
  <1>7. FromSaved' /\ LoadedAsSaved'
    BY <1>2, <1>3, NotLoaded
  <1> QED  BY <1>2, <1>4, <1>5, <1>6, <1>7 DEF NodesInv, DocOK, Phases

LEMMA SetStyleOK == ASSUME NodesInv, SetStyle PROVE NodesInv'
  <1>1. PICK e \in Elements(nodes), s \in Styles :
            /\ FontOf[s] = FontOf[ValueOf(nodes, e)[1]]
            /\ nodes' = SetNodeStyle(GetNodeStyle(nodes, e), e, s)
    BY DEF SetStyle
  <1>2. /\ phase = "layout" /\ phase' = phase /\ image' = image
        /\ outdated' = (outdated \/ ~ MapCurrent(nodes'))
    BY DEF SetStyle, Track
  <1>3. /\ Sound(nodes) /\ StylesBacked(nodes) /\ AllStyled(nodes) /\ nodes \in Collections
        /\ outdated \in BOOLEAN /\ (~ outdated => Right(nodes)) /\ FromSaved
    BY <1>2 DEF NodesInv, DocOK, Phased, Sound
  <1>4. PICK x : x = GetNodeStyle(nodes, e)
    OBVIOUS
  <1>5. Sound(x) /\ Alike(nodes, x) /\ x.elems = nodes.elems
    BY <1>3, <1>4, ReadIs
  <1>6. /\ StylesBacked(x) /\ (Right(nodes) => Right(x)) /\ AllStyled(x) /\ e \in Elements(x)
        /\ Info(x, e) = Info(nodes, e) /\ ValueOf(x, e) = ValueOf(nodes, e)
    BY <1>3, <1>5, AlikeKeeps, AlikeValues
  <1>7. FontOf[s] = FontOf[Get(x.styles, Info(x, e).style)]
    BY <1>1, <1>6 DEF ValueOf
  <1>8. /\ Sound(nodes') /\ StylesBacked(nodes') /\ StylesHeld(nodes') /\ AllStyled(nodes')
        /\ nodes'.hash = NoHash
        /\ FontsBacked(x) => FontsBacked(nodes')
        /\ Follows(x) => Follows(nodes')
    <2>1. PICK r : r = nodes'
      OBVIOUS
    <2>2. r = SetNodeStyle(x, e, s)
      BY <1>1, <1>4, <2>1
    <2>3. /\ Sound(r) /\ StylesBacked(r) /\ StylesHeld(r) /\ AllStyled(r) /\ r.hash = NoHash
          /\ FontsBacked(x) => FontsBacked(r)
          /\ Follows(x) => Follows(r)
      BY <1>5, <1>6, <1>7, <2>2, StyleReplaced
    <2> QED  BY <2>1, <2>3
  <1>9. outdated' \in BOOLEAN /\ (~ outdated' => Right(nodes'))
    BY <1>2, <1>3, <1>6, <1>8 DEF Right
  <1>10. Phased(nodes', phase') /\ HashRight(nodes')
    BY <1>2, <1>8 DEF Phased, HashRight
  <1>11. FromSaved' /\ LoadedAsSaved'
    BY <1>2, <1>3, NotLoaded
  <1> QED  BY <1>2, <1>8, <1>9, <1>10, <1>11 DEF NodesInv, DocOK, Phases

LEMMA GetStyleOK == ASSUME NodesInv, GetStyle PROVE NodesInv'
  <1>1. PICK e \in Elements(nodes) : nodes' = GetNodeStyle(nodes, e)
    BY DEF GetStyle
  <1>2. /\ phase = "loaded" /\ phase' = phase /\ image' = image
        /\ outdated' = (outdated \/ ~ MapCurrent(nodes'))
    BY DEF GetStyle, Track
  <1>3. /\ DocOK(nodes, outdated, phase) /\ Sound(nodes) /\ nodes \in Collections /\ FromSaved /\ LoadedAsSaved
        /\ (AllStyled(nodes) \/ NothingStyled(nodes)) /\ nodes.hash = NoHash
    BY <1>2 DEF NodesInv, DocOK, Phased, Sound
  <1>4. Sound(nodes') /\ Alike(nodes, nodes') /\ nodes'.elems = nodes.elems /\ nodes'.hash = NoHash
    BY <1>1, <1>3, ReadIs
  <1>5. /\ AllStyled(nodes') \/ NothingStyled(nodes')
        /\ Elements(nodes') = Elements(nodes)
        /\ \A x : Info(nodes', x) = Info(nodes, x) /\ ValueOf(nodes', x) = ValueOf(nodes, x)
    BY <1>3, <1>4, AlikeValues
  <1>6. outdated' \in BOOLEAN /\ (~ outdated' => Right(nodes')) /\ StylesHeld(nodes')
    <2>1. PICK d, o, ph, r, o2 : d = nodes /\ o = outdated /\ ph = phase /\ r = nodes' /\ o2 = outdated'
      OBVIOUS
    <2>2. DocOK(d, o, ph) /\ Alike(d, r) /\ o2 = (o \/ ~ MapCurrent(r))
      BY <1>2, <1>3, <1>4, <2>1
    <2>3. o2 \in BOOLEAN /\ (~ o2 => Right(r)) /\ StylesHeld(r)
      BY <2>2, AlikeOK
    <2> QED  BY <2>1, <2>3
  <1>7. Phased(nodes', phase') /\ HashRight(nodes')
    BY <1>2, <1>4, <1>5 DEF Phased, HashRight
  <1>8. LoadedAsSaved'
    BY <1>2, <1>3, <1>5 DEF LoadedAsSaved
  <1>9. FromSaved'
    BY <1>2, <1>3 DEF FromSaved
  <1> QED  BY <1>2, <1>4, <1>6, <1>7, <1>8, <1>9 DEF NodesInv, DocOK, Phases

LEMMA RemoveElementOK == ASSUME NodesInv, RemoveElement PROVE NodesInv'
  <1>a. PICK e \in Elements(nodes) \ {Root} :
            LET texts == {i \in Live(nodes.texts) : nodes.texts.slots[i].parent \in Doomed(nodes, e)}
            IN \E order \in SetToSeqs(Doomed(nodes, e)) :
                   /\ \A i, j \in DOMAIN order : Info(nodes, order[i]).parent = order[j] => i < j
                   /\ nodes' = FoldLeft(DestroyElement, DestroyTexts(nodes, texts), order)
    BY DEF RemoveElement
  <1>b. PICK texts : texts = {i \in Live(nodes.texts) : nodes.texts.slots[i].parent \in Doomed(nodes, e)}
    OBVIOUS
  <1>1. PICK order \in SetToSeqs(Doomed(nodes, e)) :
            nodes' = FoldLeft(DestroyElement, DestroyTexts(nodes, texts), order)
    BY <1>a, <1>b
  <1>2. /\ phase = "parsing" /\ phase' = phase /\ image' = image
        /\ outdated' = (outdated \/ ~ MapCurrent(nodes'))
    BY DEF RemoveElement, Track
  <1>3. /\ Sound(nodes) /\ StylesBacked(nodes) /\ Mapped(nodes)
        /\ outdated \in BOOLEAN /\ (~ outdated => Right(nodes)) /\ FromSaved
    BY <1>2 DEF NodesInv, DocOK, Phased
  <1>4. /\ Sound(nodes') /\ StylesBacked(nodes') /\ nodes'.hash = NoHash /\ nodes'.fontMap = nodes.fontMap
        /\ DOMAIN nodes'.styles.index = DOMAIN nodes.styles.index
        /\ FontsBacked(nodes) /\ Follows(nodes) => FontsBacked(nodes') /\ Follows(nodes')
    <2>1. PICK d, r : d = nodes /\ r = nodes'
      OBVIOUS
    <2>2. /\ Sound(d) /\ StylesBacked(d) /\ e \in Elements(d) \ {Root}
          /\ texts = {i \in Live(d.texts) : d.texts.slots[i].parent \in Doomed(d, e)}
          /\ order \in SetToSeqs(Doomed(d, e))
          /\ r = FoldLeft(DestroyElement, DestroyTexts(d, texts), order)
      BY <1>b, <1>1, <1>3, <2>1
    <2>3. /\ Sound(r) /\ StylesBacked(r) /\ r.hash = NoHash /\ r.fontMap = d.fontMap
          /\ DOMAIN r.styles.index = DOMAIN d.styles.index
          /\ FontsBacked(d) /\ Follows(d) => FontsBacked(r) /\ Follows(r)
      BY <2>2, RemovedIs
    <2> QED  BY <2>1, <2>3
  <1>5. StylesHeld(nodes') /\ Mapped(nodes')
    BY <1>3, <1>4, BackedAreHeld DEF Sound, Mapped
  <1>6. outdated' \in BOOLEAN /\ (~ outdated' => Right(nodes'))
    BY <1>2, <1>3, <1>4 DEF Right
  <1>7. Phased(nodes', phase') /\ HashRight(nodes')
    BY <1>2, <1>4, <1>5 DEF Phased, HashRight
  <1>8. FromSaved' /\ LoadedAsSaved'
    BY <1>2, <1>3, NotLoaded
  <1> QED  BY <1>2, <1>4, <1>5, <1>6, <1>7, <1>8 DEF NodesInv, DocOK, Phases

LEMMA FinishParsingOK == ASSUME ~ AtBoundary, NodesInv, FinishParsing PROVE NodesInv'
  <1>1. PICK fonts \in BOOLEAN, pseudo \in BOOLEAN :
            LET before == IF fonts THEN DropStyles(nodes) ELSE nodes
                styled == InitNodeStyle(before, Root, Get(nodes.styles, Info(nodes, Root).style))
                root == UpdateRenderContext(InitNodeFont(styled, Root))
            IN nodes' = IF pseudo THEN DropStyles(root) ELSE root
    BY DEF FinishParsing
  <1>2. /\ phase = "parsing" /\ phase' = "parsed" /\ image' = image /\ Boundary /\ Unstyled = {}
        /\ outdated' = (outdated \/ ~ MapCurrent(nodes'))
    BY DEF FinishParsing, Track
  <1>3. DocOK(nodes, outdated, "parsing") /\ FromSaved /\ Walks(nodes) /\ AllStyled(nodes)
    BY <1>2, BoundaryWalks, UnstyledAll DEF NodesInv
  <1>4. PICK d, o, r, o2 : d = nodes /\ o = outdated /\ r = nodes' /\ o2 = outdated'
    OBVIOUS
  <1>5. PICK before, s : before = (IF fonts THEN DropStyles(d) ELSE d) /\ s = Get(d.styles, Info(d, Root).style)
    OBVIOUS
  <1>6. PICK y, root : y = InitNodeStyle(before, Root, s) /\ root = UpdateRenderContext(InitNodeFont(y, Root))
    OBVIOUS
  <1>7. r = IF pseudo THEN DropStyles(root) ELSE root
    BY <1>1, <1>4, <1>5, <1>6
  <1>8. DocOK(d, o, "parsing") /\ Walks(d) /\ AllStyled(d) /\ o2 = (o \/ ~ MapCurrent(r))
    BY <1>2, <1>3, <1>4
  <1>9. DocOK(r, o2, "parsed")
    BY <1>5, <1>6, <1>7, <1>8, ParsedIs
  <1>10. FromSaved' /\ LoadedAsSaved'
    BY <1>2, <1>3, NotLoaded
  <1> QED  BY <1>2, <1>4, <1>9, <1>10 DEF NodesInv, Phases

\* The hash is taken of a document with all its styles.
LEMMA HashTaken ==
    ASSUME NEW d, NEW o, NEW ph \in Phases, DocOK(d, o, ph), Walks(d), AllStyled(d),
           NEW r, r = CalcStyleHash(d), NEW o2, o2 = (o \/ ~ MapCurrent(r)), NEW ph2 \in {"layout", "ready"}
    PROVE  DocOK(r, o2, ph2)
  <1>1. /\ Sound(d) /\ StylesHeld(d) /\ HashRight(d) /\ d \in Collections
        /\ (ph = "loaded" => d.hash = NoHash) /\ (ph # "loaded" => StylesBacked(d))
    BY DEF DocOK, Phased, Sound
  <1>2. /\ Sound(r) /\ Alike(d, r) /\ r.elems = d.elems
        /\ HashRight(d) => HashRight(r)
        /\ d.hash = NoHash /\ Walks(d) /\ StylesHeld(d) => StylesBacked(r)
    BY <1>1, HashedIs
  <1>3. o2 \in BOOLEAN /\ (~ o2 => Right(r)) /\ StylesHeld(r)
    BY <1>2, AlikeOK
  <1>4. StylesBacked(r) /\ AllStyled(r)
    BY <1>1, <1>2, AlikeKeeps, AlikeValues
  <1> QED  BY <1>1, <1>2, <1>3, <1>4 DEF DocOK, Phased

LEMMA ContextTaken ==
    ASSUME NEW d, NEW o, NEW ph \in Phases, DocOK(d, o, ph), Walks(d), AllStyled(d),
           NEW r, r = UpdateRenderContext(d), NEW o2, o2 = (o \/ ~ MapCurrent(r)),
           NEW ph2 \in {"layout", "ready"}
    PROVE  DocOK(r, o2, ph2)
  <1>1. Sound(d) /\ StylesHeld(d) /\ d \in Collections
    BY DEF DocOK, Sound
  <1>2. Sound(r) /\ Alike(d, r) /\ r.elems = d.elems /\ HashRight(r) /\ StylesBacked(r)
    BY <1>1, ContextIs
  <1>3. o2 \in BOOLEAN /\ (~ o2 => Right(r)) /\ StylesHeld(r)
    BY <1>2, AlikeOK
  <1>4. AllStyled(r)
    BY <1>1, <1>2, AlikeValues
  <1> QED  BY <1>2, <1>3, <1>4 DEF DocOK, Phased

LEMMA RenderSameOK == ASSUME ~ AtBoundary, NodesInv, RenderSame PROVE NodesInv'
  <1>1. /\ phase \in {"parsed", "loaded", "ready"} /\ Boundary /\ image' = NoImage
        /\ ValueOf(nodes, Root)[2] # Null /\ nodes' = CalcStyleHash(nodes)
        /\ outdated' = (outdated \/ ~ MapCurrent(nodes'))
    BY DEF RenderSame, Renders, Track
  <1>2. phase' \in {"layout", "ready"}
    <2>1. phase' \in CASE phase = "parsed" -> {"layout"}
                       [] phase = "loaded" \/ Room -> {"layout", "ready"}
                       [] OTHER -> {"ready"}
      BY DEF RenderSame
    <2>2. CASE phase = "parsed"
      BY <2>1, <2>2
    <2>3. CASE phase # "parsed" /\ (phase = "loaded" \/ Room)
      BY <2>1, <2>3
    <2>4. CASE phase # "parsed" /\ ~ (phase = "loaded" \/ Room)
      BY <2>1, <2>4
    <2> QED  BY <2>2, <2>3, <2>4
  <1>3. DocOK(nodes, outdated, phase) /\ FromSaved /\ Walks(nodes) /\ phase \in Phases
    BY <1>1, BoundaryWalks DEF NodesInv
  <1>4. AllStyled(nodes)
    <2>1. Get(nodes.fonts, Info(nodes, Root).font) # Null
      BY <1>1 DEF ValueOf
    <2>2. ASSUME NothingStyled(nodes)  PROVE FALSE
      <3>1. Sound(nodes) /\ nodes \in Collections /\ Root \in Elements(nodes)
        BY <1>3 DEF DocOK, Sound, Tree
      <3>2. Root \in 1 .. MaxElems /\ FontAt(nodes)[Root] = Info(nodes, Root).font
        BY <3>1, ElementsAre
      <3>3. Info(nodes, Root).font = 0
        BY <2>2, <3>2 DEF NothingStyled, NoHoldings
      <3>4. Get(nodes.fonts, 0) = Null
        BY <3>1, Typed, Assumed, NoNull
      <3> QED  BY <2>1, <3>3, <3>4
    <2> QED  BY <1>1, <1>3, <2>1, <2>2 DEF DocOK, Phased
  <1>5. PICK d, o, ph, r, o2, ph2 : /\ d = nodes /\ o = outdated /\ ph = phase
                                    /\ r = nodes' /\ o2 = outdated' /\ ph2 = phase'
    OBVIOUS
  <1>6. /\ ph \in Phases /\ DocOK(d, o, ph) /\ Walks(d) /\ AllStyled(d) /\ r = CalcStyleHash(d)
        /\ o2 = (o \/ ~ MapCurrent(r)) /\ ph2 \in {"layout", "ready"}
    BY <1>1, <1>2, <1>3, <1>4, <1>5
  <1>7. DocOK(r, o2, ph2)
    BY <1>6, HashTaken
  <1>8. FromSaved' /\ LoadedAsSaved'
    BY <1>1, <1>2, <1>3, NotLoaded
  <1> QED  BY <1>2, <1>5, <1>7, <1>8 DEF NodesInv, Phases

LEMMA LayoutOK == ASSUME ~ AtBoundary, NodesInv, Layout PROVE NodesInv'
  <1>1. /\ Boundary /\ Unstyled = {} /\ image' = image /\ phase' = "layout" /\ nodes' = UpdateRenderContext(nodes)
        /\ outdated' = (outdated \/ ~ MapCurrent(nodes'))
    BY DEF Layout, Track
  <1>2. /\ DocOK(nodes, outdated, phase) /\ FromSaved /\ Walks(nodes) /\ AllStyled(nodes) /\ phase \in Phases
    BY <1>1, BoundaryWalks, UnstyledAll DEF NodesInv
  <1>3. PICK d, o, ph, r, o2 : d = nodes /\ o = outdated /\ ph = phase /\ r = nodes' /\ o2 = outdated'
    OBVIOUS
  <1>4. /\ ph \in Phases /\ DocOK(d, o, ph) /\ Walks(d) /\ AllStyled(d) /\ r = UpdateRenderContext(d)
        /\ o2 = (o \/ ~ MapCurrent(r)) /\ "layout" \in {"layout", "ready"}
    BY <1>1, <1>2, <1>3
  <1>5. DocOK(r, o2, "layout")
    BY <1>4, ContextTaken
  <1>6. FromSaved' /\ LoadedAsSaved'
    BY <1>1, <1>2, NotLoaded
  <1> QED  BY <1>1, <1>3, <1>5, <1>6 DEF NodesInv, Phases

LEMMA FinishRenderOK == ASSUME ~ AtBoundary, NodesInv, FinishRender PROVE NodesInv'
  <1>1. /\ Boundary /\ phase = "layout" /\ image' = image /\ phase' = "ready" /\ nodes' = UpdateRenderContext(nodes)
        /\ outdated' = (outdated \/ ~ MapCurrent(nodes'))
    BY DEF FinishRender, Track
  <1>2. /\ DocOK(nodes, outdated, phase) /\ FromSaved /\ Walks(nodes) /\ AllStyled(nodes) /\ phase \in Phases
    BY <1>1, BoundaryWalks DEF NodesInv, DocOK, Phased
  <1>3. PICK d, o, ph, r, o2 : d = nodes /\ o = outdated /\ ph = phase /\ r = nodes' /\ o2 = outdated'
    OBVIOUS
  <1>4. /\ ph \in Phases /\ DocOK(d, o, ph) /\ Walks(d) /\ AllStyled(d) /\ r = UpdateRenderContext(d)
        /\ o2 = (o \/ ~ MapCurrent(r)) /\ "ready" \in {"layout", "ready"}
    BY <1>1, <1>2, <1>3
  <1>5. DocOK(r, o2, "ready")
    BY <1>4, ContextTaken
  <1>6. FromSaved' /\ LoadedAsSaved'
    BY <1>1, <1>2, NotLoaded
  <1> QED  BY <1>1, <1>3, <1>5, <1>6 DEF NodesInv, Phases

LEMMA RenderFullOK == ASSUME ~ AtBoundary, NodesInv, RenderFull PROVE NodesInv'
  <1>1. PICK style \in [Elements(nodes) -> Styles], order \in Downwards(nodes, Elements(nodes)) :
            nodes' = InitNodeStyles(DropStyles(nodes), style, order)
    BY DEF RenderFull
  <1>2. Boundary /\ image' = NoImage /\ phase' = "boxing" /\ outdated' = FALSE
    BY DEF RenderFull, Renders
  <1>3. Sound(nodes) /\ nodes \in Collections /\ FromSaved /\ Walks(nodes)
    BY <1>2, BoundaryWalks DEF NodesInv, DocOK, Sound
  <1>4. PICK d, r : d = nodes /\ r = nodes'
    OBVIOUS
  <1>5. order \in SetToSeqs(Elements(d))
    BY <1>4 DEF Downwards
  <1>6. r \in Collections /\ SameTree(d, r) /\ Strict(r) /\ Bare(r) /\ r.hash = NoHash
    <2>1. /\ Sound(d) /\ Walks(d) /\ style \in [Elements(d) -> Styles]
          /\ r = InitNodeStyles(DropStyles(d), style, order)
      BY <1>1, <1>3, <1>4
    <2> QED  BY <1>5, <2>1, RenderedIs
  <1>7. Sound(r)
    BY <1>3, <1>4, <1>6, SameTreeKeeps DEF Sound
  <1>8. StylesBacked(r) /\ StylesHeld(r) /\ Right(r)
    BY <1>6, BackedAreHeld, StrictIsCurrent DEF Strict, Right
  <1>9. DocOK(r, FALSE, "boxing")
    BY <1>6, <1>7, <1>8 DEF DocOK, Phased, HashRight
  <1>10. FromSaved' /\ LoadedAsSaved'
    BY <1>2, <1>3, NotLoaded
  <1> QED  BY <1>2, <1>4, <1>9, <1>10 DEF NodesInv, Phases

LEMMA SaveOK == ASSUME ~ AtBoundary, NodesInv, Save PROVE NodesInv'
  <1>1. /\ phase = "ready" /\ Boundary /\ nodes' = nodes /\ phase' = phase /\ outdated' = outdated
        /\ image' = [elems |-> nodes.elems.slots, texts |-> nodes.texts.slots, list |-> GetIndex(nodes.styles),
                     values |-> [e \in Elements(nodes) |-> ValueOf(nodes, e)], stale |-> outdated]
    BY DEF Save
  <1>2. /\ Sound(nodes) /\ StylesBacked(nodes) /\ AllStyled(nodes) /\ Walks(nodes) /\ outdated \in BOOLEAN
        /\ (~ outdated => Follows(nodes)) /\ DocOK(nodes, outdated, phase)
    BY <1>1, BoundaryWalks DEF NodesInv, DocOK, Phased, Right
  <1>3. Kept(nodes, outdated, image')
    BY <1>1 DEF Kept
  <1>4. Saved(nodes, outdated, image')
    BY <1>2, <1>3 DEF Saved
  <1>5. FromSaved'
    <2>1. \E d, o : Saved(d, o, image')
      BY <1>4
    <2> QED  BY <2>1 DEF FromSaved
  <1>6. LoadedAsSaved'
    BY <1>1 DEF LoadedAsSaved
  <1> QED  BY <1>1, <1>2, <1>5, <1>6 DEF NodesInv, Phases

LEMMA LoadOK == ASSUME NodesInv, Load PROVE NodesInv'
  <1>1. PICK enabled \in BOOLEAN :
            nodes' = UpdateLoadedStyles(
                    [NewCollection EXCEPT !.elems = [slots |-> image.elems, free |-> 0],
                                          !.texts = [slots |-> image.texts, free |-> 0],
                                          !.styles = IF enabled THEN SetIndex(image.list) ELSE @],
                    enabled)
    BY DEF Load
  <1>2. image # NoImage /\ phase' = "loaded" /\ outdated' = FALSE /\ image' = image
    BY DEF Load
  <1>3. PICK d, o : Saved(d, o, image)
    BY <1>2 DEF NodesInv, FromSaved
  <1>4. PICK r, im : r = nodes' /\ im = image
    OBVIOUS
  <1>5. Saved(d, o, im) /\ im.stale = o
    BY <1>3, <1>4 DEF Saved, Kept
  <1>6. /\ Sound(r) /\ StylesHeld(r) /\ (AllStyled(r) \/ NothingStyled(r)) /\ r.hash = NoHash /\ Right(r)
        /\ \/ ~ o => \A e \in Elements(r) : ValueOf(r, e) = im.values[e]
           \/ NothingStyled(r)
    <2>1. CASE enabled = TRUE
      <3>1. r = UpdateLoadedStyles(Reopened(im, SetIndex(im.list)), TRUE)
        BY <1>1, <1>4, <2>1 DEF Reopened
      <3>2. /\ Sound(r) /\ StylesHeld(r) /\ AllStyled(r) /\ r.hash = NoHash /\ Right(r)
            /\ ~ o => \A e \in Elements(r) : ValueOf(r, e) = im.values[e]
        <4>1. Saved(d, o, im)
          BY <1>5
        <4>2. Restored(r, o, im)
          BY <3>1, <4>1, OpenedIs
        <4> QED  BY <4>2 DEF Restored
      <3> QED  BY <3>2
    <2>2. CASE enabled = FALSE
      <3>1. NewCollection.styles = EmptyCache
        BY DEF NewCollection
      <3>2. r = UpdateLoadedStyles(Reopened(im, EmptyCache), FALSE)
        BY <1>1, <1>4, <2>2, <3>1 DEF Reopened
      <3> QED  BY <1>5, <3>2, UnstyledIs
    <2> QED  BY <2>1, <2>2
  <1>7. DocOK(r, FALSE, "loaded")
    BY <1>6 DEF DocOK, Phased, HashRight
  <1>8. LoadedAsSaved'
    <2>1. ASSUME NothingStyled(r)
          PROVE  \A e \in Elements(r) : Info(r, e).style = 0 /\ Info(r, e).font = 0
      <3>1. r \in Collections
        BY <1>6 DEF Sound
      <3> QED  BY <2>1, <3>1, ElementsAre DEF NothingStyled, NoHoldings
    <2>2. ~ o => \/ \A e \in Elements(r) : ValueOf(r, e) = im.values[e]
                 \/ \A e \in Elements(r) : Info(r, e).style = 0 /\ Info(r, e).font = 0
      BY <1>6, <2>1
    <2>3. im = image' /\ r = nodes'
      BY <1>2, <1>4
    <2> QED  BY <1>5, <2>2, <2>3 DEF LoadedAsSaved
  <1>9. FromSaved'
    BY <1>2, <1>3 DEF FromSaved
  <1> QED  BY <1>2, <1>4, <1>7, <1>8, <1>9 DEF NodesInv, Phases

LEMMA NodesInvHolds == ASSUME ~ AtBoundary PROVE NodesSpec => []NodesInv
  <1>1. NodesInit => NodesInv
    BY InitOK
  <1>2. NodesInv /\ [NodesNext]_nodeVars => NodesInv'
    <2> SUFFICES ASSUME NodesInv, [NodesNext]_nodeVars  PROVE NodesInv'
      OBVIOUS
    <2>1. CASE AddElement
      BY <2>1, AddElementOK
    <2>2. CASE AddText
      BY <2>2, AddTextOK
    <2>3. CASE InitStyle
      BY <2>3, InitStyleOK
    <2>4. CASE SetStyle
      BY <2>4, SetStyleOK
    <2>5. CASE GetStyle
      BY <2>5, GetStyleOK
    <2>6. CASE RemoveText
      BY <2>6, RemoveTextOK
    <2>7. CASE RemoveElement
      BY <2>7, RemoveElementOK
    <2>8. CASE FinishParsing
      BY <2>8, FinishParsingOK
    <2>9. CASE RenderSame
      BY <2>9, RenderSameOK
    <2>10. CASE RenderFull
      BY <2>10, RenderFullOK
    <2>11. CASE Layout
      BY <2>11, LayoutOK
    <2>12. CASE FinishRender
      BY <2>12, FinishRenderOK
    <2>13. CASE Save
      BY <2>13, SaveOK
    <2>14. CASE Load
      BY <2>14, LoadOK
    <2>15. CASE MoveItem
      BY <2>15, MoveItemOK
    <2>16. CASE UNCHANGED nodeVars
      <3>1. nodes' = nodes /\ phase' = phase /\ image' = image /\ outdated' = outdated
        BY <2>16 DEF nodeVars
      <3> QED  BY <3>1 DEF NodesInv, FromSaved, LoadedAsSaved
    <2> QED
      BY <2>1, <2>2, <2>3, <2>4, <2>5, <2>6, <2>7, <2>8, <2>9, <2>10, <2>11, <2>12, <2>13, <2>14, <2>15,
         <2>16
      DEF NodesNext
  <1> QED  BY <1>1, <1>2, PTL DEF NodesSpec

\* The free list of a table of nodes, as the property follows it.
LEMMA FreeListIs ==
    ASSUME NEW bound \in Nat, NEW t \in Tables(bound), FreeList(t)
    PROVE  LET chain == Chain(t.free, [i \in DOMAIN t.slots |-> t.slots[i].next])
           IN /\ chain[Len(t.slots)] = 0
              /\ {chain[k] : k \in DOMAIN chain} \cap Live(t) = {}
  <1> DEFINE next == NextOf(t)
             m == Len(t.slots)
  <1>1. PICK q : /\ Linked(q, t.free, next)
                 /\ \A i \in Range(q) : i \in DOMAIN t.slots /\ i \notin Live(t)
    BY DEF FreeList
  <1>2. /\ m \in Nat /\ DOMAIN t.slots = 1 .. m /\ \A i \in 1 .. m : t.slots[i].next \in Nat
    BY TableTypes
  <1>3. next = [i \in 1 .. m |-> t.slots[i].next] /\ next \in [1 .. m -> Nat]
    BY <1>2 DEF NextOf
  <1>4. next = [i \in DOMAIN t.slots |-> t.slots[i].next]
    BY DEF NextOf
  <1> HIDE DEF next, m
  <1>5. PICK chain : chain = Chain(t.free, next)
    OBVIOUS
  <1>6. chain = [k \in 0 .. m |-> IF k < Len(q) THEN q[k + 1] ELSE 0] /\ Len(q) <= m
    <2>1. PICK f, g, l : f = t.free /\ g = next /\ l = m
      OBVIOUS
    <2>2. l \in Nat /\ g \in [1 .. l -> Nat] /\ Linked(q, f, g)
      BY <1>1, <1>2, <1>3, <2>1
    <2>3. Chain(f, g) = [k \in 0 .. l |-> IF k < Len(q) THEN q[k + 1] ELSE 0] /\ Len(q) <= l
      BY <2>2, ChainIs
    <2> QED  BY <1>5, <2>1, <2>3
  <1>7. q \in Seq(1 .. m) /\ Len(q) \in Nat
    BY <1>1, <1>3 DEF Linked
  <1>8. chain[m] = 0
    BY <1>2, <1>6, <1>7
  <1>9. ASSUME NEW k \in DOMAIN chain  PROVE chain[k] \notin Live(t)
    <2>1. k \in 0 .. m /\ chain[k] = IF k < Len(q) THEN q[k + 1] ELSE 0
      BY <1>6, <1>9
    <2>2. CASE k < Len(q)
      <3>1. k + 1 \in 1 .. Len(q)
        BY <1>2, <1>7, <2>1, <2>2
      <3>2. q[k + 1] \in Range(q)
        BY <1>7, <3>1 DEF Range
      <3> QED  BY <1>1, <2>1, <2>2, <3>2
    <2>3. CASE ~ (k < Len(q))
      <3>1. 0 \notin DOMAIN t.slots
        BY <1>2
      <3> QED  BY <2>1, <2>3, <3>1 DEF Live
    <2> QED  BY <2>2, <2>3
  <1>10. {chain[k] : k \in DOMAIN chain} \cap Live(t) = {}
    BY <1>9
  <1>11. Chain(t.free, [i \in DOMAIN t.slots |-> t.slots[i].next]) = chain
    BY <1>4, <1>5
  <1> QED  BY <1>8, <1>10, <1>11, Zenon DEF m

LEMMA TypesFollow == ASSUME NodesInv PROVE NodesTypeOK
  <1>1. Sound(nodes) /\ nodes \in Collections /\ Tree(nodes) /\ phase \in Phases
    BY DEF NodesInv, DocOK, Sound
  <1>2. /\ nodes.elems \in Tables(MaxElems) /\ nodes.texts \in Tables(MaxTexts)
        /\ MaxElems \in Nat /\ MaxTexts \in Nat
        /\ GoodCache(nodes.styles, Styles) /\ GoodCache(nodes.fonts, Fonts)
        /\ nodes.fontMap \in [StyleIndexes -> Nat]
    BY <1>1, Typed, Assumed
  <1>3. TableOK(nodes.elems, MaxElems) /\ TableOK(nodes.texts, MaxTexts)
    BY <1>2, TableTypes DEF TableOK, SlotsOf
  <1>4. FreeListSound
    <2>1. FreeList(nodes.elems) /\ FreeList(nodes.texts)
      BY <1>1 DEF Tree
    <2> QED  BY <1>2, <2>1, FreeListIs, Zenon DEF FreeListSound
  <1>5. ParentsLive
    BY <1>1 DEF Tree, ParentsLive
  <1>6. CacheSound(nodes.styles) /\ CacheSound(nodes.fonts)
    BY <1>2, GoodIsSound
  <1> QED  BY <1>1, <1>2, <1>3, <1>4, <1>5, <1>6 DEF NodesTypeOK, Phases

\* Elements that have an index hold it.
LEMMA HoldersHold ==
    ASSUME NEW V, NEW y, GoodCache(y, V), Null \notin V, NEW h \in Holdings, Backed(h, y),
           NEW n \in Nat, n # 0, NEW S, S \subseteq Holders(h, n), S # {}
    PROVE  Holds(y, n) /\ y.index[n].refcount >= Cardinality(S)
  <1>1. IsFiniteSet(Holders(h, n)) /\ Cardinality(Holders(h, n)) \in Nat
    BY HoldersAreFinite
  <1>2. Cardinality(S) <= Cardinality(Holders(h, n)) /\ IsFiniteSet(S) /\ Cardinality(S) \in Nat
    BY <1>1, FS_Subset, FS_CardinalityType
  <1>3. Cardinality(S) # 0
    BY <1>2, FS_EmptySet
  <1>4. Cardinality(Holders(h, n)) <= Count(y, n) /\ Count(y, n) \in Nat /\ (Holds(y, n) <=> Count(y, n) # 0)
    BY CountIs DEF Backed
  <1>5. Holds(y, n)
    BY <1>1, <1>2, <1>3, <1>4
  <1> QED  BY <1>1, <1>2, <1>4, <1>5 DEF Count

LEMMA ReferencesFollow == ASSUME NodesInv PROVE ReferencesHeld
  <1>1. /\ nodes \in Collections /\ outdated \in BOOLEAN
        /\ (phase # "loaded" => StylesBacked(nodes)) /\ (~ outdated => FontsBacked(nodes))
    BY DEF NodesInv, DocOK, Sound, Phased, Right
  <1>2. /\ GoodCache(nodes.styles, Styles) /\ GoodCache(nodes.fonts, Fonts)
        /\ Null \notin Styles /\ Null \notin Fonts
        /\ StyleAt(nodes) \in Holdings /\ FontAt(nodes) \in Holdings
    BY <1>1, Typed, Assumed, HoldingsOf
  <1>3. \A e \in Elements(nodes) : /\ e \in 1 .. MaxElems
                                   /\ StyleAt(nodes)[e] = Info(nodes, e).style
                                   /\ FontAt(nodes)[e] = Info(nodes, e).font
                                   /\ Info(nodes, e).style \in Nat /\ Info(nodes, e).font \in Nat
    BY <1>1, ElementsAre, InfoIs
  <1>4. \A n : StyleHolders(nodes, n) \subseteq Holders(StyleAt(nodes), n)
    BY <1>3 DEF StyleHolders, Holders
  <1>5. \A n : FontHolders(nodes, n) \subseteq Holders(FontAt(nodes), n)
    BY <1>3 DEF FontHolders, Holders
  <1>6. ASSUME NEW e \in Elements(nodes), NEW s, s = Info(nodes, e).style, phase # "loaded", s # 0
        PROVE  Holds(nodes.styles, s) /\ nodes.styles.index[s].refcount >= Cardinality(StyleHolders(nodes, s))
    <2>1. e \in StyleHolders(nodes, s) /\ s \in Nat
      BY <1>3, <1>6 DEF StyleHolders
    <2>2. Backed(StyleAt(nodes), nodes.styles)
      BY <1>1, <1>6 DEF StylesBacked
    <2> QED  BY <1>2, <1>4, <1>6, <2>1, <2>2, HoldersHold
  <1>7. ASSUME NEW e \in Elements(nodes), NEW f, f = Info(nodes, e).font, ~ outdated, f # 0
        PROVE  Holds(nodes.fonts, f) /\ nodes.fonts.index[f].refcount >= Cardinality(FontHolders(nodes, f))
    <2>1. e \in FontHolders(nodes, f) /\ f \in Nat
      BY <1>3, <1>7 DEF FontHolders
    <2>2. Backed(FontAt(nodes), nodes.fonts)
      BY <1>1, <1>7 DEF FontsBacked
    <2> QED  BY <1>2, <1>5, <1>7, <2>1, <2>2, HoldersHold
  <1> QED  BY <1>6, <1>7 DEF ReferencesHeld

LEMMA FontsFollow == ASSUME NodesInv PROVE FontsFollowStyles
  <1>1. nodes \in Collections /\ (~ outdated => Follows(nodes))
    BY DEF NodesInv, DocOK, Sound, Right
  <1>2. ASSUME ~ outdated, NEW e \in Elements(nodes) \ Unstyled
        PROVE  ValueOf(nodes, e)[2] = FontOf[ValueOf(nodes, e)[1]]
    <2>1. /\ e \in 1 .. MaxElems /\ StyleAt(nodes)[e] = Info(nodes, e).style
          /\ FontAt(nodes)[e] = Info(nodes, e).font /\ Info(nodes, e).style # 0
      BY <1>1, <1>2, ElementsAre DEF Unstyled
    <2>2. Get(nodes.fonts, Info(nodes, e).font) = FontOf[Get(nodes.styles, Info(nodes, e).style)]
      BY <1>1, <1>2, <2>1 DEF Follows
    <2> QED  BY <2>2 DEF ValueOf
  <1> QED  BY <1>2 DEF FontsFollowStyles

-----------------------------------------------------------------------------
(* The theorems, for any number of elements, texts, styles and fonts.      *)
(* They assume ~ AtBoundary: the walks of dropStyles, calcStyleHash and    *)
(* updateLoadedStyles leave out the last element when _elemCount is a      *)
(* multiple of TNC_PART_LEN, and then ReferencesHeld and LoadedAsSaved are *)
(* false, as TLC shows.                                                    *)

\* What allocTinyNode hands out is never in use and what recycleTinyNode takes back is
\* given out once, every node in use has a parent in use, and in both caches an index is
\* of one value, which has references, or on the free list, once.
THEOREM NodesWellFormed == ASSUME ~ AtBoundary PROVE NodesSpec => []NodesTypeOK
  <1>1. NodesInv => NodesTypeOK
    BY TypesFollow
  <1> QED  BY <1>1, NodesInvHolds, PTL

\* The style of an element is in the cache with as many references as elements have it, so
\* that removing, restyling or dropping others never frees it, whatever the order; after
\* loading, calcStyleHash has made it so before anything else is done. The same of fonts,
\* which initNodeFont finds in _fontMap, as long as that map is right.
THEOREM NodesKeepReferences == ASSUME ~ AtBoundary PROVE NodesSpec => []ReferencesHeld
  <1>1. NodesInv => ReferencesHeld
    BY ReferencesFollow
  <1> QED  BY <1>1, NodesInvHolds, PTL

\* As long as _fontMap names the font of every style that is in use, an element that has a
\* style has the font of that style, through all reuse of indexes by indexItem.
THEOREM NodesFontsFollow == ASSUME ~ AtBoundary PROVE NodesSpec => []FontsFollowStyles
  <1>1. NodesInv => FontsFollowStyles
    BY FontsFollow
  <1> QED  BY <1>1, NodesInvHolds, PTL

\* Every operation that changes the style or font of an element, or adds or removes one,
\* resets _nodeStyleHash: what calcStyleHash takes from it is the hash of the document.
THEOREM NodesHashCurrent == ASSUME ~ AtBoundary PROVE NodesSpec => []HashCurrent
  <1>1. NodesInv => HashCurrent
    BY DEF NodesInv, DocOK, HashRight, HashCurrent
  <1> QED  BY <1>1, NodesInvHolds, PTL

\* loadNodeData gives every element the style and font that saveNodeData found, by way of
\* the index list that keeps gaps and of updateLoadedStyles, or no element has any.
THEOREM NodesLoadedAsSaved == ASSUME ~ AtBoundary PROVE NodesSpec => []LoadedAsSaved
  <1>1. NodesInv => LoadedAsSaved
    BY DEF NodesInv
  <1> QED  BY <1>1, NodesInvHolds, PTL

=============================================================================
