------------------------------ MODULE MCReading ------------------------------
(***************************************************************************)
(* Model checking of the caches that a document reads its data through:    *)
(* the book through ReadCache, images and fonts through BlobCache.  They   *)
(* share nothing, so a behaviour is of one of them.                        *)
(***************************************************************************)
EXTENDS ReadCache, BlobCache

MCBook == <<"a", "b", "a">>

MCInit == Init /\ BlobInit

MCNext ==
    \/ Next /\ UNCHANGED blobVars /\ BlobInit
    \/ BlobNext /\ UNCHANGED vars /\ Init

MCSpec == MCInit /\ [][MCNext]_<<vars, blobVars>>
=============================================================================
