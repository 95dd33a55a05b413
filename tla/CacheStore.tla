----------------------------- MODULE CacheStore -----------------------------
(***************************************************************************)
(* What the document cache file promises to the DOM that is swapped to it: *)
(* a map from block keys to contents, of which a restart sees either       *)
(* nothing at all or exactly the contents the program held when it last    *)
(* declared the file clean.  Nothing changes in memory while an older      *)
(* version could still be picked up from the disk.                         *)
(***************************************************************************)
CONSTANTS Keys,     \* block keys (type and index of a block)
          Data,     \* block contents
          Nothing   \* no content

VARIABLES up,       \* a CacheFile object is attached to the file
          mem,      \* contents the running program believes it stored
          saved     \* contents a restart would load: none, or one

vars == <<up, mem, saved>>

Contents == [Keys -> Data \cup {Nothing}]
Empty    == [k \in Keys |-> Nothing]

Init == /\ up = FALSE
        /\ mem = Empty
        /\ saved = {}

\* A restart must re-parse the book: the saved image is discarded.
Invalidate == /\ up
              /\ saved # {}
              /\ saved' = {}
              /\ UNCHANGED <<up, mem>>

\* A block is stored; only a file that no restart would accept is modified.
Put == /\ up
       /\ saved = {}
       /\ \E k \in Keys, d \in Data : mem' = [mem EXCEPT ![k] = d]
       /\ UNCHANGED <<up, saved>>

\* A block that could not be written: its content is unspecified from now on.
PutFails == /\ up
            /\ saved = {}
            /\ \E k \in Keys, d \in Data \cup {Nothing} :
                  mem' = [mem EXCEPT ![k] = d]
            /\ UNCHANGED <<up, saved>>

\* The image on the disk becomes valid: it is the current contents.
Commit == /\ up
          /\ saved = {}
          /\ saved' = {mem}
          /\ UNCHANGED <<up, mem>>

Open == /\ ~up
        /\ saved # {}
        /\ up' = TRUE
        /\ mem' \in saved
        /\ UNCHANGED saved

Create == /\ ~up
          /\ saved = {}
          /\ up' = TRUE
          /\ UNCHANGED <<mem, saved>>

Crash == /\ up
         /\ up' = FALSE
         /\ mem' = Empty
         /\ UNCHANGED saved

Next == Invalidate \/ Put \/ PutFails \/ Commit \/ Open \/ Create \/ Crash

Spec == Init /\ [][Next]_vars
=============================================================================
