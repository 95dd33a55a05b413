----------------------------- MODULE MCDocument -----------------------------
(***************************************************************************)
(* Model checking of a document: how its parts are saved, and the nodes    *)
(* that are one of them with their styles.  SaveChanges knows no more of   *)
(* a part than its version, so a behaviour is of one of the two modules.   *)
(***************************************************************************)
EXTENDS SaveChanges, NodeTable, TLC

CONSTANTS s1, s2, s3, f1, f2

MCFontOf == s1 :> f1 @@ s2 :> f1 @@ s3 :> f2
Symmetry == Permutations({s1, s2})

MCInit == Init /\ NodesInit

MCNext ==
    \/ Next /\ UNCHANGED nodeVars /\ NodesInit
    \/ NodesNext /\ UNCHANGED vars /\ Init

MCSpec == MCInit /\ [][MCNext]_<<vars, nodeVars>>
=============================================================================
