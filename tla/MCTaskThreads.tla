---------------------------- MODULE MCTaskThreads ----------------------------
(***************************************************************************)
(* Model checking of BackgroundThread and ServiceThread.  They share       *)
(* nothing, so a behaviour is of one of them.                              *)
(***************************************************************************)
EXTENDS BackgroundThread, ServiceThread

MCInit == Init /\ ServiceInit

MCNext ==
    \/ Next /\ UNCHANGED serviceVars /\ record.how = <<>> /\ service.stage = "new"
    \/ ServiceNext /\ UNCHANGED vars /\ Init

MCSpec == MCInit /\ [][MCNext]_<<vars, serviceVars>>
=============================================================================
