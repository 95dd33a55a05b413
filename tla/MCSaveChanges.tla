---------------------------- MODULE MCSaveChanges ----------------------------
(* Model checking of SaveChanges. *)
EXTENDS SaveChanges
=============================================================================
