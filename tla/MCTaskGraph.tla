----------------------------- MODULE MCTaskGraph -----------------------------
(* Instances of TaskGraph: every plan of two or three tasks. *)
EXTENDS TaskGraph
=============================================================================
