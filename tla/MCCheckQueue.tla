---------------------------- MODULE MCCheckQueue ----------------------------
(***************************************************************************)
(* Instances of CheckQueue.                                                *)
(***************************************************************************)
EXTENDS CheckQueue

\* At most one check of a block fails.
OneBad == {{}} \cup {{c} : c \in Checks}
=============================================================================
