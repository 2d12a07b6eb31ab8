---------------------------- MODULE MCCheckQueue ----------------------------
(* A small instance of CheckQueue for TLC. *)
EXTENDS CheckQueue
=============================================================================
