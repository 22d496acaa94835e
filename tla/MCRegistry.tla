----------------------------- MODULE MCRegistry -----------------------------
(* The registry on its own, for TLC. *)
EXTENDS Registry
=============================================================================
