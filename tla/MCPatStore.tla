----------------------------- MODULE MCPatStore -----------------------------
(* TLC instances of PatStore. *)
EXTENDS PatStore
=============================================================================
