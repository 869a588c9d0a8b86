------------------------------ MODULE MCListing ------------------------------
(* TLC instances of Listing. *)
EXTENDS Listing
=============================================================================
