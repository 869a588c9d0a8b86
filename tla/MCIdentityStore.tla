-------------------------- MODULE MCIdentityStore --------------------------
(* TLC instances of IdentityStore. The ids, tokens and names are interchangeable: *)
(* no operation compares or orders them.                                          *)
EXTENDS IdentityStore, TLC

\* Sound for the safety runs only; the run "sessions" has a liveness property and
\* does not use it.
Symmetry ==
    UNION {Permutations(S) : S \in {UserIds, CredIds, SessionIds, Tokens, Identifiers}}
=============================================================================
