------------------------------ MODULE MCPgStore ------------------------------
(* TLC instances of PgStore: clients, rows and keys are interchangeable. *)
EXTENDS PgStore, TLC

\* Sound for the safety runs only; the run with fairness does not use it.
Symmetry == UNION {Permutations(S) : S \in {Clients, UserIds, CredIds, SessionIds, Keys}}
=============================================================================
