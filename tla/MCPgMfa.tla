------------------------------ MODULE MCPgMfa ------------------------------
(* TLC instances of PgMfa: factors, users, credential ids and slots are    *)
(* interchangeable; the clients are not, one has autocommit and one not.   *)
EXTENDS PgMfa, TLC

Symmetry == UNION {Permutations(S) : S \in {UserIds, FactorIds, WebAuthnIds, Slots}}
=============================================================================
