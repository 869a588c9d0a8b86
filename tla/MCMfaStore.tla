----------------------------- MODULE MCMfaStore -----------------------------
(* TLC instances of MfaStore: users, factors, credential ids and slots are *)
(* interchangeable.                                                        *)
EXTENDS MfaStore, TLC

Symmetry == UNION {Permutations(S) : S \in {UserIds, FactorIds, WebAuthnIds, Slots}}
=============================================================================
