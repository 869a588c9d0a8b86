---------------------------- MODULE BearerTokens ----------------------------
(***************************************************************************)
(* What the stores promise of the tokens they hand out, session tokens and *)
(* personal access tokens alike: a token lets its user in from the moment  *)
(* it is issued until it dies, once and for all; a token that is replaced  *)
(* hands its user over to one new token; and when a user is shut out, all  *)
(* tokens of that user die in the same step, and no others.  The modules   *)
(* IdentityStore, PatStore and PgStore are shown to implement this one.    *)
(***************************************************************************)
CONSTANTS
    Tokens, Users,
    Guarded,  \* TRUE: tokens are issued only to users who are not shut out
    None      \* nobody

VARIABLES
    issued,  \* the tokens handed out so far
    holder,  \* whom each token lets in
    open     \* the users who are not shut out

bearerVars == <<issued, holder, open>>

BearerTypeOK ==
    /\ issued \subseteq Tokens
    /\ holder \in [Tokens -> Users \cup {None}]
    /\ open \subseteq Users

BearerInit == issued = {} /\ holder = [t \in Tokens |-> None] /\ open = {}

Issue(t, u) ==
    /\ t \notin issued
    /\ Guarded => u \in open
    /\ issued' = issued \cup {t}
    /\ holder' = [holder EXCEPT ![t] = u]
    /\ UNCHANGED open

Replace(old, t) ==
    /\ holder[old] # None
    /\ t \notin issued
    /\ issued' = issued \cup {t}
    /\ holder' = [holder EXCEPT ![old] = None, ![t] = holder[old]]
    /\ UNCHANGED open

\* Some tokens die: they are revoked, or their time is over.
Die ==
    /\ holder' \in [Tokens -> Users \cup {None}]
    /\ \A t \in Tokens : holder'[t] \in {holder[t], None}
    /\ UNCHANGED <<issued, open>>

ShutOut(u) ==
    /\ u \in open
    /\ open' = open \ {u}
    /\ holder' = [t \in Tokens |-> IF holder[t] = u THEN None ELSE holder[t]]
    /\ UNCHANGED issued

LetIn(u) ==
    /\ u \notin open
    /\ open' = open \cup {u}
    /\ UNCHANGED <<issued, holder>>

BearerNext ==
    \/ \E t \in Tokens, u \in Users : Issue(t, u)
    \/ \E old, t \in Tokens : Replace(old, t)
    \/ Die
    \/ \E u \in Users : ShutOut(u) \/ LetIn(u)

BearerSpec == BearerInit /\ [][BearerNext]_bearerVars
=============================================================================
