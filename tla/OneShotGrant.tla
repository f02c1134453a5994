----------------------------- MODULE OneShotGrant -----------------------------
(***************************************************************************)
(* What pairing a terminal with a browser promises, without rows, clocks   *)
(* or transactions (doc/architecture/tui-browser-pairing.md): a grant is   *)
(* offered, accepted by one user, and redeemed at most once, for exactly   *)
(* one credential, which belongs to the user who accepted.  A grant can be *)
(* closed before it is redeemed, and is forgotten only when no credential  *)
(* refers to it.  Several grants may move in one step: the store cleans up *)
(* in bulk.                                                                *)
(***************************************************************************)
CONSTANTS Grants, Owners, Credentials, Nobody

VARIABLES
    phase,          \* phase of each grant
    owner,          \* who accepted it, or Nobody
    credential,     \* the credential it was redeemed for, or Nobody
    holder          \* who holds each credential obtained from a grant, or Nobody

grantVars == <<phase, owner, credential, holder>>

Phases == {"none", "offered", "accepted", "redeemed", "closed"}

Init ==
    /\ phase = [g \in Grants |-> "none"]
    /\ owner = [g \in Grants |-> Nobody]
    /\ credential = [g \in Grants |-> Nobody]
    /\ holder = [c \in Credentials |-> Nobody]

Keep(g) ==
    /\ phase'[g] = phase[g]
    /\ owner'[g] = owner[g]
    /\ credential'[g] = credential[g]

Offer(g) ==
    /\ phase[g] = "none" /\ phase'[g] = "offered"
    /\ owner'[g] = Nobody /\ credential'[g] = Nobody

Accept(g) ==
    /\ phase[g] = "offered" /\ phase'[g] = "accepted"
    /\ owner'[g] \in Owners /\ credential'[g] = Nobody

\* A redemption may also lose its credential on the spot.
Redeem(g) ==
    /\ phase[g] = "accepted" /\ phase'[g] = "redeemed"
    /\ owner'[g] = owner[g]
    /\ \/ credential'[g] = Nobody
       \/ \E c \in Credentials :
            /\ holder[c] = Nobody
            /\ credential'[g] = c
            /\ holder'[c] = owner[g]

Close(g) ==
    /\ phase[g] \in {"offered", "accepted"} /\ phase'[g] = "closed"
    /\ owner'[g] = owner[g] /\ credential'[g] = credential[g]

\* The credential of a redeemed grant ends; the grant stays redeemed.
Drop(g) ==
    /\ phase[g] = "redeemed" /\ phase'[g] = "redeemed"
    /\ owner'[g] = owner[g] /\ credential'[g] = Nobody

Forget(g) ==
    /\ credential[g] = Nobody
    /\ phase'[g] = "none" /\ owner'[g] = Nobody /\ credential'[g] = Nobody

\* A credential changes hands never: it is obtained by a redemption, or ends.
CredentialStep(c) ==
    \/ holder'[c] = holder[c]
    \/ holder'[c] = Nobody
    \/ \E g \in Grants :
        /\ phase[g] = "accepted" /\ phase'[g] = "redeemed"
        /\ credential'[g] = c /\ holder'[c] = owner[g]

Next ==
    /\ \A g \in Grants : \/ Keep(g) \/ Offer(g) \/ Accept(g) \/ Redeem(g)
                         \/ Close(g) \/ Drop(g) \/ Forget(g)
    /\ \A c \in Credentials : CredentialStep(c)

Spec == Init /\ [][Next]_grantVars
====
