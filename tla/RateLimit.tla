------------------------------ MODULE RateLimit ------------------------------
(***************************************************************************)
(* Edge admission in front of the Google login                             *)
(* (scripts/thebitlab_edge_rate_limit.py): a request is attributed to a    *)
(* client, reads its worker's clock, and is admitted by a store shared by  *)
(* the workers only if the global and the client bucket both have room.    *)
(*                                                                         *)
(* The workers' clocks disagree and may be set back, so the time a request *)
(* brings to the store is any time; between reading it and the store's     *)
(* transaction other requests come first.                                  *)
(***************************************************************************)
EXTENDS Faults, Integers, Sequences, FiniteSets

CONSTANTS
    Workers,        \* requests in progress, one per worker
    Addresses,      \* addresses a request may name
    Trusted,        \* trusted_proxy_cidrs
    MaxHops,        \* max_proxy_hops
    Rule,           \* limit and window of the "global" and of the "client" rule
    MaxCounters,    \* max_counters of the store
    MaxEpoch,       \* bound on the clocks
    RateFaults      \* bound on the failing transactions

\* The limits, the windows and the capacity are positive (the rules and the store
\* check them when they are made), and a clock reads no negative epoch.
ASSUME RateAssumption ==
    /\ Rule \in [{"global", "client"} -> [limit : Nat \ {0}, window : Nat \ {0}]]
    /\ MaxCounters \in Nat \ {0}
    /\ MaxEpoch \in Nat

VARIABLES
    counters,       \* rate_limit_counters: request_count of each key
    highWater,      \* rate_limit_metadata: high_water_epoch
    rateRequest,        \* the request of each worker
    admissions      \* history: admitted requests of each key, never pruned

rateState == << counters, highWater, rateRequest, admissions >>
rateVars == << rateState, faults >>

Nobody == [pc |-> "idle", client |-> None, now |-> 0]

RateInit ==
    /\ counters = [k \in {} |-> 0]
    /\ highWater = 0
    /\ rateRequest = [w \in Workers |-> Nobody]
    /\ admissions = [k \in {} |-> 0]
    /\ faults = 0

-----------------------------------------------------------------------------

\* TrustedProxyClientResolver.resolve: from the right, the first address that is
\* not a trusted proxy; the leftmost when all of them are.  An untrusted peer's
\* header is not read.
resolve(peer, chain) ==
    LET hops == Append(chain, peer)
        untrusted == {i \in DOMAIN hops : hops[i] \notin Trusted} IN
    IF peer \notin Trusted THEN peer
    ELSE IF untrusted = {} THEN hops[1]
    ELSE hops[CHOOSE i \in untrusted : \A j \in untrusted : j <= i]

Chains == UNION {[1..n -> Addresses] : n \in 0..MaxHops}

\* GoogleOidcLoginAdmissionBoundary.begin_login up to the call of the store.  A
\* trusted peer's ambiguous header raises before anything is counted.
admit_login(w) ==
    /\ rateRequest[w].pc = "idle"
    /\ \E peer \in Addresses, chain \in Chains, now \in 0..MaxEpoch :
        rateRequest' = [rateRequest EXCEPT ![w] =
                      [pc |-> "admit", client |-> resolve(peer, chain), now |-> now]]
    /\ NoFault
    /\ UNCHANGED <<counters, highWater, admissions>>

Buckets(w) == {<<"global", "global">>, <<"client", rateRequest[w].client>>}
Limit(k) == Rule[k[1]].limit
Window(k) == Rule[k[1]].window

\* Mutant of Epoch: the transaction trusts the clock of its worker.
MutEpoch(now) == now

\* The high-water mark: time never goes back for the store.
Epoch(now) == IF now > highWater THEN now ELSE highWater

\* Keys are buckets with the number of their window.
KeyAt(b, epoch) == <<b[1], b[2], epoch \div Window(b)>>

\* Counters of windows that have ended are deleted.
ActiveRule(epoch) ==
    [k \in {k \in DOMAIN counters : (k[3] + 1) * Window(k) > epoch} |-> counters[k]]

Count(f, k) == IF k \in DOMAIN f THEN f[k] ELSE 0
Increment(f, keys) ==
    [k \in DOMAIN f \cup keys |-> Count(f, k) + (IF k \in keys THEN 1 ELSE 0)]

\* _retry_after is not None: some bucket is at its limit.
Full(active, keys) == \E k \in keys : Count(active, k) >= Limit(k)

admitted(active, keys) == ~Full(active, keys)

\* SqliteAtomicRateLimitStore.admit, one immediate transaction: every bucket is
\* incremented or none; a store at its capacity, or an error, rolls back.
admit(w) ==
    LET epoch == Epoch(rateRequest[w].now)
        active == ActiveRule(epoch)
        keys == {KeyAt(b, epoch) : b \in Buckets(w)}
        counted == Increment(active, keys) IN
    /\ rateRequest[w].pc = "admit"
    /\ \/ /\ admitted(active, keys) /\ Cardinality(DOMAIN counted) <= MaxCounters
          /\ counters' = counted /\ highWater' = epoch
          /\ admissions' = Increment(admissions, keys)
          /\ rateRequest' = [rateRequest EXCEPT ![w].pc = "login"]
          /\ NoFault
       \/ /\ ~admitted(active, keys)          \* 429 with Retry-After
          /\ counters' = active /\ highWater' = epoch
          /\ rateRequest' = [rateRequest EXCEPT ![w] = Nobody]
          /\ NoFault
          /\ UNCHANGED admissions
       \/ /\ \/ Fault(RateFaults)             \* 503
             \/ /\ admitted(active, keys) /\ Cardinality(DOMAIN counted) > MaxCounters
                /\ NoFault
          /\ rateRequest' = [rateRequest EXCEPT ![w] = Nobody]
          /\ UNCHANGED <<counters, highWater, admissions>>

\* login.begin_login, only after the admission.
start_login(w) ==
    /\ rateRequest[w].pc = "login"
    /\ rateRequest' = [rateRequest EXCEPT ![w] = Nobody]
    /\ NoFault
    /\ UNCHANGED <<counters, highWater, admissions>>

RateNext == \E w \in Workers : admit_login(w) \/ admit(w) \/ start_login(w)

RateSpec == RateInit /\ [][RateNext]_rateVars

-----------------------------------------------------------------------------

\* No window of the global bucket or of a client's ever admits more than its
\* limit, however the workers' clocks disagree and whatever was pruned between:
\* a clock behind the others cannot reopen a window that was counted and deleted,
\* because the store's own time never goes back (admit, high_water_epoch).
LimitHolds ==
    /\ \A k \in DOMAIN admissions : admissions[k] <= Limit(k)
    /\ Cardinality(DOMAIN counters) <= MaxCounters
=============================================================================
