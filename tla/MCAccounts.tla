----------------------------- MODULE MCAccounts -----------------------------
(***************************************************************************)
(* The dashboard's two components: tenants with their seed, and the pool   *)
(* of connections.  They share no variable, so a behaviour of the one      *)
(* beside each behaviour of the other shows nothing more: a behaviour      *)
(* moves one of them, from its initial state on.                           *)
(***************************************************************************)
EXTENDS Tenancy, ConnectionPool, TLC

CONSTANTS seeder, stranger, own, elsewhere, org

\* The seeded user signs in to a tenant of its own and to an organization.
MCPersonal == seeder :> own @@ stranger :> elsewhere

MCTokens == seeder :> {own, org} @@ stranger :> {}

VARIABLE moves

MCVars == <<tenancyVars, poolVars, moves>>

MCInit ==
    /\ moves \in {"tenancy", "pool"}
    /\ TenancyInit
    /\ PoolInit
    /\ moves = "tenancy" => keys = 0 /\ \A s \in Seed : In(s, "failed")
    /\ moves = "pool" => /\ apiKeys = {} /\ registry = NoRegistry
                         /\ \A s \in Seed : In(s, "succeeded")

MoveTenancy(A) == moves = "tenancy" /\ A /\ UNCHANGED <<poolVars, moves>>
MovePool(A) == moves = "pool" /\ A /\ UNCHANGED <<tenancyVars, moves>>

MCNext == MoveTenancy(TenancyNext) \/ MovePool(PoolNext)

\* TenancyFairness and PoolFairness, each for its own behaviours.
MCFairness ==
    /\ \A s \in Seed : WF_MCVars(MoveTenancy(RunSeed(s)))
    /\ \A h \in Handler : SF_MCVars(MovePool(Proceed(h)))

MCSpec == MCInit /\ [][MCNext]_MCVars /\ MCFairness

=============================================================================
