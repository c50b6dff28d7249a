----------------------------- MODULE ProbeRelease -----------------------------
(***************************************************************************)
(* CommitProbeStore.release (gate.py): the round that judges a candidate   *)
(* is shown to the registry, then a transaction of the store draws the     *)
(* probe, and while it is open the registry commits the allocation, the    *)
(* registry commits the source manifests, the ledger commits the source    *)
(* manifests, and at last the store commits the probe's retirement.  A     *)
(* crash between two of these leaves the earlier ones behind.              *)
(*                                                                         *)
(* Several callers run at once.  Stores may be copies of one catalog or    *)
(* successors with catalogs whose probes reuse sources.  The beacon does   *)
(* what CommitReveal says; a candidate names its round by number, since    *)
(* the chain has one round of each number.                                 *)
(***************************************************************************)
EXTENDS Naturals, FiniteSets

CONSTANTS
    Callers,
    Ledgers,      \* replicas of the risk ledger
    Stores,       \* databases of probes
    FrameOf,      \* the signed sampling frame of a store
    Catalog,      \* the probes of a frame
    Sources,      \* the source manifests of a probe
    Candidates,   \* the candidates that are proposed
    Persistent,   \* those whose proposers come back until they are released
    Randoms,      \* beacon randomness
    Draw(_, _),   \* the member of a population that randomness selects
    Hidden,       \* randomness before the round is revealed, a probe before the draw
    Idle          \* a caller that is not in release

Probes == DOMAIN Sources

Frames == DOMAIN Catalog

Manifests == UNION {Sources[p] : p \in Probes}

\* Rows of the registry, of the ledgers and of the stores.
Spendings == [slot : {c.slot : c \in Candidates}, fixation : Candidates]

Owners == [fixation : Candidates, probe : Probes]

ManifestRows == [manifest : Manifests, owner : Owners]

Steps == {"begin", "allocation", "manifests", "ledger", "retire"}

\* A caller in release; there is a probe once the store's transaction is open.
Calls == [at : Steps, store : Stores, ledger : Ledgers, fixation : Candidates,
          probe : Probes \cup {Hidden}]

ASSUME ReleaseAssumption ==
    /\ FrameOf \in [Stores -> Frames]
    /\ Catalog \in [Frames -> SUBSET Probes]
    /\ \A p \in Probes : Sources[p] # {}
    /\ \A c \in Candidates :
          /\ c.round \in Nat /\ c.eligible \subseteq Probes
          /\ DOMAIN c = {"slot", "frame", "round", "eligible", "excluded", "groups"}
    /\ Persistent \subseteq Candidates
    /\ Hidden \notin Randoms \cup Probes /\ Idle \notin Calls
    /\ \A r \in Randoms : \A E \in (SUBSET Probes) \ {{}} : Draw(r, E) \in E

\* CommitProbeStore.__init__ takes a catalog only if its probes share no source.
ASSUME CatalogAssumption ==
    \A frame \in Frames : \A p, q \in Catalog[frame] :
        p # q => Sources[p] \cap Sources[q] = {}

VARIABLES
    head,      \* beacon: number of the last round
    promised,  \* registry: beacon_successor_reservations
    random,    \* beacon: the randomness of a candidate's round
    fixed,     \* per ledger: the fixations that own an allocation
    observed,  \* registry: beacon_heads
    spent,     \* registry: spent_risk_allocations
    retired,   \* registry: retired_source_manifests
    ledger,    \* per ledger: source_manifest_ledger
    store,     \* per store: the probes with consumed=1 and their fixation
    call       \* per caller: Idle or the release it is in

beaconVars == <<head, promised, random, fixed>>
vars == <<beaconVars, observed, spent, retired, ledger, store, call>>

------------------------------------------------------------------------------

Init ==
    /\ head = 1
    /\ promised = {}
    /\ random = [c \in Candidates |-> Hidden]
    /\ fixed = [l \in Ledgers |-> {}]
    /\ observed = 1
    /\ spent = {}
    /\ retired = {}
    /\ ledger = [l \in Ledgers |-> {}]
    /\ store = [s \in Stores |-> {}]
    /\ call = [p \in Callers |-> Idle]

(* What BeaconFixation shows of fixation, in one database                  *)

\* Mutant: a round is free until it is revealed.
RoundIsOpen(c) == random[c] = Hidden

\* A round is promised once.
RoundIsFree(c) == \A d \in promised : d.round # c.round

\* The registry reserves the successor of its head for one candidate.
Promise(c) ==
    /\ observed = head /\ c.round = head + 1
    /\ RoundIsFree(c)
    /\ promised' = promised \cup {c}
    /\ UNCHANGED <<head, random, fixed, observed, spent, retired, ledger, store, call>>

\* consume commits in a ledger, which has one owner per allocation.
Fix(l, c) ==
    /\ c \in promised
    /\ \A d \in fixed[l] : d.slot = c.slot => d = c
    /\ fixed' = [fixed EXCEPT ![l] = @ \cup {c}]
    /\ UNCHANGED <<head, promised, random, observed, spent, retired, ledger, store, call>>

\* The service finalizes the round for a candidate that a ledger holds.
Reveal(c, r) ==
    /\ c.round = head + 1
    /\ \E l \in Ledgers : c \in fixed[l]
    /\ head' = c.round
    /\ random' = [random EXCEPT ![c] = r]
    /\ UNCHANGED <<promised, fixed, observed, spent, retired, ledger, store, call>>

\* A fresh database takes the place of a ledger.
RecreateLedger(l) ==
    /\ fixed' = [fixed EXCEPT ![l] = {}]
    /\ ledger' = [ledger EXCEPT ![l] = {}]
    /\ UNCHANGED <<head, promised, random, observed, spent, retired, store, call>>

------------------------------------------------------------------------------
(* Release                                                                 *)

Continue(p, step) == call' = [call EXCEPT ![p].at = step]

Stop(p) == call' = [call EXCEPT ![p] = Idle]

At(p, step) == call[p] # Idle /\ call[p].at = step

\* Mutant: a round is taken for revealed when it is promised.
IsPromised(c) == c \in promised

\* verify_beacon_round: the transcript is the round of this fixation.
IsRevealed(c) == random[c] # Hidden

\* observe_beacon_head: the registry's own head or its successor.
CanObserve(round) == round \in {observed, observed + 1}

\* What release tests before its transaction, and what it tells the registry.
Release(p, s, l, c) ==
    /\ call[p] = Idle
    /\ FrameOf[s] = c.frame
    /\ IsRevealed(c)
    /\ c \in fixed[l]
    /\ CanObserve(c.round)
    /\ observed' = c.round
    /\ call' = [call EXCEPT ![p] = [at |-> "begin", store |-> s, ledger |-> l,
                                    fixation |-> c, probe |-> Hidden]]
    /\ UNCHANGED <<beaconVars, spent, retired, ledger, store>>

\* A watcher shows the registry the next round.
ObserveBeaconHead ==
    /\ observed < head
    /\ observed' = observed + 1
    /\ UNCHANGED <<beaconVars, spent, retired, ledger, store, call>>

------------------------------------------------------------------------------
(* The store's transaction                                                 *)

\* BEGIN IMMEDIATE waits for the transaction of another caller.
Unlocked(s) ==
    \A q \in Callers : call[q] # Idle /\ call[q].store = s => call[q].at = "begin"

\* Rows with consumed=0, the candidate's group count and no excluded source.
Eligible(s, c) ==
    {probe \in Catalog[FrameOf[s]] :
        /\ \A row \in store[s] : row.probe # probe
        /\ Cardinality(Sources[probe]) = c.groups
        /\ Sources[probe] \cap c.excluded = {}}

\* Mutant: whatever is eligible by now is drawn from.
SomethingEligible(s, c) == Eligible(s, c) # {}

\* The population is the one the candidate was fixed with.
AsCommitted(s, c) == Eligible(s, c) # {} /\ Eligible(s, c) = c.eligible

\* Mutant: the allocation that the ledger has is taken to be enough.
LedgerPays == "manifests"

\* Mutant: the manifests are fenced by the ledger alone.
LedgerFences == "ledger"

\* The registry is asked first, for the allocation and then for the manifests.
FirstFence == "allocation"

SecondFence == "manifests"

Begin(p) ==
    LET s == call[p].store
        c == call[p].fixation
        Open(probe) == call' = [call EXCEPT ![p].at = FirstFence, ![p].probe = probe]
    IN  /\ At(p, "begin") /\ Unlocked(s)
        /\ \/ \E row \in store[s] : row.fixation = c /\ Open(row.probe)
           \/ /\ \A row \in store[s] : row.fixation # c
              /\ IF AsCommitted(s, c)
                 THEN Open(Draw(random[c], Eligible(s, c)))
                 ELSE Stop(p)
        /\ UNCHANGED <<beaconVars, observed, spent, retired, ledger, store>>

\* Mutant: the insertion ignores a row of another fixation.
AlwaysPays(c) == c \in Candidates

\* The allocation is unspent or spent for this fixation.
Pays(c) == \A row \in spent : row.slot = c.slot => row.fixation = c

\* AuditRegistry.reserve_risk_allocation
ReserveRiskAllocation(p) ==
    LET c == call[p].fixation
    IN  /\ At(p, "allocation")
        /\ IF Pays(c)
           THEN /\ spent' = spent \cup {[slot |-> c.slot, fixation |-> c]}
                /\ Continue(p, SecondFence)
           ELSE Stop(p) /\ UNCHANGED spent
        /\ UNCHANGED <<beaconVars, observed, retired, ledger, store>>

Owner(p) == [fixation |-> call[p].fixation, probe |-> call[p].probe]

Rows(owner) == [manifest : Sources[owner.probe], owner : {owner}]

\* Mutant: a row is taken for somebody else's when a retry finds its own.
Untouched(rows, owner) == \A row \in rows : row.manifest \notin Sources[owner.probe]

\* None of the owner's manifests belongs to another release.
Available(rows, owner) ==
    \A row \in rows : row.manifest \in Sources[owner.probe] => row.owner = owner

\* A release that is in the store already is answered without the ledger.
IsRecovered(p) == \E row \in store[call[p].store] : row.fixation = call[p].fixation

\* AuditRegistry.reserve_source_manifests
ReserveSourceManifests(p) ==
    /\ At(p, "manifests")
    /\ IF Available(retired, Owner(p))
       THEN /\ retired' = retired \cup Rows(Owner(p))
            /\ IF IsRecovered(p) THEN Stop(p) ELSE Continue(p, "ledger")
       ELSE Stop(p) /\ UNCHANGED retired
    /\ UNCHANGED <<beaconVars, observed, spent, ledger, store>>

\* RiskLedger.reserve_source_manifests
ReserveInLedger(p) ==
    LET l == call[p].ledger
    IN  /\ At(p, "ledger")
        /\ IF Available(ledger[l], Owner(p))
           THEN /\ ledger' = [ledger EXCEPT ![l] = @ \cup Rows(Owner(p))]
                /\ Continue(p, "retire")
           ELSE Stop(p) /\ UNCHANGED ledger
        /\ UNCHANGED <<beaconVars, observed, spent, retired, store>>

\* The store's commit; under its lock the probe is still unconsumed.
Retire(p) ==
    /\ At(p, "retire")
    /\ store' = [store EXCEPT ![call[p].store] = @ \cup {Owner(p)}]
    /\ Stop(p)
    /\ UNCHANGED <<beaconVars, observed, spent, retired, ledger>>

\* A caller dies: the store's transaction is rolled back, the rest remains.
Crash(p) ==
    /\ call[p] # Idle
    /\ Stop(p)
    /\ UNCHANGED <<beaconVars, observed, spent, retired, ledger, store>>

------------------------------------------------------------------------------

Step(p) ==
    \/ ReserveRiskAllocation(p) \/ ReserveSourceManifests(p)
    \/ ReserveInLedger(p) \/ Retire(p)

Beacon ==
    \/ ObserveBeaconHead
    \/ \E l \in Ledgers : RecreateLedger(l)
    \/ \E c \in Candidates :
          \/ Promise(c)
          \/ \E l \in Ledgers : Fix(l, c)
          \/ \E r \in Randoms : Reveal(c, r)

Undisturbed ==
    \/ Beacon
    \/ \E p \in Callers :
          \/ \E s \in Stores, l \in Ledgers, c \in Candidates : Release(p, s, l, c)
          \/ Begin(p) \/ Step(p)

Next == Undisturbed \/ \E p \in Callers : Crash(p)

Spec == Init /\ [][Next]_vars

------------------------------------------------------------------------------
(* Properties                                                              *)

\* Every table and every call keeps its type; nothing is observed before it is
\* revealed or fixed before it is promised.
TypeOK ==
    /\ head \in Nat /\ observed \in 1..head
    /\ promised \subseteq Candidates
    /\ random \in [Candidates -> Randoms \cup {Hidden}]
    /\ fixed \in [Ledgers -> SUBSET promised]
    /\ spent \subseteq Spendings
    /\ retired \subseteq ManifestRows
    /\ ledger \in [Ledgers -> SUBSET ManifestRows]
    /\ store \in [Stores -> SUBSET Owners]
    /\ call \in [Callers -> Calls \cup {Idle}]

Released == UNION {store[s] : s \in Stores}

\* A fixation never gets a second draw: copies of its store, retries after a crash
\* and releases in between all lead to the probe that its round selected.
OneDrawPerFixation ==
    \A row \in retired \cup UNION {ledger[l] : l \in Ledgers} :
    \A other \in retired \cup UNION {ledger[l] : l \in Ledgers} :
        row.owner.fixation = other.owner.fixation => row.owner = other.owner

\* What a store has released, the registry has paid for and holds as evidence of
\* this release, so issuance and append find it there.
ReleasesAreBacked ==
    \A release \in Released :
        /\ [slot |-> release.fixation.slot, fixation |-> release.fixation] \in spent
        /\ Rows(release) \subseteq retired

\* No ledger refuses what the registry has granted: a refusal there would burn
\* allocation and manifests for nothing.
LedgersNeverRefuse ==
    \A p \in Callers : At(p, "ledger") => Available(ledger[call[p].ledger], Owner(p))

\* The stores' rows implement the one-use promise.
Promised == INSTANCE OneUse WITH used <- Released

ImplementsOneUse == Promised!Spec

\* The last round, with the candidate whose randomness it has revealed.
Checkpoint == [number |-> 1, fixation |-> Hidden]

LastRound ==
    IF head = 1 THEN Checkpoint
    ELSE [number |-> head,
          fixation |-> CHOOSE c \in Candidates : IsRevealed(c) /\ c.round = head]

FixedFor(c, round) == c.round = round.number + 1

\* The beacon that releases see keeps the promise that BeaconFixation implements,
\* although it is one database here and many of three kinds there.
Beacons == INSTANCE CommitReveal WITH head <- LastRound, Genesis <- Checkpoint

ImplementsCommitReveal == Beacons!Spec

\* Nothing stands in the way of this release: its round is the registry's last
\* or next one and what the draw needs is free or this release's own.
Releasable(s, l, c) ==
    /\ FrameOf[s] = c.frame /\ IsRevealed(c) /\ c \in fixed[l] /\ CanObserve(c.round)
    /\ \A row \in store[s] : row.fixation # c
    /\ Eligible(s, c) # {} /\ Eligible(s, c) = c.eligible
    /\ \A row \in spent : row.slot = c.slot => row.fixation = c
    /\ LET owner == [fixation |-> c, probe |-> Draw(random[c], c.eligible)]
       IN  \A row \in retired \cup ledger[l] :
              row.manifest \in Sources[owner.probe] => row.owner = owner

\* Callers come back with a candidate to a store that can release it until one
\* has, a lock that is free again and again goes to one of those who wait, and in
\* the end no caller dies any more.
Fairness ==
    /\ \A p \in Callers : WF_vars(Step(p))
    /\ SF_vars(\E p \in Callers : Begin(p))
    /\ \A c \in Persistent :
          SF_vars(\E p \in Callers, s \in Stores, l \in Ledgers :
                     Releasable(s, l, c) /\ Release(p, s, l, c))
    /\ <>[][Undisturbed]_vars

FairSpec == Spec /\ Fairness

\* A candidate that can be released does not stay unreleased, whatever an earlier
\* attempt that crashed has left in registry and ledgers.
ReleasesAreFinished ==
    \A c \in Persistent : []<>~(\E s \in Stores, l \in Ledgers : Releasable(s, l, c))
================================================================================
