# FedMERIT: verification development

TLA+ specifications of the FedMERIT reference system (`src/fedmerit`), the TLC
runs that check them on small instances, and TLAPS proofs of the results that
hold for every instance. `PROJECT.json` maps every definition to the source
lines it translates and lists runs, mutants, findings, hazards and theorems.

FedMERIT certifies updates of a federated model. A proposer *fixes* a candidate
update, a randomness beacon then selects the hidden probe that judges it, a
quorum of `2f+1` of `3f+1` witnesses replays the judgement and signs a receipt,
and an audit registry appends the receipt and, on `commit`, installs the model.

## 1. Inventory

| Component (source) | State | Operations | Correct when |
| --- | --- | --- | --- |
| Audit registry (`certificate.py:859-2868`) | one SQLite file: live context, registered contexts, verification roots, receipt head, installed model and version, served bytes, lineage envelope and caps, schedules, spent allocations, issued and appended receipts, retired manifests, beacon heads and successor reservations, event journal | constructor, provisioning of roots and of the lineage budget, `register_risk_schedule`, `reserve_risk_allocation`, `reserve_source_manifests`, `record_issued_receipt`, `verify_and_append`, `handover`, `reserve_beacon_successor`, `observe_beacon_head` | receipts form one chain and replaying it gives what is served; one core wins an attempt scope; evidence is used once; the risk envelope and the caps survive handovers; the journal explains the tables |
| Verification trust, handover authorization (`certificate.py:73-250`) | values | digest, signatures, threshold check | a successor is authorized by a quorum of the old roster |
| Witness (`certificate.py:312-464`) | one SQLite file each: signed scopes, signed handovers | `attest`, `authorize_handover` | one core per scope and one successor per context, across restarts |
| Certificate authority (`certificate.py:466-630`) | none of its own | `issue`, `authorize_handover` | collects `2f+1` signatures over what it validated |
| Receipt verification (`certificate.py:632-857`) | none | pure checks | accepts what a quorum signed and nothing else |
| Risk ledger (`gate.py:281-692`) | one SQLite file per replica: schedules, allocations, beacon head, local reservations, source manifests | `register`, `observe_beacon_head`, `consume`, `fixation_precedes_beacon`, `reserve_source_manifests` | a candidate is fixed before the randomness that judges it exists |
| Beacon service (`gate.py:845-1158`) | one SQLite file: key, entropy, head, fixation reservations | `bootstrap`, `reserve_fixation`, `finalize_successor` | one round per number, bound to one fixation, finalized once |
| Commit-probe store (`gate.py:1387-1849`) | one SQLite file per catalog: probes and what was released | constructor, `successor`, `release` | a probe and its source manifests are released for one fixation |
| Gate and risk bound (`gate.py:46-217, 1970-2100`) | none | exact arithmetic | directed rounding never accepts more risk than alpha |
| Domain values (`model.py`) | none | validation, `model_successor` | versions and rounds stay in 32 bits |
| Canonical encoding, Merkle tree (`canonical.py`) | none | digests, paths | one root per list of leaves |
| Security bound (`security.py`) | none | a formula | - |
| Conformance flow, CLI, benchmark, evidence scripts, figures | none | drivers | - |

**How they interact.** A schedule is registered in the registry and then in a
ledger replica. `consume` opens a ledger transaction, commits the beacon
successor in the registry and then its own transaction. The service books the
round for a candidate it finds in a ledger, and finalizes it: randomness and new
head in one transaction. A new round reaches the registry first and a ledger
second. `release` observes the round, reserves allocation and manifests in
registry and ledger and retires the probe in the store: three databases, one
after the other. `issue` reads the registry, has the witnesses replay the
candidate, and records the receipt in a later registry transaction.
`verify_and_append` is one registry transaction. A handover is signed by the
witnesses for what was read before the transaction that activates it.

**What is hard.** Every operation is a `BEGIN IMMEDIATE` transaction of one
database, so the difficulties lie between transactions: state that was read
before witnesses signed for it; calls that commit in two or three databases and
crash in between; retries after other progress; replicas that lag or start
afresh; successive contexts that must not reset what an earlier one used up.
`PROJECT.json` lists each hazard at its line with the properties that cover it.

## 2. Plan

| Step | Modules | Question | State |
| --- | --- | --- | --- |
| 1 | `AuditRegistry`, `InstalledTransition` | one chain, one served model, one envelope | checked and proved |
| 2 | `BeaconFixation`, `CommitReveal` | fixation before randomness across replicas and crashes | checked and proved |
| 3 | `WitnessQuorum`, `Certification` | what `3f+1` witnesses with databases of their own certify, and whether attempts and handovers get decided | checked; safety and refinement proved |
| 4 | `ProbeRelease`, `OneUse` | the release of a probe over store, registry and ledger, with crashes in between, copies and successors of a store | checked; safety and refinement proved |
| 5 | `RiskBound`, `RequiredGroups`, `MerkleTree`, `PublicRelease`, `GateDecision` | the pure functions of the gate | checked and proved |
| 6 | `AuditRegistryProofs` | the handover cap, the journal and the envelope | proved |
| 7 | `DataLemmas`, `PublicReleaseProofs`, `GateDecisionProofs` | sums, trees and roundings for inputs of any size | proved |
| 8 | `RequiredGroupsProofs` | directed rounding, the loops of refinement and the search, end to end | proved |
| 9 | `RiskReference`, `RequiredGroupsProofs` | that the loops reach their precision and the search does not raise | proved |
| 10 | `ProbeReleaseProofs`, `AuditRegistryProofs`, `BeaconFixationProofs` | the contracts `CommitReveal` and `OneUse` from both sides; how far the findings reach | proved |
| 11 | interrupted creation of a registry, reopening of the beacon service | crashes between the statements of a constructor | open |

The modules compose in layers. `AuditRegistry` takes one authorized successor
per context for granted, which `WitnessQuorum` shows of the witnesses.
`WitnessQuorum` takes a released probe for granted, `ProbeRelease` a beacon that
behaves like `CommitReveal`: `BeaconFixation` implements that contract, and so
does the beacon inside `ProbeRelease`. `OneUse` joins release and registry in the
same way: `ProbeRelease` implements it with what stores release, `AuditRegistry`
with what receipts use. `PublicRelease` looks at the token of one release of
`ProbeRelease`.

Modules that are proved about use no `RECURSIVE` operator; constants carry named
assumptions; invariants are conjunctions of named parts.

## 3. Modules

### AuditRegistry

One variable per table (or pair of tables that are always written together) and
one action per operation; the comment of each variable names its table. A call
that raises rolls its transaction back, so a failed check is a disabled action.

| Action | Code |
| --- | --- |
| `Reopen`, `ReopenWithTrust` | the constructor on an existing file; it runs without a transaction, so the context it was given may have been left by the time it writes |
| `ProvisionVerificationTrust`, `ProvisionLineageRiskBudget` | the two provisioning calls |
| `RegisterRiskSchedule`, `ReserveRiskAllocation`, `ReserveSourceManifests` | the calls of the same names |
| `RecordIssuedReceipt` | the last transaction of `issue` |
| `AppendCommit`, `AppendReject`, `RetryAppend` | `_append`: new commit, new reject, receipt that is already on the chain |
| `AuthorizeHandover` | an old-roster quorum signs the transition that was read |
| `Handover`, `HandoverWithTrust` | `handover` with inherited and with supplied roots |

`policy` is kept per *handle*, the Python object, because the policy is cached
in the object and used after another object may have changed the database.

Abstractions. A SHA-256 digest is the value it digests. A receipt of the model
has a quorum's signatures and has passed verification. The journal is a set of
events identified by type and object, which is the rule `_append_event_locked`
enforces; the hash links that order it are left out. A context determines its
roots, because `authority_certificate_hash` is a digest of them; `trusted` says
whether the row is there. Schema migrations are left out. Creation is `Init`.
`AuthorizeHandover` takes from the witnesses that one successor per context gets
a quorum: `OneCertificatePerScope` of `WitnessQuorum`.

### InstalledTransition

What the registry promises: a commit installs the next version, a reject only
moves the head, a handover carries the installed version into the immediate
successor state version, and no head comes back. `AuditRegistry` implements it
with `model` and `version` read from the *served* bytes, so a registry whose
audit row ran ahead of its bytes would not.

### BeaconFixation

The registry's beacon tables, any number of ledger replicas and the beacon
service. A fixation is the candidate: the allocation it spends, its parent round
and whatever else candidates differ in (`Bodies`). A round is its number and
fixation; its randomness is a function of that and the service's secret.

| Action | Code |
| --- | --- |
| `NextContext` | a commit or handover moves the live context |
| `RegisterSchedule`, `EnrollSchedule` | the two halves of `RiskLedger.register` |
| `RecreateLedger` | a replica's database is replaced by a fresh one (the case `certificate.py:1314` names) |
| `ObserveInRegistry`, `ObserveInLedger` | the two halves of `RiskLedger.observe_beacon_head`; the registry's half is also a call of its own |
| `BeginConsume`, `CommitConsume`, `AbortConsume` | `consume` up to and including the registry's commit; the ledger's commit; a crash or error in between |
| `ReserveFixation`, `FinalizeSuccessor` | the service's calls |

Abstractions. One beacon key, as one registry row per key is independent of the
others. Signatures, catalogs and candidate fields that only data checks look at
are left out. The event `beacon-head-observed` names context and round in its
identity, so it never conflicts and is not kept. A second half may happen at any
time after the first, which includes a process that is paused between them for
as long as one likes.

### CommitReveal

What the beacon promises a verifier: a round is promised to one fixation while
its predecessor is the last round, and the next round is the promised one.
`BeaconFixation` implements it with the service's head and the registry's
reservations, two databases that never talk to each other: the promise is kept
by the ledgers in between. `FixedFor` says whether a fixation is for the round
after another; it is a constant because the two modules that implement the
contract name rounds differently. `ProbeRelease` has round numbers, and the last
round is the candidate whose randomness has that number (`LastRound`).

### WitnessQuorum

`issue` and `authorize_handover` go from witness to witness; `call` keeps, per
caller, what it asks for, whom it asks next and whose signatures it holds.
Callers interleave at every step, and any of them may die at any step.

| Action | Code |
| --- | --- |
| `Fix` | a candidate is built on the live state and its probe released |
| `BeginIssue`, `Replay` | the loop of `issue`; `_replay_core` against the live registry |
| `Sign` | `Witness._sign_core` and `Witness.authorize_handover`: the row is committed, then the key signs; a conflicting row refuses |
| `SignBlindly`, `Unavailable` | a faulty witness signs or is silent; an honest one cannot be reached |
| `Abandon` | the caller dies; what witnesses have committed stays |
| `RecordIssuedReceipt`, `VerifyAndAppend` | the transaction that ends `issue`, and the append |
| `BeginHandover`, `ReadHead`, `ReadModel`, `ReadVersion`, `Activate` | `handover` with an authorizer: four separate reads, the signatures, the transaction that compares all of it again |

A witness's database is the set of statements it has signed; key and scope are
the primary keys of its two tables. A faulty witness has no table, since it
signs anything. A core is named by its attempt, because the replay is a function
of candidate and release. The reads of `_replay_core` are one step; the comment
of `Replay` says why. One roster serves all contexts.

### Certification

What certificates promise: one statement per scope is certified, and what is
certified stays so. `WitnessQuorum` implements it with `certified` read off the
tables of all witnesses, so a quorum counts although nobody has collected it.

### ProbeRelease

`CommitProbeStore.release` as the sequence of commits it is.

| Action | Code |
| --- | --- |
| `Promise`, `Fix`, `Reveal`, `RecreateLedger` | the beacon, as `BeaconFixation` shows it, in one database |
| `ObserveBeaconHead` | a watcher shows the registry the next round |
| `Release` | the tests before the transaction, and the registry's `observe_beacon_head` |
| `Begin` | `BEGIN IMMEDIATE`, the recovered row or the eligible set, the draw |
| `ReserveRiskAllocation`, `ReserveSourceManifests` | the registry's two commits |
| `ReserveInLedger` | the ledger's commit |
| `Retire` | the store's commit |
| `Crash` | the caller dies and the store's transaction is rolled back |

A refusal rolls back the store and leaves the earlier commits, as in the code.
The lock of a store is held from `Begin` to the end of the call. Stores with one
frame are copies of a catalog; a successor store has another frame whose probes
may reuse sources. The group count and the excluded sources of a candidate
decide eligibility; signatures and the comparisons with the sealed inventory
are left out, since the model's stores do not change their catalog.

### OneUse

What the release of probes promises whoever accepts its evidence: one probe per
fixation, one fixation per allocation, no source in the evidence of two
fixations. `ProbeRelease` implements it with the rows of all stores together,
which no transaction spans, and `AuditRegistry` with the candidates and probes of
the receipts on its chain (`Certified`, in `AuditRegistryProofs`), which were
issued in one transaction and appended in another.

### RiskBound, RequiredGroups, RiskReference

`RiskBound` is the fixed-point enclosure of `exp(-x)` with its directed
roundings, and the two loops that refine it until alpha is on one side. Integer
divisions are the code's; the literals of the code are constants so that small
numbers exercise the loops (`RiskAssumption` gives the loops a range). Terms,
partial sums and squarings are functions of the step whose values are
intervals. `RequiredGroups` is the search of `required_groups`
with one action per test of a sample size: `TestEstimate`, `GallopDown`,
`GallopUp`, `Bisect`. The decimal logarithm is an arbitrary estimate, and
`Test` an arbitrary function, which the run takes from `RiskBound`.
`RiskReference` puts a table of the exponential beside the enclosures; the table,
its unit and the precisions it is compared at are constants.

### MerkleTree, PublicRelease

`MerkleTree` is `merkle_root`, `merkle_path` and `verify_merkle_path`, with
hashes as terms. The levels of a tree, the positions of a leaf's ancestors and
the nodes that a path rebuilds are functions of the height; `Height` is the first
level of one node, where the loops of the code end. `PublicRelease` is the draw with its rejection of hashes, the
token that `public_release` builds, and `verify_public_release`. Catalog,
eligible set and hashes are variables that never change: the properties
quantify over tokens that might be shown for them. `EvidenceAssumption` is what
the store's constructor and SHA-256 give: catalogs are sorted by id
without duplicates, and a hash is below the modulus.

### GateDecision

The weighted squared errors per group, half-even rounding to quanta, and the
comparison with the threshold. A row has the predictions of both models: the
sigmoid is in the data, and products are exact where the code computes with 80
decimal digits. `DecisionAssumption` is what `model.py` validates: groups
have rows, labels are binary and class weights positive.

## 4. Runs

| Run | Instance | Shows |
| --- | --- | --- |
| `registry_chain` | one handle, one roster, two models, two overlapping probes of which one is larger, schedules of one or two slots, two attempts, one handover before or after the first commit | the chain, its replay, single use of evidence, journal and refinement under every interleaving |
| `registry_lineage` | two policies, two rosters, a foreign twin, up to two handovers, versions up to the last one | envelope, handover cap, inheritance of roots, types at the last version |
| `registry_retry` | as `registry_chain` with three probes | violation: a retried append writes another event after a later commit |
| `registry_key_cap` | key cap 1, a roster with two keys | violation: reopening with roots passes the cap |
| `registry_stale_profile` | two handles, two policies | violation: the frozen profile is the cached policy's |
| `beacon_replicas` | two replicas of which one can be replaced, two candidates for one allocation in each of two contexts, two rounds after the checkpoint, catalogs that start at either of the first two rounds | agreement on fixations, heads, no fixation after reveal, refinement |
| `beacon_progress` | two replicas, two allocations, one context, fair | a reserved successor is finalized although consumes crash |
| `beacon_stuck` | one replica, two contexts, fair | violation: after a context change the crashed reservation cannot be finished |
| `beacon_redraw` | as `beacon_replicas`, one context | violation: two draws for one allocation |
| `witness_quorum` | four witnesses of which one is faulty, two proposers of whom one is also the operator, two attempts of which one is accepted, one successor context, fair | one certificate per scope, the registry follows quorums, refinement, attempts and handovers are decided |
| `probe_release` | two callers, two copies of a store and a successor that reuses a source, one ledger that can be replaced, rounds 2 and 3, two candidates of one allocation and two others, fair | one draw per fixation, backing, agreement of ledger and registry, one use, commit-reveal, half-done releases are finished |
| `gate_functions` | fifteen estimates and eight risks; twelve catalogs of one to six entries with every eligible set; 2,430 instances of losses | the pure functions against their definitions |

*Bounds.* `UINT32_MAX` is the last model version and the last round number: a
small value makes the numeric boundary happen. Chains of two attempts suffice
for the first properties because they relate neighbours of the chain and the live
head; three would add states of the same kinds. Two handovers reach a cap of one
and exercise one refused and one allowed handover. Two replicas are the fewest
that can disagree; two rounds are the fewest for which a head can be stale.
Four witnesses with one faulty are the fewest that tolerate a fault, and two
attempts with a handover are enough for two rivals of a scope and for a handover
between them. Two copies and a successor of a store, and candidates that share
a slot, a round's parent or a source, give every pair of releases that could
collide. Catalogs of three and five entries have odd levels at the bottom and
above it. `HeightBound` limits the trees in which every path is tried.
What the bounds leave open, the theorems of section 5 close for every property
listed there. Deadlock is not checked: versions, rounds and allocations run out
by design and the instances stop there.

*Fairness.* Safety runs have none. `FairSpec` of `BeaconFixation` assumes that a
proposer without an answer asks again (weak fairness of `BeginConsume` for a
reserved fixation), that a ledger's commit is not interrupted forever (strong
fairness of `CommitConsume`, since each crash disables it), and that the service
is asked to book and finalize what the ledgers hold. `consume` itself documents
the retry (`gate.py:554-562` answers it). Nothing is assumed about observation,
registration or context changes.

`FairSpec` of `WitnessQuorum` assumes that callers finish what they start (weak
fairness of their steps), that proposers and operators ask again whenever the
call is open to them again and again (strong fairness, as other callers close it
in between), and that from some time on nobody dies and `2f+1` honest witnesses
answer; docs/SECURITY_GAME.md:4-5 makes progress conditional on them. Faulty
witnesses answer or are silent, for ever. `FairSpec` of `ProbeRelease` assumes
the same of callers, and strong fairness of the lock of a store among those who
wait, which SQLite grants by its timeout and the retry after it. Only candidates
in `Persistent` have a proposer that comes back. The search of `MCGateFunctions`
is a loop and takes its next step.

The liveness properties say what the code can promise: an attempt is decided
*unless a rival has been signed*, and a release is finished *while the registry
accepts its round*. Two attempts that each hold half of the signatures of a scope
do stay undecided, and a half-done release is lost once a later round has been
observed. The allocation and the manifests it reserved are not returned.

*Mutants.* Each property of a passing run is broken by a mutated definition that
stands, marked "Mutant", before the one it replaces. No action refers to them.

*Findings.* Five disagreements between the code and what it or its documents say
are kept as runs that end in a violation; `PROJECT.json` quotes the lines.

## 5. Proofs

`AuditRegistryProofs` proves for all constants that satisfy `ModelAssumption`
(and `ProfileAssumption`, that the caps are numbers): type correctness,
`ReceiptsFormOneChain`, `ReplayReachesServing`, `LapsedStaysLapsed`,
`OneAppendableCore`, `EvidenceIsUsedOnce`, `RiskStaysInEnvelope`,
`HandoversStayCapped`, `JournalRebuildsState`, `TrustIsNeverDropped`, and that the registry implements
`InstalledTransition` and `OneUse`.

* The chain and its replay are inductive together with `TypeOK`: replay needs no
  induction along the chain because the served model always is what the head's
  own receipt installs.
* A lapsed receipt stays lapsed because the pair (live context, head) never
  comes back: heads are never reached twice, and a handover leaves every
  registered context behind (`ContextsAreOlder`: none is ahead of the live one
  in state version).
* One core competes because issuance is exclusive per slot and scope
  (`IssuedOnce`), and two receipts of the live context and head have one scope:
  both start from the installed model (`LiveIssuesFit`).
* The attempts made stay within the envelope because every allocation is a slot
  of a registered schedule that no other allocation has, and the slots of all
  schedules fit (`EnvelopeInvariant`). A sum over a growing set is a fold in an
  unspecified order; `DataLemmas` reads it as the number of *marks*, pairs of
  a schedule and a number up to its share, so a new schedule adds
  its share and allocations inject into the marks.
* The handover cap holds because the number of handovers is counted in the
  journal, inside the transaction that adds one (`HandoversAreFinite` makes the
  count a number).
* The journal rebuilds the state because each table grows with an event of its
  own type, and a retry finds its event there or aborts (`JournalGrows`).
* Evidence is used once because a manifest row has one owner (`OneOwner`) and
  every appended receipt retired its manifests (`ReceiptsRetire`), so two
  receipts that share a manifest share fixation and probe. With the slots of the
  chain, which are distinct, the same facts make each append a step of `OneUse`
  (`RegistryIsOneUse`).
* Three theorems say how far the findings reach. An append can be repeated until
  the next commit, across rejects and handovers (`AppendsRepeatUntilCommit`): its
  event tells the version it was written at, and one of the present version
  tells the present model. Only the constructor, storing keys the lineage does
  not have, passes the key cap (`ReopeningIsTheOnlyWay`), and only an object that
  caches another policy freezes another profile (`StaleHandlesAreTheOnlyWay`): a
  repair of these two calls restores the two properties that the runs refute.

`BeaconFixationProofs` proves for all constants that satisfy `BeaconAssumption`:
type correctness, `OneFixationPerRound`, `HeadsFollowChain`,
`NoFixationAfterReveal`, and that the whole implements `CommitReveal`. The
inductive invariant is `BeaconInvariant`. Its core is `HeadIsLast`: every round
but the service's head already has its successor reserved. Whoever holds an old
head, in the registry or in any replica, therefore finds that successor taken
and can only repeat the fixation it was revealed for. `OnePromise` (one
reservation per number), `RoundsAreFinal` (a round is its fixation's round),
`InRange` and `RegistryHeadIsLast` complete it. Two more theorems bound the
findings. One ledger that keeps its database draws once for an allocation
(`OneLedgerDrawsOnce`, from `Recreatable = {}` and a single member of `Ledgers`):
the second draw of `beacon_redraw` needs another replica or a fresh database. A
successor of the head that was reserved under an earlier context and that no
ledger holds stops the chain of rounds for ever (`BurnedSuccessorsStopTheBeacon`):
`OnePromise` leaves that number to the reserved fixation, no ledger can take the
fixation up again (`JournalIsPast`, the journal never returns to a context), so
the stop that `beacon_stuck` reaches has no way out.

`WitnessQuorumProofs` proves for every `f`, every set of at most `f` faulty
witnesses and all other constants that satisfy `WitnessAssumption`: type
correctness, `OneCertificatePerScope`, `RegistryFollowsQuorum`, and that the
whole implements `Certification`.

* The argument is quorum intersection: of `3f+1` witnesses two sets of `2f+1`
  share `f+1` (`QuorumsMeet`, from the cardinality theorems of the library), so
  they share an honest one (`SomeoneIsHonest`), whose table has one row per
  scope (`OneRowPerScope`).
* `GenuineSignatures` says that whoever a caller counts has signed its
  statement or is faulty, and `JudgedCalls` that a call past the loop holds a
  quorum; with them a change of the registry has a certified reason.

`ProbeReleaseProofs` proves for all constants that satisfy `ReleaseAssumption`
and `CatalogAssumption`: type correctness, `OneDrawPerFixation`,
`ReleasesAreBacked`, `LedgersNeverRefuse`, and that the whole implements
`OneUse` and, seen from the beacon, `CommitReveal`.

* Every row and every open call names the probe that the round's randomness
  draws from the population *committed in the candidate* (`RowsAreDraws`), so
  two rows of one fixation name one probe, whichever store they are about.
* A manifest has one owner in the registry (`OwnedOnce`), and a ledger only has
  rows that the registry has: it asks second, so it has nothing to refuse.
* The last round is one candidate's, because a number is promised once and only
  a promised candidate is revealed (`RevealIsLastRound`). A promise is therefore
  a commit and a reveal the abstract one, and the other steps stutter.

`RequiredGroupsProofs` proves, for all constants that satisfy `RiskAssumption`
and `EstimateAssumption`, that the enclosures, the tests and the search agree
with the exponential, that the loops reach their precision and that the search
raises only where alpha is the value itself, to the last bit computed.

* `exp(-x)` is a real number, which TLA+ integers do not have. It is given as
  the set of fractions that it does not exceed, and the proofs use four facts of
  it (`IsExponential`): it falls, it is not negative, its square is its value at
  `2x`, and the partial sums of its series lie above and below it in turn. The
  exact sums are `TaylorSum`. The theorems assume these facts of a set `W`, and
  hold for the set that the real exponential defines.
* Every rounding is directed (`DivIsDirected`), so terms and sums enclose the
  exact ones (`TermBounds`, `SumBounds`), and the squarings undo the halvings
  (`SquaringsUndoHalvings`). Hence the enclosure holds the exponential with any
  number of terms and at any precision, and the code's own check that it lies
  between 0 and 1 never fails (`EnclosuresAreSound`). The loops of refinement end
  on one such enclosure (`LoopStops`), so what they decide is right
  (`DecisionsAreRight`).
* `EnclosuresHold` follows for every table that rounds the exponential down
  (`ReferenceIsEnclosed`, with `ReferenceIsRight` for what the table has to be).
* The enclosures become narrow. The terms that are rounded down and up drift
  apart by four units at most (`TermsStayClose`: a term is at most half the one
  before), so the sums by four units per term (`SumsStayClose`). The last term
  separates the two sums; after as many halvings as the number of terms it is
  small (`TermsHalve`, `LastTermIsSmall`). A squaring at most doubles the width
  (`SquaringsWiden`), and the scale has a bit for each squaring. What is left has
  to fit into the guard bits and the bits for the number of terms, for which
  three guard bits are enough (`GuardBitsSuffice`); the code has 16. With the
  code's `max(384, p + 32)` terms, `SpareTerms` is 32, so
  `Squarings(x) < SpareTerms` is true up to `x = 2^30`.
  Hence the ArithmeticError of `risk_bound_interval` (`gate.py:132`) cannot be
  reached (`PrecisionIsReached`), and that of `risk_is_satisfied`
  (`gate.py:164`) only with an alpha that agrees with the exponential to 4096
  bits beyond its magnitude (`OnlyTheValueItselfRaises`).
* If tests that decide are right (`TestsAreSound`), the search answers with the
  least sufficient sample from any estimate (`SearchIsExact`). `LeastIsInReach`
  is what each phase knows: above the lower bound, within the upper one, or both.
* `RisksAreTested` joins the two: the tests are those of `RiskBound`, and the
  least number of groups is the first that brings the exponential down to alpha.
  Then every test of an estimate is right (`TestsDecideRightly`) and the answer is
  the least (`RequiredGroupsAreLeast`), without `TestsAreSound`.
* Every step of the search ends its phase or leaves less of it (`SearchGetsCloser`):
  going down the two bounds fall, going up the lower bound approaches the answer,
  and bisection narrows the gap. That order has no infinite descent, so this is
  the part of `SearchEnds` that needs no fairness. It rests on the course
  of the search (`SearchCourse`: the bounds are a step apart, and the upper one
  stays within the estimate or twice the answer).
* By the same bound the search tests no sample size beyond the estimate or twice
  the answer. If the tests up to there decide, it does not raise
  (`SearchNeverRaises`), and with the tests of `RiskBound` they do decide unless
  alpha is the value of one of them (`RequiredGroupsNeverRaises`).

`DataLemmas` holds what the proofs about data share. The library's induction
theorems take a predicate as a parameter, which the provers cannot instantiate.
An induction is therefore written out: a set of counterexamples has a least
element (`LeastNumber`, `LeastSubset`), and that one contradicts the step. A
recursive function is unfolded by showing that some function satisfies its
equations, so that `CHOOSE` picks one; `Recursion` and `LoopExists` provide that
function for recursion on numbers and for a loop with growing steps. `Division` and `Quotient` give `\div` and
`%` their meaning for products.

`PublicReleaseProofs` proves, for all constants that satisfy
`EvidenceAssumption` and so for catalogs, eligible sets and paths of every
length, the four properties of a token.

* A token that `public_release` builds is accepted (`EvidenceIsAccepted`):
  climbing a path rebuilds the ancestors of the leaf level by level
  (`PathVerifies`), also where an odd level repeats its last node.
* A token that is accepted names the draw (`VerifiedTokensNameTheDraw`). From
  the root down, every node of an accepted path is the tree's node at its
  position, so the path has the height of the tree and starts at a leaf
  (`OnlyLeavesHavePaths`). No path of another length is accepted, since a leaf
  is hashed under a tag of its own.
* A root binds its catalog (`RootsAreBinding`). Lists that differ only in
  repeated last leaves do have equal trees; catalogs cannot, because their
  entries are distinct and so are then the nodes of every level.
* The draw is unbiased (`DrawsAreUnbiased`): every eligible position has one
  accepted hash per quotient of the limit by the number of positions.

`GateDecisionProofs` proves, for all constants that satisfy
`DecisionAssumption`, that the decision on rounded losses is the exact one
within a quantum of the mean per group (`GateIsExactWithinAQuantum`): each
group is rounded twice, by half a quantum at most, the errors of a sum are at
most the sum of the errors, and the common weight to which the fractions of all
groups are extended is a multiple of each group's weight.

Only model-checked are the liveness properties `ReservedIsRevealed`,
`AttemptsAreDecided`, `HandoversAreDecided`, `ReleasesAreFinished` and
`SearchEnds`, since fairness and ENABLED are out of the prover's reach. Every other
property of a passing run is a theorem. What the theorems take from outside the
model are the facts of the exponential (`IsExponential`), the table
(`ReferenceIsRight`) and the assumptions on constants named above.

## 6. Not modelled

* The comparison of a receipt's fields with its candidate (`certificate.py:632-720`):
  it is a conjunction of equalities, and a receipt of the model has its
  candidate's fields. Its quorum test and its release evidence are modelled.
* Encodings, digests and signatures: a digest is the value it digests, a
  signature names its signer.
* Reopening the beacon service, an interrupted constructor of registry or store:
  the models keep databases, not Python objects. `PROJECT.json` lists as hazards
  what can go wrong there.
* Rotation of roster epochs within one context.
* `verify_release`, which opens the probe of a token; the decimal logarithm of
  `required_groups`, the sigmoid and the decimal precision of the losses.
* The security bound is a formula over probabilities. The command line, the
  conformance flow, benchmarks, evidence scripts and figures drive the public
  calls, whose sequences are behaviours of the modules, and keep no protocol
  state.
