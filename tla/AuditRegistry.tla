---------------------------- MODULE AuditRegistry ----------------------------
(***************************************************************************)
(* The audit registry of FedMERIT (class AuditRegistry, certificate.py):   *)
(* one SQLite database that holds the live context, the serving model, the *)
(* receipt head, the lineage risk envelope and the protocol journal.       *)
(*                                                                         *)
(* Every operation but the constructor is one BEGIN IMMEDIATE ... COMMIT   *)
(* transaction and so one action.  A call that raises rolls its            *)
(* transaction back and changes nothing: a failed guard is a disabled      *)
(* action.  A SHA-256 digest is the value it digests (a receipt,           *)
(* candidate, schedule or context is its own hash), so equal digests mean  *)
(* equal contents.                                                         *)
(***************************************************************************)
EXTENDS Naturals, FiniteSets, FiniteSetsExt

CONSTANTS
    Handles,          \* AuditRegistry objects open on the one database file
    Twins, Policies,  \* twin identities, evaluation policies
    Rosters,          \* VerificationTrust records, named by their certificate hash
    Models,           \* canonical model artifacts, named by their artifact hash
    Probes,           \* commit probes a store can release
    Manifests(_),     \* the source manifests of the groups of a probe
    Keys(_),          \* the distinct public keys of a roster
    Profile(_),       \* the security profile of a policy: its three lineage caps
    GenesisModel,     \* the model the registry is created with
    InitialContext,   \* the context the registry is created with
    Proposals,        \* contexts somebody proposes as the successor of a handover
    Envelopes,        \* lifetime budgets proposed for the lineage
    Deltas, Horizons, \* lifetime budgets and lengths of the schedules proposed
    UINT32_MAX        \* the last version number

Contexts == [twin : Twins, state_version : 0..UINT32_MAX, policy : Policies,
             model_version : 0..UINT32_MAX, authority : Rosters]

ASSUME ModelAssumption ==
    /\ GenesisModel \in Models
    /\ InitialContext \in Contexts
    /\ Proposals \subseteq Contexts
    /\ UINT32_MAX \in Nat
    /\ Horizons \subseteq Nat \ {0}
    /\ Envelopes \subseteq Nat /\ Deltas \subseteq Nat

ASSUME ProfileAssumption ==
    \A p \in Policies :
        Profile(p) \in [max_attempts : Nat, max_verification_keys : Nat,
                        max_handover_count : Nat]

VARIABLES
    policy,      \* per handle: the evaluation policy cached in the object
    live,        \* context_head
    contexts,    \* registered_contexts
    trusted,     \* the contexts that have a verification_trust row
    authorized,  \* handovers a quorum of the old roster has signed
    head,        \* audit_state.head
    audit,       \* audit_state: installed model and version
    serving,     \* serving_model: model bytes and version
    lineage,     \* lineage_risk_budget and lineage_security_caps
    schedules,   \* risk_schedules and risk_schedule_usage
    spent,       \* spent_risk_allocations: the candidate that owns each slot
    issued,      \* issued_receipts
    receipts,    \* receipts
    manifests,   \* retired_source_manifests
    events       \* protocol_events

contextVars == <<live, contexts>>
modelVars   == <<head, audit, serving, receipts>>
riskVars    == <<lineage, schedules, spent>>
vars == <<policy, contextVars, trusted, authorized, modelVars, riskVars,
          issued, manifests, events>>

------------------------------------------------------------------------------
(* Values                                                                  *)

\* The head before the first receipt, a digest that no receipt has.
ZeroHash == [decision |-> "genesis"]

\* The empty lineage_risk_budget table, equal to no row of it.
NoLineage == [twin |-> "none"]

\* Receipt heads some proposer can name: the genesis head and every receipt.
KnownHeads == {ZeroHash} \cup receipts

\* A schedule freezes a budget and a number of allocations for one context.
Schedule(c, anchor, delta, slots) ==
    [context |-> c, anchor |-> anchor, delta |-> delta, slots |-> slots]

\* Candidates fixed against a registered schedule.  They need not be fresh: a
\* proposer may still hold an older head.  The first allocation of a schedule
\* has to extend the head the schedule is anchored at.
Candidates ==
    {c \in [context : contexts, before : Models, after : Models,
            previous : KnownHeads, schedule : schedules,
            index : 0..(Max(Horizons) - 1)] :
        /\ c.context = c.schedule.context
        /\ c.index < c.schedule.slots
        /\ c.index = 0 => c.previous = c.schedule.anchor}

Slot(c)  == <<c.schedule, c.index>>
Scope(c) == <<c.context, c.before, c.previous>>

Receipts(c) == [candidate : {c}, probe : Probes, decision : {"commit", "reject"}]

\* Mutant: a commit leaves the context at its old model version.
SameContext(c) == c

\* The context a committed update activates; undefined past the last version.
ModelSuccessor(c) == [c EXCEPT !.model_version = @ + 1]

LineageKeys(cs) == UNION {Keys(c.authority) : c \in cs}

Handovers == {e \in events : e.type = "context-handover"}

Attempts(ss) == MapThenSumSet(LAMBDA s : s.slots, ss)
Budgeted(ss) == MapThenSumSet(LAMBDA s : s.delta, ss)

\* Mutant: one event per type and context, and a second one is ignored.
AppendFirstEvent(type, context, object, details) ==
    events' = IF \E e \in events : e.type = type /\ e.context = context
              THEN events
              ELSE events \cup {[type |-> type, context |-> context,
                                 object |-> object, details |-> details]}

\* Append one event.  The pair (type, object) identifies it: an equal event is
\* already there and stays, a different one aborts the transaction.
AppendEvent(type, context, object, details) ==
    LET event == [type |-> type, context |-> context,
                  object |-> object, details |-> details]
    IN  /\ \A e \in events :
              (e.type = type /\ e.object = object) => e = event
        /\ events' = events \cup {event}

------------------------------------------------------------------------------
(* Creation, reopening and provisioning                                    *)

Init ==
    /\ policy = [h \in Handles |-> InitialContext.policy]
    /\ live = InitialContext
    /\ contexts = {InitialContext}
    /\ trusted \in {{}, {InitialContext}}
    /\ authorized = {}
    /\ head = ZeroHash
    /\ audit = [model |-> GenesisModel, version |-> InitialContext.model_version]
    /\ serving = audit
    /\ lineage = NoLineage
    /\ schedules = {} /\ spent = {}
    /\ issued = {} /\ receipts = {}
    /\ manifests = {}
    /\ events = {}

\* AuditRegistry(path, initial_context=c, ...) on the existing file: the new
\* object caches the policy of c.  The constructor opens no transaction, each of
\* its statements commits by itself: c was live when the context head was read
\* and need not be live any more.
Reopen(h, c) ==
    /\ serving = audit
    /\ policy' = [policy EXCEPT ![h] = c.policy]
    /\ UNCHANGED <<contextVars, trusted, authorized, modelVars, riskVars,
                   issued, manifests, events>>

\* The same constructor call with verification_trust: the roots are stored
\* without a look at the lineage caps.
ReopenWithTrust(h, c) ==
    /\ serving = audit
    /\ policy' = [policy EXCEPT ![h] = c.policy]
    /\ trusted' = trusted \cup {c}
    /\ UNCHANGED <<contextVars, authorized, modelVars, riskVars,
                   issued, manifests, events>>

\* The roots have to open live.authority, so the context determines them.
ProvisionVerificationTrust ==
    /\ lineage # NoLineage =>
          Cardinality(LineageKeys(trusted \cup {live}))
              <= lineage.profile.max_verification_keys
    /\ trusted' = trusted \cup {live}
    /\ UNCHANGED <<policy, contextVars, authorized, modelVars, riskVars,
                   issued, manifests, events>>

\* The profile frozen here is the one cached in the calling object.
ProvisionLineageRiskBudget(h, delta) ==
    LET profile == Profile(policy[h])
        row == [twin |-> live.twin, anchor |-> head, delta |-> delta,
                profile |-> profile]
    IN  /\ Cardinality(LineageKeys(trusted)) <= profile.max_verification_keys
        /\ Cardinality(Handovers) <= profile.max_handover_count
        /\ \/ lineage = NoLineage /\ schedules = {}
           \/ lineage = row
        /\ lineage' = row
        /\ AppendEvent("lineage-budget-provisioned", live,
                       [twin |-> live.twin, anchor |-> head],
                       [delta |-> delta, profile |-> profile])
        /\ UNCHANGED <<policy, contextVars, trusted, authorized, modelVars,
                       schedules, spent, issued, manifests>>

------------------------------------------------------------------------------
(* Risk schedules, allocations and source manifests                        *)

\* Mutant: each schedule is held against the whole envelope.
FitsAlone(s) ==
    /\ s.slots <= lineage.profile.max_attempts
    /\ s.delta <= lineage.delta

\* The schedule fits into what the schedules of the lineage have left over.
FitsEnvelope(s) ==
    /\ Attempts(schedules) + s.slots <= lineage.profile.max_attempts
    /\ Budgeted(schedules) + s.delta <= lineage.delta

\* One schedule per context; a byte-exact retry is accepted, anything else has
\* to be the live context's first schedule, anchored at the head, and to fit
\* into what the lineage has left.
RegisterRiskSchedule(s) ==
    /\ \/ s \in schedules
       \/ /\ \A t \in schedules : t.context # s.context
          /\ s.context = live
          /\ s.anchor = head
          /\ lineage # NoLineage
          /\ lineage.twin = live.twin
          /\ FitsEnvelope(s)
    /\ schedules' = schedules \cup {s}
    /\ AppendEvent("risk-schedule-registered", s.context, s,
                   [anchor |-> s.anchor, delta |-> s.delta, slots |-> s.slots])
    /\ UNCHANGED <<policy, contextVars, trusted, authorized, modelVars,
                   lineage, spent, issued, manifests>>

ReserveRiskAllocation(c) ==
    /\ c.schedule \in schedules
    /\ \A d \in spent : Slot(d) = Slot(c) => d = c
    /\ spent' = spent \cup {c}
    /\ AppendEvent("risk-allocation-spent", c.schedule.context, c,
                   [schedule |-> c.schedule, index |-> c.index])
    /\ UNCHANGED <<policy, contextVars, trusted, authorized, modelVars,
                   lineage, schedules, issued, manifests>>

\* The rows (manifest, owner) one release retires; a manifest that already has
\* another owner aborts the transaction.
ManifestRows(c, probe) ==
    {[manifest |-> m, fixation |-> c, probe |-> probe] : m \in Manifests(probe)}

RetireManifests(c, probe) == manifests' = manifests \cup ManifestRows(c, probe)

ReserveManifestsLocked(c, probe) ==
    /\ \A row \in manifests :
          row.manifest \in Manifests(probe) => row.fixation = c /\ row.probe = probe
    /\ RetireManifests(c, probe)

ReserveSourceManifests(c, probe) ==
    /\ ReserveManifestsLocked(c, probe)
    /\ AppendEvent("source-manifests-retired", c.context,
                   [fixation |-> c, probe |-> probe],
                   [manifests |-> Manifests(probe)])
    /\ UNCHANGED <<policy, contextVars, trusted, authorized, modelVars,
                   riskVars, issued>>

------------------------------------------------------------------------------
(* Issuance and CheckAppend                                                *)

\* The schedule is registered and its allocation spent for this candidate.
FixedAndSpent(c) == c.schedule \in schedules /\ c \in spent

\* The candidate starts from what the registry holds now.
LiveInput(c) ==
    /\ c.context = live
    /\ c.previous = head
    /\ c.before = audit.model
    /\ c.context.model_version = audit.version

\* An allocation backs one receipt, and an attempt scope has one core.
OwnSlot(r) ==
    \A q \in issued : q = r \/ Slot(q.candidate) # Slot(r.candidate)

OwnScope(r) ==
    /\ OwnSlot(r)
    /\ \A q \in issued : q = r \/ Scope(q.candidate) # Scope(r.candidate)

\* The last step of CertificateAuthority.issue: the live state is read again
\* in the transaction, after the witnesses replayed the candidate.
RecordIssuedReceipt(r) ==
    LET c == r.candidate
    IN  /\ FixedAndSpent(c)
        /\ c.context \in trusted
        /\ LiveInput(c)
        /\ OwnScope(r)
        /\ issued' = issued \cup {r}
        /\ AppendEvent("receipt-issued", c.context, r,
                       [fixation |-> c, schedule |-> c.schedule, index |-> c.index])
        /\ UNCHANGED <<policy, contextVars, trusted, authorized, modelVars,
                       riskVars, manifests>>

\* What the journal keeps of an append: the model installed when the event is
\* written, which for a retry is the model installed at the retry.
AppendDetails(r, installed) ==
    [decision |-> r.decision, previous |-> r.candidate.previous,
     model |-> installed.model, version |-> installed.version,
     successor |-> IF r.decision = "commit"
                   THEN ModelSuccessor(r.candidate.context) ELSE ZeroHash]

Registered(r) == FixedAndSpent(r.candidate) /\ r \in issued

\* The new row: the served bytes are the candidate's input, and the manifests,
\* the scope and the allocation are still free.
InsertReceipt(r) ==
    LET c == r.candidate
    IN  /\ Registered(r)
        /\ r \notin receipts
        /\ serving = [model |-> c.before, version |-> audit.version]
        /\ \A q \in receipts : /\ Scope(q.candidate) # Scope(c)
                               /\ Slot(q.candidate) # Slot(c)
        /\ ReserveManifestsLocked(c, r.probe)
        /\ receipts' = receipts \cup {r}
        /\ head' = r

\* CheckAppend: issued and unused does not suffice, the receipt has to extend
\* the live context, head, model and version at the moment of its append.
ExtendsLiveState(r) == LiveInput(r.candidate) /\ InsertReceipt(r)

\* Mutant: the successor context may leave the range of versions.
VersionInRange == live.model_version <= UINT32_MAX

\* A commit needs a next version.
VersionAvailable == live.model_version < UINT32_MAX

AppendCommit(r) ==
    LET installed == [model |-> r.candidate.after, version |-> audit.version + 1]
        successor == ModelSuccessor(live)
    IN  /\ r.decision = "commit"
        /\ ExtendsLiveState(r)
        /\ VersionAvailable
        /\ live \in trusted
        /\ audit' = installed
        /\ serving' = installed
        /\ live' = successor
        /\ contexts' = contexts \cup {successor}
        /\ trusted' = trusted \cup {successor}
        /\ AppendEvent("receipt-appended", r.candidate.context, r,
                       AppendDetails(r, installed))
        /\ UNCHANGED <<policy, authorized, riskVars, issued>>

AppendReject(r) ==
    /\ r.decision = "reject"
    /\ ExtendsLiveState(r)
    /\ AppendEvent("receipt-appended", r.candidate.context, r,
                   AppendDetails(r, audit))
    /\ UNCHANGED <<policy, contextVars, trusted, authorized, audit, serving,
                   riskVars, issued>>

\* The receipt has been appended before; only its event is written again.
RetryAppend(r) ==
    /\ Registered(r)
    /\ r \in receipts
    /\ AppendEvent("receipt-appended", r.candidate.context, r,
                   AppendDetails(r, audit))
    /\ UNCHANGED <<policy, contextVars, trusted, authorized, modelVars,
                   riskVars, issued, manifests>>

------------------------------------------------------------------------------
(* Handover                                                                *)

\* What an old-roster quorum signs when it is asked to leave the live context.
Authorization(successor) ==
    [previous_context |-> live, successor |-> successor, head |-> head,
     model |-> audit.model, version |-> audit.version]

\* CertificateAuthority.authorize_handover over the state read before the
\* handover transaction.  Two quorums share an honest witness, and a witness
\* signs at most one successor of a context.
AuthorizeHandover(successor) ==
    /\ \A a \in authorized : a.previous_context # live
    /\ authorized' = authorized \cup {Authorization(successor)}
    /\ UNCHANGED <<policy, contextVars, trusted, modelVars, riskVars,
                   issued, manifests, events>>

\* Mutant: the cap is compared with the handovers before this one.
HandoverWithinCap == Cardinality(Handovers) <= lineage.profile.max_handover_count

HandoverBelowCap == Cardinality(Handovers) < lineage.profile.max_handover_count

\* The guards every handover passes: it continues the lineage, an old-roster
\* quorum has signed it if there are old roots to check it with, it keeps the
\* frozen profile and has a handover left, ...
ContinuesLineage(successor) ==
    /\ successor.twin = live.twin
    /\ successor.state_version = live.state_version + 1
    /\ live \in trusted => Authorization(successor) \in authorized
    /\ lineage # NoLineage =>
          /\ lineage.twin = successor.twin
          /\ lineage.profile = Profile(successor.policy)
          /\ HandoverBelowCap

\* ... and it takes over the installed model version.
HandoverAllowed(successor) ==
    /\ ContinuesLineage(successor)
    /\ successor.model_version = audit.version

ActivateContext(h, successor) ==
    /\ contexts' = contexts \cup {successor}
    /\ live' = successor
    /\ policy' = [policy EXCEPT ![h] = successor.policy]
    /\ AppendEvent("context-handover", successor, successor,
                   [previous_context |-> live, authorized |-> live \in trusted])
    /\ UNCHANGED <<authorized, modelVars, riskVars, issued, manifests>>

\* Mutant: new contexts start without roots.
KeptTrust(successor) == trusted

\* The successor inherits the roots of the live context, if it has any.
InheritedTrust(successor) ==
    IF live \in trusted THEN trusted \cup {successor} ELSE trusted

Handover(h, successor) ==
    /\ HandoverAllowed(successor)
    /\ live \in trusted => successor.authority = live.authority
    /\ trusted' = InheritedTrust(successor)
    /\ ActivateContext(h, successor)

HandoverWithTrust(h, successor) ==
    /\ HandoverAllowed(successor)
    /\ lineage # NoLineage =>
          Cardinality(LineageKeys(trusted \cup {successor}))
              <= lineage.profile.max_verification_keys
    /\ trusted' = trusted \cup {successor}
    /\ ActivateContext(h, successor)

------------------------------------------------------------------------------

Next ==
    \/ \E h \in Handles, c \in contexts : Reopen(h, c) \/ ReopenWithTrust(h, c)
    \/ ProvisionVerificationTrust
    \/ \E h \in Handles, delta \in Envelopes : ProvisionLineageRiskBudget(h, delta)
    \/ \E c \in contexts, anchor \in KnownHeads, delta \in Deltas, n \in Horizons :
          RegisterRiskSchedule(Schedule(c, anchor, delta, n))
    \/ \E c \in Candidates : ReserveRiskAllocation(c)
    \/ \E c \in spent, probe \in Probes : ReserveSourceManifests(c, probe)
    \/ \E c \in spent : \E r \in Receipts(c) : RecordIssuedReceipt(r)
    \/ \E r \in issued : AppendCommit(r) \/ AppendReject(r) \/ RetryAppend(r)
    \/ \E successor \in Proposals : AuthorizeHandover(successor)
    \/ \E h \in Handles, successor \in Proposals :
          Handover(h, successor) \/ HandoverWithTrust(h, successor)

Spec == Init /\ [][Next]_vars

------------------------------------------------------------------------------
(* Properties                                                              *)

Fixations == [context : contexts, before : Models, after : Models,
              previous : KnownHeads, schedule : schedules, index : Nat]

\* Every table holds rows of its type, and a row only names receipts,
\* schedules and contexts that the database holds too.
TypeOK ==
    /\ policy \in [Handles -> Policies]
    /\ contexts \subseteq Contexts
    /\ live \in contexts
    /\ trusted \subseteq contexts
    /\ head \in KnownHeads
    /\ audit \in [model : Models, version : 0..UINT32_MAX]
    /\ serving \in [model : Models, version : 0..UINT32_MAX]
    /\ lineage = NoLineage
       \/ lineage \in [twin : Twins, anchor : KnownHeads, delta : Envelopes,
                       profile : {Profile(p) : p \in Policies}]
    /\ schedules \subseteq [context : contexts, anchor : KnownHeads,
                            delta : Deltas, slots : Horizons]
    /\ spent \subseteq Fixations
    /\ issued \subseteq [candidate : spent, probe : Probes,
                         decision : {"commit", "reject"}]
    /\ receipts \subseteq issued
    /\ \A row \in manifests : row.fixation \in spent /\ row.probe \in Probes
    /\ \A a \in authorized : a.previous_context \in contexts /\ a.head \in KnownHeads

\* The appended receipts form one chain from the genesis head to the live one:
\* each names an older head, no two extend the same head and nothing extends
\* the live head, whatever interleaving of issuances, retries and handovers
\* CheckAppend met.
ReceiptsFormOneChain ==
    /\ head \in KnownHeads
    /\ \A r \in receipts : /\ r.candidate.previous \in KnownHeads \ {r}
                           /\ r.candidate.previous # head
    /\ \A q, r \in receipts : q.candidate.previous = r.candidate.previous => q = r

\* The model and version a verifier computes for a head from its receipt alone.
InstalledAt(h) ==
    IF h = ZeroHash
    THEN [model |-> GenesisModel, version |-> InitialContext.model_version]
    ELSE IF h.decision = "commit"
    THEN [model |-> h.candidate.after,
          version |-> h.candidate.context.model_version + 1]
    ELSE [model |-> h.candidate.before,
          version |-> h.candidate.context.model_version]

\* Replaying the receipts from genesis reproduces what is served: each receipt
\* starts from what its predecessor installed, and the bytes, the audit row and
\* the live context agree with the last one.
ReplayReachesServing ==
    /\ \A r \in receipts :
          InstalledAt(r.candidate.previous)
              = [model |-> r.candidate.before,
                 version |-> r.candidate.context.model_version]
    /\ serving = InstalledAt(head)
    /\ audit = serving
    /\ live.model_version = serving.version

\* A receipt that was issued but lost its context or its head can never be
\* appended later: no sequence of appends and handovers brings the pair (live
\* context, head) back.
Lapsed(r) == r.candidate.context # live \/ r.candidate.previous # head

LapsedStaysLapsed ==
    [][\A r \in issued \ receipts :
          Lapsed(r) => (Lapsed(r)' /\ r \notin receipts')]_vars

\* At most one issued receipt can be appended at any moment, so two certified
\* cores never compete for one live attempt scope.
OneAppendableCore ==
    \A q, r \in issued \ receipts : ~Lapsed(q) /\ ~Lapsed(r) => q = r

\* The lifetime budget, the number of attempts and the attempts really made
\* stay within the frozen envelope across commits, handovers, reopened
\* registries and recreated schedules.
RiskStaysInEnvelope ==
    /\ schedules # {} => lineage # NoLineage
    /\ lineage # NoLineage =>
          /\ Budgeted(schedules) <= lineage.delta
          /\ Cardinality(spent) <= lineage.profile.max_attempts
    /\ \A q, r \in issued : Slot(q.candidate) = Slot(r.candidate) => q = r

\* No source manifest is evidence for two receipts of the chain, whichever
\* context or catalog released it, and each one is retired to its receipt.
EvidenceIsUsedOnce ==
    /\ \A q, r \in receipts :
          Manifests(q.probe) \cap Manifests(r.probe) # {} => q = r
    /\ \A r \in receipts : ManifestRows(r.candidate, r.probe) \subseteq manifests

\* Recovery can rebuild the tables from the journal: schedules, allocations,
\* issuances, receipts and the contexts that were ever live.
Journaled(type) == {e.object : e \in {x \in events : x.type = type}}

JournaledSuccessors ==
    {e.details.successor : e \in
        {x \in events : x.type = "receipt-appended" /\ x.object.decision = "commit"}}

JournalRebuildsState ==
    /\ schedules = Journaled("risk-schedule-registered")
    /\ spent = Journaled("risk-allocation-spent")
    /\ issued = Journaled("receipt-issued")
    /\ receipts = Journaled("receipt-appended")
    /\ contexts = {InitialContext} \cup Journaled("context-handover")
          \cup JournaledSuccessors
    /\ lineage # NoLineage <=> Journaled("lineage-budget-provisioned") # {}

\* Once the live context has verification roots, so has every later one: no
\* commit and no handover leaves the lineage without keys to verify with.
TrustIsNeverDropped == [][(live \in trusted) => (live' \in trusted')]_vars

\* The lineage never exceeds the frozen number of handovers.
HandoversStayCapped ==
    lineage # NoLineage =>
        Cardinality(Handovers) <= lineage.profile.max_handover_count

\* The frozen profile is the security profile of the live policy.
FrozenProfileIsLive ==
    lineage # NoLineage => lineage.profile = Profile(live.policy)

\* The lineage never holds more distinct verification keys than were frozen.
KeysStayCapped ==
    lineage # NoLineage =>
        Cardinality(LineageKeys(trusted)) <= lineage.profile.max_verification_keys

\* A receipt that is on the chain can be appended again: the event a retry
\* writes is the one the journal holds.
AppendRetryIsIdempotent ==
    \A r \in receipts, e \in events :
        e.type = "receipt-appended" /\ e.object = r
            => e.details = AppendDetails(r, audit)

\* The registry implements the installed-transition state machine.
Installed == INSTANCE InstalledTransition WITH
    context <- live, model <- serving.model, version <- audit.version,
    past <- KnownHeads

ImplementsInstalledTransition == Installed!Spec
==============================================================================
