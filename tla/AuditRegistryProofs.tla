------------------------- MODULE AuditRegistryProofs -------------------------
(***************************************************************************)
(* What the audit registry keeps true for every number of handles, models, *)
(* probes, policies, rosters and proposals, proved with TLAPS.             *)
(***************************************************************************)
EXTENDS AuditRegistry, DataLemmas, TLAPS

------------------------------------------------------------------------------
(* Type correctness                                                        *)

LEMMA ModelSuccessorType ==
    ASSUME NEW c \in Contexts, c.model_version < UINT32_MAX
    PROVE  /\ ModelSuccessor(c) \in Contexts
           /\ ModelSuccessor(c).twin = c.twin
           /\ ModelSuccessor(c).model_version = c.model_version + 1
           /\ ModelSuccessor(c).state_version = c.state_version
  BY ModelAssumption DEF ModelSuccessor, Contexts

\* No receipt is the genesis head, and each has one of two decisions.
LEMMA ReceiptRow ==
    ASSUME TypeOK, NEW r \in issued
    PROVE  /\ r.candidate \in spent
           /\ r.candidate.context \in contexts
           /\ r.candidate.previous \in KnownHeads
           /\ r.candidate.before \in Models /\ r.candidate.after \in Models
           /\ r.decision \in {"commit", "reject"}
           /\ r # ZeroHash
<1>1. r \in [candidate : spent, probe : Probes, decision : {"commit", "reject"}]
  BY DEF TypeOK
<1>2. r.candidate \in Fixations
  BY <1>1 DEF TypeOK
<1> QED
  BY <1>1, <1>2 DEF Fixations, ZeroHash

\* What CheckAppend knows and does besides the transition itself.
LEMMA InsertRow ==
    ASSUME TypeOK, NEW r \in issued, ExtendsLiveState(r)
    PROVE  /\ r \notin KnownHeads
           /\ KnownHeads' = KnownHeads \cup {r}
           /\ head' = r /\ receipts' = receipts \cup {r}
           /\ r.candidate.context = live /\ r.candidate.previous = head
           /\ r.candidate.context.model_version = audit.version
           /\ serving = [model |-> r.candidate.before, version |-> audit.version]
           /\ manifests' = manifests \cup ManifestRows(r.candidate, r.probe)
  BY ReceiptRow DEF ExtendsLiveState, LiveInput, InsertReceipt, KnownHeads,
     ReserveManifestsLocked, RetireManifests

LEMMA InitType == Init => TypeOK
  BY ModelAssumption DEF Init, TypeOK, KnownHeads, Contexts, Fixations

LEMMA NextType == TypeOK /\ [Next]_vars => TypeOK'
<1> SUFFICES ASSUME TypeOK, [Next]_vars PROVE TypeOK'
  OBVIOUS
<1> USE DEF TypeOK, Fixations, KnownHeads, AppendEvent
<1>1. ASSUME NEW h \in Handles, NEW c \in contexts, Reopen(h, c) PROVE TypeOK'
  BY <1>1 DEF Reopen, contextVars, modelVars, riskVars, Contexts
<1>2. ASSUME NEW h \in Handles, NEW c \in contexts, ReopenWithTrust(h, c) PROVE TypeOK'
  BY <1>2 DEF ReopenWithTrust, contextVars, modelVars, riskVars, Contexts
<1>3. CASE ProvisionVerificationTrust
  BY <1>3 DEF ProvisionVerificationTrust, contextVars, modelVars, riskVars
<1>4. ASSUME NEW h \in Handles, NEW delta \in Envelopes,
             ProvisionLineageRiskBudget(h, delta)
      PROVE TypeOK'
  BY <1>4 DEF ProvisionLineageRiskBudget, contextVars, modelVars, Contexts
<1>5. ASSUME NEW c \in contexts, NEW anchor \in KnownHeads, NEW delta \in Deltas,
             NEW n \in Horizons, RegisterRiskSchedule(Schedule(c, anchor, delta, n))
      PROVE TypeOK'
  BY <1>5 DEF RegisterRiskSchedule, Schedule, contextVars, modelVars
<1>6. ASSUME NEW c \in Candidates, ReserveRiskAllocation(c) PROVE TypeOK'
  BY <1>6 DEF ReserveRiskAllocation, Candidates, contextVars, modelVars
<1>7. ASSUME NEW c \in spent, NEW probe \in Probes, ReserveSourceManifests(c, probe)
      PROVE TypeOK'
  BY <1>7 DEF ReserveSourceManifests, ReserveManifestsLocked, RetireManifests,
              ManifestRows, contextVars, modelVars, riskVars
<1>8. ASSUME NEW c \in spent, NEW r \in Receipts(c), RecordIssuedReceipt(r)
      PROVE TypeOK'
  BY <1>8 DEF RecordIssuedReceipt, Receipts, contextVars, modelVars, riskVars
<1>9. ASSUME NEW r \in issued, AppendCommit(r) PROVE TypeOK'
  <2>1. /\ ModelSuccessor(live) \in Contexts
        /\ ModelSuccessor(live).model_version = live.model_version + 1
    BY <1>9, ModelSuccessorType DEF AppendCommit, VersionAvailable
  <2>2. r.candidate.after \in Models /\ audit.version + 1 \in 0..UINT32_MAX
    BY <1>9, ReceiptRow, InsertRow, ModelAssumption
       DEF AppendCommit, VersionAvailable, Contexts
  <2>3. \A row \in manifests' : row.fixation \in spent' /\ row.probe \in Probes
    BY <1>9, InsertRow DEF AppendCommit, riskVars, ManifestRows
  <2> QED
    BY <1>9, <2>1, <2>2, <2>3, InsertRow DEF AppendCommit, riskVars
<1>10. ASSUME NEW r \in issued, AppendReject(r) PROVE TypeOK'
  <2>1. \A row \in manifests' : row.fixation \in spent' /\ row.probe \in Probes
    BY <1>10, InsertRow DEF AppendReject, riskVars, ManifestRows
  <2> QED
    BY <1>10, <2>1, InsertRow DEF AppendReject, contextVars, riskVars
<1>11. ASSUME NEW r \in issued, RetryAppend(r) PROVE TypeOK'
  BY <1>11 DEF RetryAppend, contextVars, modelVars, riskVars
<1>12. ASSUME NEW s \in Proposals, AuthorizeHandover(s) PROVE TypeOK'
  BY <1>12 DEF AuthorizeHandover, Authorization, contextVars, modelVars, riskVars
<1>13. ASSUME NEW h \in Handles, NEW s \in Proposals, Handover(h, s) PROVE TypeOK'
  BY <1>13, ModelAssumption DEF Handover, ActivateContext, InheritedTrust, Contexts,
       modelVars, riskVars
<1>14. ASSUME NEW h \in Handles, NEW s \in Proposals, HandoverWithTrust(h, s) PROVE TypeOK'
  BY <1>14, ModelAssumption DEF HandoverWithTrust, ActivateContext, Contexts,
       modelVars, riskVars
<1>15. CASE UNCHANGED vars
  BY <1>15 DEF vars, contextVars, modelVars, riskVars
<1> QED
  BY <1>1, <1>2, <1>3, <1>4, <1>5, <1>6, <1>7, <1>8, <1>9, <1>10, <1>11, <1>12,
     <1>13, <1>14, <1>15 DEF Next

\* The registry's tables are well typed in every reachable state, and every row
\* names only receipts, schedules, allocations and contexts it holds as well.
THEOREM TypeCorrect == Spec => []TypeOK
<1>1. Init => TypeOK
  BY InitType
<1>2. TypeOK /\ [Next]_vars => TypeOK'
  BY NextType
<1> QED
  BY <1>1, <1>2, PTL DEF Spec

------------------------------------------------------------------------------
(* The audit chain and its replay                                          *)

\* Seen from the live context, the head and the model, there are four kinds of
\* steps.
LEMMA StepShapes ==
    ASSUME [Next]_vars
    PROVE  \/ UNCHANGED <<contextVars, modelVars>>
           \/ \E r \in issued : AppendCommit(r)
           \/ \E r \in issued : AppendReject(r)
           \/ \E s \in Proposals : /\ HandoverAllowed(s)
                                   /\ \E h \in Handles : ActivateContext(h, s)
<1>1. CASE UNCHANGED vars
  BY <1>1 DEF vars, contextVars, modelVars
<1>2. CASE \E h \in Handles, c \in contexts : Reopen(h, c) \/ ReopenWithTrust(h, c)
  BY <1>2 DEF Reopen, ReopenWithTrust, contextVars, modelVars
<1>3. CASE \/ ProvisionVerificationTrust
           \/ \E h \in Handles, delta \in Envelopes : ProvisionLineageRiskBudget(h, delta)
  BY <1>3 DEF ProvisionVerificationTrust, ProvisionLineageRiskBudget, contextVars, modelVars
<1>4. CASE \E c \in contexts, anchor \in KnownHeads, delta \in Deltas, n \in Horizons :
              RegisterRiskSchedule(Schedule(c, anchor, delta, n))
  <2>1. ASSUME NEW t, RegisterRiskSchedule(t) PROVE UNCHANGED <<contextVars, modelVars>>
    BY <2>1 DEF RegisterRiskSchedule
  <2> QED
    BY <1>4, <2>1
<1>5. CASE \E c \in Candidates : ReserveRiskAllocation(c)
  BY <1>5 DEF ReserveRiskAllocation, contextVars, modelVars
<1>6. CASE \/ \E c \in spent, probe \in Probes : ReserveSourceManifests(c, probe)
           \/ \E c \in spent : \E r \in Receipts(c) : RecordIssuedReceipt(r)
           \/ \E r \in issued : RetryAppend(r)
           \/ \E s \in Proposals : AuthorizeHandover(s)
  BY <1>6 DEF ReserveSourceManifests, RecordIssuedReceipt, RetryAppend,
              AuthorizeHandover, contextVars, modelVars
<1>7. CASE \E h \in Handles, s \in Proposals : Handover(h, s) \/ HandoverWithTrust(h, s)
  BY <1>7 DEF Handover, HandoverWithTrust
<1> QED
  BY <1>1, <1>2, <1>3, <1>4, <1>5, <1>6, <1>7 DEF Next

LEMMA ChainStep ==
    ASSUME TypeOK, ReceiptsFormOneChain, [Next]_vars
    PROVE  ReceiptsFormOneChain'
<1>1. CASE UNCHANGED modelVars
  BY <1>1 DEF ReceiptsFormOneChain, KnownHeads, modelVars
<1>2. ASSUME NEW r \in issued, ExtendsLiveState(r) PROVE ReceiptsFormOneChain'
  <2>1. receipts \subseteq issued
    BY DEF TypeOK
  <2> QED
    BY <1>2, <2>1, InsertRow, ReceiptRow DEF ReceiptsFormOneChain
<1> QED
  BY <1>1, <1>2, StepShapes DEF AppendCommit, AppendReject, ActivateContext, modelVars

\* Replay needs no induction over the chain: each receipt starts where its
\* predecessor ends because the live model always is what the head installs.
LEMMA ReplayStep ==
    ASSUME TypeOK, ReplayReachesServing, [Next]_vars
    PROVE  ReplayReachesServing'
<1> USE DEF ReplayReachesServing
<1>1. CASE UNCHANGED <<contextVars, modelVars>>
  BY <1>1 DEF contextVars, modelVars
<1>2. ASSUME NEW r \in issued, ExtendsLiveState(r)
      PROVE  \A q \in receipts' :
                InstalledAt(q.candidate.previous)
                    = [model |-> q.candidate.before,
                       version |-> q.candidate.context.model_version]
  BY <1>2, InsertRow
<1>3. ASSUME NEW r \in issued, AppendCommit(r) PROVE ReplayReachesServing'
  <2>1. ModelSuccessor(live).model_version = live.model_version + 1
    BY <1>3, ModelSuccessorType DEF AppendCommit, VersionAvailable, TypeOK
  <2>2. InstalledAt(r) = [model |-> r.candidate.after, version |-> audit.version + 1]
    BY <1>3, InsertRow, ReceiptRow DEF AppendCommit, InstalledAt
  <2>3. /\ audit' = InstalledAt(r) /\ serving' = InstalledAt(r)
        /\ live'.model_version = audit.version + 1 /\ head' = r
    BY <1>3, <2>1, <2>2, InsertRow DEF AppendCommit
  <2> QED
    BY <1>2, <1>3, <2>2, <2>3 DEF AppendCommit
<1>4. ASSUME NEW r \in issued, AppendReject(r) PROVE ReplayReachesServing'
  <2>1. InstalledAt(r) = [model |-> r.candidate.before, version |-> audit.version]
    BY <1>4, InsertRow, ReceiptRow DEF AppendReject, InstalledAt
  <2>2. InstalledAt(r) = serving /\ head' = r
    BY <1>4, <2>1, InsertRow DEF AppendReject
  <2> QED
    BY <1>2, <1>4, <2>2 DEF AppendReject, contextVars
<1>5. ASSUME NEW h \in Handles, NEW s \in Proposals, HandoverAllowed(s),
             ActivateContext(h, s)
      PROVE  ReplayReachesServing'
  BY <1>5 DEF HandoverAllowed, ActivateContext, modelVars
<1> QED
  BY <1>1, <1>3, <1>5, <1>4, StepShapes

\* The appended receipts form one chain that ends in the live head.
THEOREM ChainCorrect == Spec => []ReceiptsFormOneChain
<1>1. Init => ReceiptsFormOneChain
  BY DEF Init, ReceiptsFormOneChain, KnownHeads
<1>2. TypeOK /\ ReceiptsFormOneChain /\ [Next]_vars => ReceiptsFormOneChain'
  BY ChainStep
<1> QED
  BY <1>1, <1>2, TypeCorrect, PTL DEF Spec

\* What is served is what a replay of the receipts from genesis installs.
THEOREM ReplayCorrect == Spec => []ReplayReachesServing
<1>1. Init => ReplayReachesServing
  BY DEF Init, ReplayReachesServing, InstalledAt
<1>2. TypeOK /\ ReplayReachesServing /\ [Next]_vars => ReplayReachesServing'
  BY ReplayStep
<1> QED
  BY <1>1, <1>2, TypeCorrect, PTL DEF Spec

------------------------------------------------------------------------------
(* Issued receipts                                                         *)

\* No registered context is ahead of the live one: a handover only moves on.
ContextsAreOlder == \A c \in contexts : c.state_version <= live.state_version

\* The candidate of a receipt that can still be appended starts from the
\* installed model.
LiveIssuesFit ==
    \A r \in issued \ receipts : ~Lapsed(r) => r.candidate.before = audit.model

\* Issued receipts share neither an attempt scope nor an allocation.
IssuedOnce ==
    \A q, r \in issued :
        Scope(q.candidate) = Scope(r.candidate) \/ Slot(q.candidate) = Slot(r.candidate)
            => q = r

LEMMA OlderStep ==
    ASSUME TypeOK, ContextsAreOlder, [Next]_vars
    PROVE  ContextsAreOlder'
<1> USE DEF ContextsAreOlder
<1>1. CASE UNCHANGED <<contextVars, modelVars>>
  BY <1>1 DEF contextVars
<1>2. ASSUME NEW r \in issued, AppendCommit(r) PROVE ContextsAreOlder'
  <2>1. ModelSuccessor(live).state_version = live.state_version
    BY <1>2, ModelSuccessorType DEF AppendCommit, VersionAvailable, TypeOK
  <2>2. live.state_version \in Nat
    BY ModelAssumption DEF TypeOK, Contexts
  <2> QED
    BY <1>2, <2>1, <2>2 DEF AppendCommit
<1>3. ASSUME NEW r \in issued, AppendReject(r) PROVE ContextsAreOlder'
  BY <1>3 DEF AppendReject, contextVars
<1>4. ASSUME NEW h \in Handles, NEW s \in Proposals, HandoverAllowed(s),
             ActivateContext(h, s)
      PROVE  ContextsAreOlder'
  <2>1. /\ s.state_version = live.state_version + 1
        /\ live' = s /\ contexts' = contexts \cup {s}
    BY <1>4 DEF HandoverAllowed, ContinuesLineage, ActivateContext
  <2>2. \A c \in contexts : c.state_version \in Nat
    BY ModelAssumption DEF TypeOK, Contexts
  <2>3. live.state_version \in Nat
    BY <2>2 DEF TypeOK
  <2> QED
    BY <2>1, <2>2, <2>3
<1> QED
  BY <1>1, <1>2, <1>3, <1>4, StepShapes

\* The issuances only grow, and a step that appends or hands over issues nothing.
LEMMA LapsedStep ==
    ASSUME TypeOK, ContextsAreOlder, [Next]_vars,
           NEW r \in issued \ receipts, Lapsed(r)
    PROVE  Lapsed(r)' /\ r \notin receipts'
<1> USE DEF Lapsed
<1>1. CASE UNCHANGED <<contextVars, modelVars>>
  BY <1>1 DEF contextVars, modelVars
<1>2. ASSUME NEW q \in issued, ExtendsLiveState(q)
      PROVE  r.candidate.previous # head' /\ r \notin receipts'
  BY <1>2, InsertRow, ReceiptRow
<1>3. ASSUME NEW h \in Handles, NEW s \in Proposals, HandoverAllowed(s),
             ActivateContext(h, s)
      PROVE  r.candidate.context # live' /\ receipts' = receipts
  <2>1. s.state_version = live.state_version + 1 /\ live' = s
    BY <1>3 DEF HandoverAllowed, ContinuesLineage, ActivateContext
  <2>2. live.state_version \in Nat /\ r.candidate.context \in contexts
    BY ReceiptRow, ModelAssumption DEF TypeOK, Contexts
  <2>3. r.candidate.context.state_version <= live.state_version
    BY <2>2 DEF ContextsAreOlder
  <2> QED
    BY <1>3, <2>1, <2>2, <2>3, ModelAssumption DEF ActivateContext, modelVars, TypeOK, Contexts
<1> QED
  BY <1>1, <1>2, <1>3, StepShapes DEF AppendCommit, AppendReject

\* A receipt that lost its context or its head stays unappendable for ever.
THEOREM LapsedIsFinal == Spec => LapsedStaysLapsed
<1>1. Init => ContextsAreOlder
  BY ModelAssumption DEF Init, ContextsAreOlder, Contexts
<1>2. TypeOK /\ ContextsAreOlder /\ [Next]_vars => ContextsAreOlder'
  BY OlderStep
<1>3. TypeOK /\ ContextsAreOlder /\ [Next]_vars
         => [\A r \in issued \ receipts :
                Lapsed(r) => (Lapsed(r)' /\ r \notin receipts')]_vars
  BY LapsedStep
<1> QED
  BY <1>1, <1>2, <1>3, TypeCorrect, PTL DEF Spec, LapsedStaysLapsed

\* Issuances and retired manifests change in two ways only.
LEMMA TableShapes ==
    ASSUME [Next]_vars
    PROVE  /\ \/ issued' = issued
              \/ \E c \in spent : \E r \in Receipts(c) : RecordIssuedReceipt(r)
           /\ \/ manifests' = manifests
              \/ \E c, probe : ReserveManifestsLocked(c, probe)
<1>1. CASE UNCHANGED vars
  BY <1>1 DEF vars
<1>2. CASE \E h \in Handles, c \in contexts : Reopen(h, c) \/ ReopenWithTrust(h, c)
  BY <1>2 DEF Reopen, ReopenWithTrust
<1>3. CASE \/ ProvisionVerificationTrust
           \/ \E h \in Handles, delta \in Envelopes : ProvisionLineageRiskBudget(h, delta)
  BY <1>3 DEF ProvisionVerificationTrust, ProvisionLineageRiskBudget
<1>4. CASE \E c \in contexts, anchor \in KnownHeads, delta \in Deltas, n \in Horizons :
              RegisterRiskSchedule(Schedule(c, anchor, delta, n))
  <2>1. ASSUME NEW t, RegisterRiskSchedule(t) PROVE UNCHANGED <<issued, manifests>>
    BY <2>1 DEF RegisterRiskSchedule
  <2> QED
    BY <1>4, <2>1
<1>5. CASE \/ \E c \in Candidates : ReserveRiskAllocation(c)
           \/ \E r \in issued : RetryAppend(r)
           \/ \E s \in Proposals : AuthorizeHandover(s)
  BY <1>5 DEF ReserveRiskAllocation, RetryAppend, AuthorizeHandover
<1>6. CASE \E c \in spent, probe \in Probes : ReserveSourceManifests(c, probe)
  BY <1>6 DEF ReserveSourceManifests
<1>7. CASE \E c \in spent : \E r \in Receipts(c) : RecordIssuedReceipt(r)
  BY <1>7 DEF RecordIssuedReceipt
<1>8. ASSUME NEW r \in issued, AppendCommit(r) \/ AppendReject(r)
      PROVE  issued' = issued /\ ReserveManifestsLocked(r.candidate, r.probe)
  BY <1>8 DEF AppendCommit, AppendReject, ExtendsLiveState, InsertReceipt
<1>9. CASE \E h \in Handles, s \in Proposals : Handover(h, s) \/ HandoverWithTrust(h, s)
  BY <1>9 DEF Handover, HandoverWithTrust, ActivateContext
<1> QED
  BY <1>1, <1>2, <1>3, <1>4, <1>5, <1>6, <1>7, <1>8, <1>9 DEF Next

LEMMA IssuedOnceStep ==
    ASSUME IssuedOnce, [Next]_vars
    PROVE  IssuedOnce'
<1>1. CASE issued' = issued
  BY <1>1 DEF IssuedOnce, Scope, Slot
<1>2. ASSUME NEW r, RecordIssuedReceipt(r) PROVE IssuedOnce'
  <2>1. /\ issued' = issued \cup {r}
        /\ \A q \in issued : \/ q = r
                            \/ /\ Scope(q.candidate) # Scope(r.candidate)
                               /\ Slot(q.candidate) # Slot(r.candidate)
    BY <1>2 DEF RecordIssuedReceipt, OwnScope, OwnSlot
  <2> QED
    BY <2>1 DEF IssuedOnce, Scope, Slot
<1> QED
  BY <1>1, <1>2, TableShapes

\* An append or a handover moves the pair (live context, head) to a value that
\* no issued receipt names, so the receipts that fit afterwards fitted before.
LEMMA LiveIssuesStep ==
    ASSUME TypeOK, ContextsAreOlder, LiveIssuesFit, [Next]_vars
    PROVE  LiveIssuesFit'
<1> SUFFICES ASSUME NEW r \in issued', r \notin receipts', ~Lapsed(r)'
             PROVE  r.candidate.before = audit'.model
  BY DEF LiveIssuesFit
<1>1. CASE r \in issued
  <2>1. receipts \subseteq receipts'
    BY StepShapes, InsertRow DEF AppendCommit, AppendReject, ActivateContext, modelVars
  <2>2. r \in issued \ receipts /\ ~Lapsed(r)
    BY <1>1, <2>1, LapsedStep
  <2>3. r.candidate.before = audit.model
    BY <2>2 DEF LiveIssuesFit
  <2>4. ASSUME NEW q \in issued, ExtendsLiveState(q) PROVE FALSE
    BY <1>1, <2>4, InsertRow, ReceiptRow DEF Lapsed
  <2> QED
    BY <2>3, <2>4, StepShapes DEF AppendCommit, AppendReject, ActivateContext, modelVars
<1>2. ASSUME r \notin issued, NEW q, RecordIssuedReceipt(q)
      PROVE  r.candidate.before = audit'.model
  BY <1>2 DEF RecordIssuedReceipt, LiveInput, modelVars
<1> QED
  BY <1>1, <1>2, TableShapes

\* At most one issued receipt can be appended at any moment.
THEOREM OneCoreCompetes == Spec => []OneAppendableCore
<1> DEFINE IInv == ContextsAreOlder /\ LiveIssuesFit /\ IssuedOnce
<1>1. Init => IInv
  BY ModelAssumption DEF Init, ContextsAreOlder, LiveIssuesFit, IssuedOnce, Contexts
<1>2. TypeOK /\ IInv /\ [Next]_vars => IInv'
  BY OlderStep, LiveIssuesStep, IssuedOnceStep
<1>3. IInv => OneAppendableCore
  BY DEF LiveIssuesFit, IssuedOnce, OneAppendableCore, Lapsed, Scope
<1> QED
  BY <1>1, <1>2, <1>3, TypeCorrect, PTL DEF Spec

------------------------------------------------------------------------------
(* Commit evidence                                                         *)

\* A manifest has one owner.
OneOwner ==
    \A x, y \in manifests :
        x.manifest = y.manifest => x.fixation = y.fixation /\ x.probe = y.probe

\* A receipt on the chain has retired its manifests.
ReceiptsRetire ==
    \A r \in receipts : ManifestRows(r.candidate, r.probe) \subseteq manifests

LEMMA OneOwnerStep ==
    ASSUME OneOwner, [Next]_vars
    PROVE  OneOwner' /\ manifests \subseteq manifests'
<1>1. CASE manifests' = manifests
  BY <1>1 DEF OneOwner
<1>2. ASSUME NEW c, NEW probe, ReserveManifestsLocked(c, probe)
      PROVE  OneOwner' /\ manifests \subseteq manifests'
  <2>1. manifests' = manifests \cup ManifestRows(c, probe)
    BY <1>2 DEF ReserveManifestsLocked, RetireManifests
  <2>2. \A x \in ManifestRows(c, probe) :
            x.manifest \in Manifests(probe) /\ x.fixation = c /\ x.probe = probe
    BY DEF ManifestRows
  <2>3. \A x \in manifests :
            x.manifest \in Manifests(probe) => x.fixation = c /\ x.probe = probe
    BY <1>2 DEF ReserveManifestsLocked
  <2> QED
    BY <2>1, <2>2, <2>3 DEF OneOwner
<1> QED
  BY <1>1, <1>2, TableShapes

LEMMA ReceiptsRetireStep ==
    ASSUME TypeOK, OneOwner, ReceiptsRetire, [Next]_vars
    PROVE  ReceiptsRetire'
<1> USE DEF ReceiptsRetire
<1>1. CASE receipts' = receipts
  BY <1>1, OneOwnerStep DEF ManifestRows
<1>2. ASSUME NEW r \in issued, ExtendsLiveState(r) PROVE ReceiptsRetire'
  BY <1>2, InsertRow DEF ManifestRows
<1> QED
  BY <1>1, <1>2, StepShapes DEF AppendCommit, AppendReject, ActivateContext, modelVars

\* No source manifest is evidence for two receipts of the chain.
THEOREM EvidenceCorrect == Spec => []EvidenceIsUsedOnce
<1> DEFINE IInv == OneOwner /\ ReceiptsRetire /\ IssuedOnce
<1>1. Init => IInv
  BY DEF Init, OneOwner, ReceiptsRetire, IssuedOnce
<1>2. TypeOK /\ IInv /\ [Next]_vars => IInv'
  BY OneOwnerStep, ReceiptsRetireStep, IssuedOnceStep
<1>3. TypeOK /\ IInv => EvidenceIsUsedOnce
  <2> SUFFICES ASSUME TypeOK, IInv,
                      NEW q \in receipts, NEW r \in receipts,
                      NEW m \in Manifests(q.probe) \cap Manifests(r.probe)
               PROVE  q = r
    BY DEF EvidenceIsUsedOnce, ReceiptsRetire
  <2> DEFINE row(x) == [manifest |-> m, fixation |-> x.candidate, probe |-> x.probe]
  <2>1. row(q) \in manifests /\ row(r) \in manifests
    BY DEF ReceiptsRetire, ManifestRows
  <2>2. q.candidate = r.candidate
    BY <2>1 DEF OneOwner
  <2>3. q \in issued /\ r \in issued
    BY DEF TypeOK
  <2> QED
    BY <2>2, <2>3 DEF IssuedOnce
<1> QED
  BY <1>1, <1>2, <1>3, TypeCorrect, PTL DEF Spec

------------------------------------------------------------------------------
(* Verification roots                                                      *)

LEMMA TrustStep ==
    ASSUME [Next]_vars, live \in trusted
    PROVE  live' \in trusted'
<1>1. CASE UNCHANGED vars
  BY <1>1 DEF vars, contextVars
<1>2. CASE \E h \in Handles, c \in contexts : Reopen(h, c) \/ ReopenWithTrust(h, c)
  BY <1>2 DEF Reopen, ReopenWithTrust, contextVars
<1>3. CASE ProvisionVerificationTrust
  BY <1>3 DEF ProvisionVerificationTrust, contextVars
<1>4. CASE \E h \in Handles, delta \in Envelopes : ProvisionLineageRiskBudget(h, delta)
  BY <1>4 DEF ProvisionLineageRiskBudget, contextVars
<1>5. CASE \E c \in contexts, anchor \in KnownHeads, delta \in Deltas, n \in Horizons :
              RegisterRiskSchedule(Schedule(c, anchor, delta, n))
  <2>1. ASSUME NEW t, RegisterRiskSchedule(t) PROVE UNCHANGED <<contextVars, trusted>>
    BY <2>1 DEF RegisterRiskSchedule
  <2> QED
    BY <1>5, <2>1 DEF contextVars
<1>6. CASE \E c \in Candidates : ReserveRiskAllocation(c)
  BY <1>6 DEF ReserveRiskAllocation, contextVars
<1>7. CASE \E c \in spent, probe \in Probes : ReserveSourceManifests(c, probe)
  BY <1>7 DEF ReserveSourceManifests, contextVars
<1>8. CASE \E c \in spent : \E r \in Receipts(c) : RecordIssuedReceipt(r)
  <2>1. ASSUME NEW r, RecordIssuedReceipt(r) PROVE UNCHANGED <<contextVars, trusted>>
    BY <2>1 DEF RecordIssuedReceipt
  <2> QED
    BY <1>8, <2>1 DEF contextVars
<1>9. CASE \E r \in issued : RetryAppend(r)
  BY <1>9 DEF RetryAppend, contextVars
<1>10. CASE \E s \in Proposals : AuthorizeHandover(s)
  BY <1>10 DEF AuthorizeHandover, contextVars
<1>11. CASE \E r \in issued : AppendCommit(r) \/ AppendReject(r)
  BY <1>11 DEF AppendCommit, AppendReject, contextVars
<1>12. CASE \E h \in Handles, s \in Proposals : Handover(h, s) \/ HandoverWithTrust(h, s)
  BY <1>12 DEF Handover, HandoverWithTrust, ActivateContext, InheritedTrust
<1> QED
  BY <1>1, <1>2, <1>3, <1>4, <1>5, <1>6, <1>7, <1>8, <1>9, <1>10, <1>11, <1>12 DEF Next

\* Once the live context has roots, no commit and no handover drops them.
THEOREM TrustIsKept == Spec => TrustIsNeverDropped
<1>1. [Next]_vars => [(live \in trusted) => (live' \in trusted')]_vars
  BY TrustStep
<1> QED
  BY <1>1, PTL DEF Spec, TrustIsNeverDropped

------------------------------------------------------------------------------
(* The journal                                                             *)

\* A finite journal makes the number of handovers a number.
HandoversAreFinite == IsFiniteSet(Handovers)

\* An event of another type is no handover, and a handover is at most one more.
LEMMA OtherEvent ==
    ASSUME NEW type, type # "context-handover", NEW c, NEW o, NEW d,
           AppendEvent(type, c, o, d)
    PROVE  Handovers' = Handovers
  BY DEF AppendEvent, Handovers

LEMMA HandoverEvent ==
    ASSUME NEW c, NEW o, NEW d, AppendEvent("context-handover", c, o, d)
    PROVE  \E e : Handovers' = Handovers \cup {e}
<1> DEFINE event == [type |-> "context-handover", context |-> c, object |-> o, details |-> d]
<1>1. Handovers' = Handovers \cup {event}
  BY DEF AppendEvent, Handovers
<1> QED
  BY <1>1

LEMMA HandoversStep ==
    ASSUME TypeOK, HandoversAreFinite, HandoversStayCapped, [Next]_vars
    PROVE  HandoversAreFinite' /\ HandoversStayCapped'
<1> DEFINE Kept == Handovers' = Handovers /\ lineage' = lineage
<1>1. ASSUME Kept PROVE HandoversAreFinite' /\ HandoversStayCapped'
  BY <1>1 DEF HandoversAreFinite, HandoversStayCapped
<1>2. CASE \/ UNCHANGED vars
           \/ \E h \in Handles, c \in contexts : Reopen(h, c) \/ ReopenWithTrust(h, c)
           \/ ProvisionVerificationTrust
           \/ \E s \in Proposals : AuthorizeHandover(s)
  <2>1. events' = events /\ lineage' = lineage
    BY <1>2 DEF vars, riskVars, Reopen, ReopenWithTrust, ProvisionVerificationTrust,
                AuthorizeHandover
  <2> QED
    BY <1>1, <2>1 DEF Handovers
<1>3. ASSUME NEW h \in Handles, NEW delta \in Envelopes,
             ProvisionLineageRiskBudget(h, delta)
      PROVE  HandoversAreFinite' /\ HandoversStayCapped'
  <2>1. Handovers' = Handovers
    BY <1>3, OtherEvent DEF ProvisionLineageRiskBudget
  <2>2. Cardinality(Handovers) <= lineage'.profile.max_handover_count
    BY <1>3 DEF ProvisionLineageRiskBudget
  <2> QED
    BY <2>1, <2>2 DEF HandoversAreFinite, HandoversStayCapped
<1>4. ASSUME NEW t, RegisterRiskSchedule(t)
      PROVE  HandoversAreFinite' /\ HandoversStayCapped'
  <2>1. Kept
    BY <1>4, OtherEvent DEF RegisterRiskSchedule
  <2> QED
    BY <1>1, <2>1
<1>5. CASE \/ \E c \in Candidates : ReserveRiskAllocation(c)
           \/ \E c \in spent, probe \in Probes : ReserveSourceManifests(c, probe)
           \/ \E c \in spent : \E r \in Receipts(c) : RecordIssuedReceipt(r)
           \/ \E r \in issued : AppendCommit(r) \/ AppendReject(r) \/ RetryAppend(r)
  <2>1. Kept
    BY <1>5, OtherEvent DEF ReserveRiskAllocation, ReserveSourceManifests,
       RecordIssuedReceipt, AppendCommit, AppendReject, RetryAppend, riskVars
  <2> QED
    BY <1>1, <2>1
<1>6. ASSUME NEW h \in Handles, NEW s \in Proposals, ContinuesLineage(s),
             ActivateContext(h, s), lineage' = lineage
      PROVE  HandoversAreFinite' /\ HandoversStayCapped'
  <2>1. PICK e : Handovers' = Handovers \cup {e}
    BY <1>6, HandoverEvent DEF ActivateContext
  <2>2. /\ IsFiniteSet(Handovers')
        /\ Cardinality(Handovers) \in Nat
        /\ Cardinality(Handovers') <= Cardinality(Handovers) + 1
    <3>1. IsFiniteSet(Handovers) /\ Cardinality(Handovers) \in Nat
      BY FS_CardinalityType DEF HandoversAreFinite
    <3>2. /\ IsFiniteSet(Handovers \cup {e})
          /\ Cardinality(Handovers \cup {e})
                = IF e \in Handovers THEN Cardinality(Handovers) ELSE Cardinality(Handovers) + 1
      BY <3>1, FS_AddElement
    <3> QED
      BY <2>1, <3>1, <3>2
  <2>3. ASSUME lineage # NoLineage
        PROVE  Cardinality(Handovers') <= lineage.profile.max_handover_count
    <3>1. lineage.profile.max_handover_count \in Nat
      BY <2>3, ProfileAssumption DEF TypeOK
    <3>2. Cardinality(Handovers) < lineage.profile.max_handover_count
      BY <1>6, <2>3 DEF ContinuesLineage, HandoverBelowCap
    <3>3. Cardinality(Handovers') \in Nat
      BY <2>2, FS_CardinalityType
    <3> QED
      BY <2>2, <3>1, <3>2, <3>3
  <2> QED
    BY <1>6, <2>2, <2>3 DEF HandoversAreFinite, HandoversStayCapped, Handovers
<1>7. CASE \E h \in Handles, s \in Proposals : Handover(h, s) \/ HandoverWithTrust(h, s)
  BY <1>6, <1>7 DEF Handover, HandoverWithTrust, HandoverAllowed, ActivateContext, riskVars
<1> QED
  BY <1>1, <1>2, <1>3, <1>4, <1>5, <1>7 DEF Next

\* No interleaving of handovers, retries and reopened handles gives the lineage
\* more handovers than were frozen.
THEOREM HandoversCorrect == Spec => []HandoversStayCapped
<1>1. Init => HandoversAreFinite /\ HandoversStayCapped
  BY FS_EmptySet DEF Init, HandoversAreFinite, HandoversStayCapped, Handovers
<1>2. TypeOK /\ HandoversAreFinite /\ HandoversStayCapped /\ [Next]_vars
         => HandoversAreFinite' /\ HandoversStayCapped'
  BY HandoversStep
<1> QED
  BY <1>1, <1>2, TypeCorrect, PTL DEF Spec

\* An appended event adds its object under its type, and its successor if it
\* reports a commit.
LEMMA JournalGrows ==
    ASSUME NEW type, NEW c, NEW o, NEW d, AppendEvent(type, c, o, d)
    PROVE  /\ Journaled(type)' = Journaled(type) \cup {o}
           /\ \A t : t # type => Journaled(t)' = Journaled(t)
           /\ type # "receipt-appended" \/ o.decision # "commit"
                 => JournaledSuccessors' = JournaledSuccessors
           /\ type = "receipt-appended" /\ o.decision = "commit"
                 => JournaledSuccessors' = JournaledSuccessors \cup {d.successor}
<1> DEFINE event == [type |-> type, context |-> c, object |-> o, details |-> d]
<1>1. /\ events' = events \cup {event}
      /\ event.type = type /\ event.object = o /\ event.details = d
  BY DEF AppendEvent
<1> HIDE DEF event
<1>2. Journaled(type)' = Journaled(type) \cup {o}
  <2>1. o \in Journaled(type)'
    BY <1>1 DEF Journaled
  <2>2. Journaled(type) \subseteq Journaled(type)'
    BY <1>1 DEF Journaled
  <2>3. Journaled(type)' \subseteq Journaled(type) \cup {o}
    BY <1>1 DEF Journaled
  <2> QED
    BY <2>1, <2>2, <2>3
<1>3. \A t : t # type => Journaled(t)' = Journaled(t)
  BY <1>1 DEF Journaled
<1>4. type # "receipt-appended" \/ o.decision # "commit"
         => JournaledSuccessors' = JournaledSuccessors
  BY <1>1 DEF JournaledSuccessors
<1>5. type = "receipt-appended" /\ o.decision = "commit"
         => JournaledSuccessors' = JournaledSuccessors \cup {d.successor}
  <2> SUFFICES ASSUME type = "receipt-appended", o.decision = "commit"
               PROVE  JournaledSuccessors' = JournaledSuccessors \cup {d.successor}
    OBVIOUS
  <2>1. d.successor \in JournaledSuccessors'
    BY <1>1 DEF JournaledSuccessors
  <2>2. JournaledSuccessors \subseteq JournaledSuccessors'
    BY <1>1 DEF JournaledSuccessors
  <2>3. JournaledSuccessors' \subseteq JournaledSuccessors \cup {d.successor}
    BY <1>1 DEF JournaledSuccessors
  <2> QED
    BY <2>1, <2>2, <2>3
<1> QED
  BY <1>2, <1>3, <1>4, <1>5

LEMMA JournalStep ==
    ASSUME TypeOK, JournalRebuildsState, [Next]_vars
    PROVE  JournalRebuildsState'
<1> USE DEF JournalRebuildsState
<1>1. CASE \/ UNCHANGED vars
           \/ \E h \in Handles, c \in contexts : Reopen(h, c) \/ ReopenWithTrust(h, c)
           \/ ProvisionVerificationTrust
           \/ \E s \in Proposals : AuthorizeHandover(s)
  <2>1. UNCHANGED <<events, contexts, lineage, schedules, spent, issued, receipts>>
    BY <1>1 DEF vars, contextVars, modelVars, riskVars, Reopen, ReopenWithTrust,
                ProvisionVerificationTrust, AuthorizeHandover
  <2> QED
    BY <2>1 DEF Journaled, JournaledSuccessors
<1>2. ASSUME NEW h \in Handles, NEW delta \in Envelopes,
             ProvisionLineageRiskBudget(h, delta)
      PROVE  JournalRebuildsState'
  <2>1. lineage' # NoLineage
    BY <1>2 DEF ProvisionLineageRiskBudget, NoLineage
  <2> QED
    BY <1>2, <2>1, JournalGrows DEF ProvisionLineageRiskBudget, contextVars, modelVars
<1>3. ASSUME NEW s, RegisterRiskSchedule(s) PROVE JournalRebuildsState'
  BY <1>3, JournalGrows DEF RegisterRiskSchedule, contextVars, modelVars
<1>4. ASSUME NEW c \in Candidates, ReserveRiskAllocation(c) PROVE JournalRebuildsState'
  BY <1>4, JournalGrows DEF ReserveRiskAllocation, contextVars, modelVars
<1>5. ASSUME NEW c \in spent, NEW probe \in Probes, ReserveSourceManifests(c, probe)
      PROVE JournalRebuildsState'
  BY <1>5, JournalGrows DEF ReserveSourceManifests, contextVars, modelVars, riskVars
<1>6. ASSUME NEW c \in spent, NEW r \in Receipts(c), RecordIssuedReceipt(r)
      PROVE JournalRebuildsState'
  BY <1>6, JournalGrows DEF RecordIssuedReceipt, contextVars, modelVars, riskVars
<1>7. ASSUME NEW r \in issued, AppendCommit(r) PROVE JournalRebuildsState'
  <2> DEFINE installed == [model |-> r.candidate.after, version |-> audit.version + 1]
  <2>1. AppendDetails(r, installed).successor = ModelSuccessor(live)
    BY <1>7, InsertRow DEF AppendCommit, AppendDetails
  <2>2. /\ receipts' = receipts \cup {r} /\ contexts' = contexts \cup {ModelSuccessor(live)}
        /\ r.decision = "commit" /\ UNCHANGED <<riskVars, issued>>
        /\ AppendEvent("receipt-appended", r.candidate.context, r, AppendDetails(r, installed))
    BY <1>7, InsertRow DEF AppendCommit
  <2> QED
    BY <2>1, <2>2, JournalGrows DEF riskVars
<1>8. ASSUME NEW r \in issued, AppendReject(r) PROVE JournalRebuildsState'
  <2>1. /\ receipts' = receipts \cup {r} /\ r.decision # "commit"
        /\ UNCHANGED <<contexts, riskVars, issued>>
        /\ AppendEvent("receipt-appended", r.candidate.context, r, AppendDetails(r, audit))
    BY <1>8, InsertRow DEF AppendReject, contextVars
  <2> QED
    BY <2>1, JournalGrows DEF riskVars
\* The retry's event has to be the one that is there.
<1>9. ASSUME NEW r \in issued, RetryAppend(r) PROVE JournalRebuildsState'
  <2>1. PICK e \in events : e.type = "receipt-appended" /\ e.object = r
    BY <1>9 DEF RetryAppend, Journaled
  <2>2. events' = events
    BY <1>9, <2>1 DEF RetryAppend, AppendEvent
  <2> QED
    BY <1>9, <2>2 DEF RetryAppend, contextVars, modelVars, riskVars, Journaled,
       JournaledSuccessors
<1>10. ASSUME NEW h \in Handles, NEW s \in Proposals, ActivateContext(h, s),
              UNCHANGED riskVars
       PROVE  JournalRebuildsState'
  BY <1>10, JournalGrows DEF ActivateContext, modelVars, riskVars
<1>11. CASE \E h \in Handles, s \in Proposals : Handover(h, s) \/ HandoverWithTrust(h, s)
  BY <1>10, <1>11 DEF Handover, HandoverWithTrust, ActivateContext
<1> QED
  BY <1>1, <1>2, <1>3, <1>4, <1>5, <1>6, <1>7, <1>8, <1>9, <1>11 DEF Next

\* The journal alone determines the schedules, allocations, issuances, receipts
\* and contexts, whatever was retried.
THEOREM JournalCorrect == Spec => []JournalRebuildsState
<1>1. Init => JournalRebuildsState
  BY DEF Init, JournalRebuildsState, Journaled, JournaledSuccessors
<1>2. TypeOK /\ JournalRebuildsState /\ [Next]_vars => JournalRebuildsState'
  BY JournalStep
<1> QED
  BY <1>1, <1>2, TypeCorrect, PTL DEF Spec

------------------------------------------------------------------------------
(* The risk envelope                                                       *)

\* The two sums of the envelope as numbers of marks.  Only the weight differs.
LEMMA AttemptsAreMarks ==
    ASSUME NEW ss, IsFiniteSet(ss), \A s \in ss : s.slots \in Nat
    PROVE  Attempts(ss) = Cardinality(Marks([s \in ss |-> s.slots], ss))
<1> DEFINE w == [s \in ss |-> s.slots]
           Sums(f) == f = [s \in SUBSET ss |-> IF s = {} THEN 0
                             ELSE LET x == CHOOSE x \in s : TRUE
                                  IN  x.slots + f[s \ {x}]]
           iter == CHOOSE f : Sums(f)
<1>1. \A f : Sums(f) <=> IsSum(f, w, ss)
  BY DEF IsSum
<1>2. Attempts(ss) = iter[ss]
  BY DEF Attempts, MapThenSumSet, MapThenFoldSet
<1>3. \A x \in ss : w[x] \in Nat
  OBVIOUS
<1> HIDE DEF Sums, w
<1>4. Sums(iter)
  BY <1>1, <1>3, CountIsSum
<1> HIDE DEF iter
<1> QED
  BY <1>1, <1>2, <1>3, <1>4, SumIsCount DEF w

LEMMA BudgetedAreMarks ==
    ASSUME NEW ss, IsFiniteSet(ss), \A s \in ss : s.delta \in Nat
    PROVE  Budgeted(ss) = Cardinality(Marks([s \in ss |-> s.delta], ss))
<1> DEFINE w == [s \in ss |-> s.delta]
           Sums(f) == f = [s \in SUBSET ss |-> IF s = {} THEN 0
                             ELSE LET x == CHOOSE x \in s : TRUE
                                  IN  x.delta + f[s \ {x}]]
           iter == CHOOSE f : Sums(f)
<1>1. \A f : Sums(f) <=> IsSum(f, w, ss)
  BY DEF IsSum
<1>2. Budgeted(ss) = iter[ss]
  BY DEF Budgeted, MapThenSumSet, MapThenFoldSet
<1>3. \A x \in ss : w[x] \in Nat
  OBVIOUS
<1> HIDE DEF Sums, w
<1>4. Sums(iter)
  BY <1>1, <1>3, CountIsSum
<1> HIDE DEF iter
<1> QED
  BY <1>1, <1>2, <1>3, <1>4, SumIsCount DEF w

\* No schedules add up to nothing, and one more adds its own share.
LEMMA SumsOfNone == Attempts({}) = 0 /\ Budgeted({}) = 0
<1>1. \A w : Marks(w, {}) = {}
  BY DEF Marks
<1> QED
  BY <1>1, AttemptsAreMarks, BudgetedAreMarks, FS_EmptySet

LEMMA SumsGrow ==
    ASSUME NEW ss, IsFiniteSet(ss), NEW t, t \notin ss,
           \A s \in ss \cup {t} : s.slots \in Nat /\ s.delta \in Nat
    PROVE  /\ Attempts(ss \cup {t}) = Attempts(ss) + t.slots /\ Attempts(ss) \in Nat
           /\ Budgeted(ss \cup {t}) = Budgeted(ss) + t.delta /\ Budgeted(ss) \in Nat
<1> DEFINE tt == ss \cup {t}
<1>1. IsFiniteSet(tt)
  BY FS_AddElement
<1>2. ASSUME NEW v, NEW w, \A x \in tt : w[x] \in Nat, \A x \in ss : v[x] = w[x]
      PROVE  /\ Cardinality(Marks(w, tt)) = w[t] + Cardinality(Marks(v, ss))
             /\ Cardinality(Marks(v, ss)) \in Nat
  <2>1. Marks(v, ss) = Marks(w, ss)
    BY <1>2 DEF Marks
  <2>2. IsFiniteSet(Marks(w, ss))
    BY <1>2, MarksFinite
  <2>3. Cardinality(Marks(w, tt)) = w[t] + Cardinality(Marks(w, ss))
    BY <1>2, <2>2, MarksAdd
  <2>4. Cardinality(Marks(w, ss)) \in Nat
    BY <2>2, FS_CardinalityType
  <2> QED
    BY <2>1, <2>3, <2>4, Zenon
<1>3. Attempts(tt) = t.slots + Attempts(ss) /\ Attempts(ss) \in Nat
  <2> DEFINE w == [s \in tt |-> s.slots]
             v == [s \in ss |-> s.slots]
  <2>1. Attempts(tt) = Cardinality(Marks(w, tt)) /\ Attempts(ss) = Cardinality(Marks(v, ss))
    BY <1>1, AttemptsAreMarks
  <2>2. /\ \A x \in tt : w[x] \in Nat
        /\ \A x \in ss : v[x] = w[x]
        /\ w[t] = t.slots
    OBVIOUS
  <2> HIDE DEF w, v, tt
  <2> QED
    BY <1>2, <2>1, <2>2
<1>4. Budgeted(tt) = t.delta + Budgeted(ss) /\ Budgeted(ss) \in Nat
  <2> DEFINE w == [s \in tt |-> s.delta]
             v == [s \in ss |-> s.delta]
  <2>1. Budgeted(tt) = Cardinality(Marks(w, tt)) /\ Budgeted(ss) = Cardinality(Marks(v, ss))
    BY <1>1, BudgetedAreMarks
  <2>2. /\ \A x \in tt : w[x] \in Nat
        /\ \A x \in ss : v[x] = w[x]
        /\ w[t] = t.delta
    OBVIOUS
  <2> HIDE DEF w, v, tt
  <2> QED
    BY <1>2, <2>1, <2>2
<1> QED
  BY <1>3, <1>4

\* What the registry keeps true of schedules and allocations: the schedules fit
\* into the envelope, every allocation is a slot of its schedule and has one owner,
\* and every issued receipt has a slot of its own.
EnvelopeInvariant ==
    /\ IsFiniteSet(schedules)
    /\ schedules # {} => lineage # NoLineage
    /\ lineage # NoLineage => /\ Attempts(schedules) <= lineage.profile.max_attempts
                              /\ Budgeted(schedules) <= lineage.delta
    /\ \A c \in spent : c.schedule \in schedules /\ c.index < c.schedule.slots
    /\ \A c, d \in spent : Slot(c) = Slot(d) => c = d
    /\ \A q, r \in issued : Slot(q.candidate) = Slot(r.candidate) => q = r

\* Allocations are marks of the schedules, so there are no more of them.
LEMMA SpentFits ==
    ASSUME TypeOK, EnvelopeInvariant
    PROVE  RiskStaysInEnvelope
<1> DEFINE w == [s \in schedules |-> s.slots]
           place == [c \in spent |-> <<c.schedule, c.index + 1>>]
<1>1. \A s \in schedules : s.slots \in Nat
  BY ModelAssumption DEF TypeOK
<1>2. /\ Attempts(schedules) = Cardinality(Marks(w, schedules))
      /\ IsFiniteSet(Marks(w, schedules))
  BY <1>1, AttemptsAreMarks, MarksFinite DEF EnvelopeInvariant
<1>3. place \in Injection(spent, Marks(w, schedules))
  <2>1. ASSUME NEW c \in spent PROVE place[c] \in Marks(w, schedules)
    BY <1>1 DEF EnvelopeInvariant, TypeOK, Fixations, Marks
  <2>2. \A c, d \in spent : place[c] = place[d] => c = d
    BY DEF EnvelopeInvariant, TypeOK, Fixations, Slot
  <2> QED
    BY <2>1, <2>2 DEF Injection, IsInjective
<1>4. Cardinality(spent) <= Attempts(schedules) /\ Cardinality(spent) \in Nat
      /\ Attempts(schedules) \in Nat
  BY <1>2, <1>3, FS_Injection, FS_CardinalityType
<1>5. lineage # NoLineage => lineage.profile.max_attempts \in Nat
  BY ProfileAssumption DEF TypeOK
<1> QED
  BY <1>4, <1>5 DEF EnvelopeInvariant, RiskStaysInEnvelope

LEMMA EnvelopeStep ==
    ASSUME TypeOK, EnvelopeInvariant, [Next]_vars
    PROVE  EnvelopeInvariant'
<1> USE DEF EnvelopeInvariant
<1>1. ASSUME UNCHANGED <<riskVars, issued>> PROVE EnvelopeInvariant'
  BY <1>1 DEF riskVars, Slot
<1>2. ASSUME NEW h \in Handles, NEW delta \in Envelopes,
             ProvisionLineageRiskBudget(h, delta)
      PROVE  EnvelopeInvariant'
  <2>1. lineage' # NoLineage /\ UNCHANGED <<schedules, spent, issued>>
    BY <1>2 DEF ProvisionLineageRiskBudget, NoLineage
  <2>2. lineage'.profile.max_attempts \in Nat /\ lineage'.delta \in Nat
    BY <1>2, ModelAssumption, ProfileAssumption DEF ProvisionLineageRiskBudget, TypeOK
  <2>3. CASE lineage = NoLineage /\ schedules = {}
    BY <2>1, <2>2, <2>3, SumsOfNone DEF Slot
  <2>4. CASE lineage # NoLineage /\ lineage' = lineage
    BY <2>1, <2>4 DEF Slot
  <2> QED
    BY <1>2, <2>1, <2>3, <2>4 DEF ProvisionLineageRiskBudget
<1>3. ASSUME NEW c \in contexts, NEW anchor \in KnownHeads, NEW delta \in Deltas,
             NEW n \in Horizons, RegisterRiskSchedule(Schedule(c, anchor, delta, n))
      PROVE  EnvelopeInvariant'
  <2> DEFINE t == Schedule(c, anchor, delta, n)
  <2>1. /\ UNCHANGED <<lineage, spent, issued>> /\ schedules' = schedules \cup {t}
        /\ t \in schedules \/ (lineage # NoLineage /\ FitsEnvelope(t) /\ t \notin schedules)
    BY <1>3 DEF RegisterRiskSchedule
  <2>2. CASE t \in schedules
    <3>1. schedules' = schedules
      BY <2>1, <2>2
    <3> QED
      BY <1>1, <2>1, <3>1 DEF riskVars
  <2>3. CASE lineage # NoLineage /\ FitsEnvelope(t) /\ t \notin schedules
    <3>1. \A s \in schedules \cup {t} : s.slots \in Nat /\ s.delta \in Nat
      BY ModelAssumption DEF TypeOK, Schedule
    <3> HIDE DEF t
    <3>2. /\ Attempts(schedules') = Attempts(schedules) + t.slots
          /\ Budgeted(schedules') = Budgeted(schedules) + t.delta
      BY <2>1, <2>3, <3>1, SumsGrow
    <3>3. IsFiniteSet(schedules')
      BY <2>1, FS_AddElement
    <3> QED
      BY <2>1, <2>3, <3>2, <3>3 DEF FitsEnvelope, Slot
  <2> QED
    BY <2>1, <2>2, <2>3
<1>4. ASSUME NEW c \in Candidates, ReserveRiskAllocation(c) PROVE EnvelopeInvariant'
  <2>1. /\ c.schedule \in schedules /\ c.index < c.schedule.slots
        /\ spent' = spent \cup {c} /\ UNCHANGED <<lineage, schedules, issued>>
        /\ \A d \in spent : Slot(d) = Slot(c) => d = c
    BY <1>4 DEF ReserveRiskAllocation, Candidates
  <2> QED
    BY <2>1 DEF Slot
<1>5. ASSUME NEW c \in spent, NEW r \in Receipts(c), RecordIssuedReceipt(r)
      PROVE EnvelopeInvariant'
  <2>1. /\ issued' = issued \cup {r} /\ UNCHANGED riskVars
        /\ \A q \in issued : q = r \/ Slot(q.candidate) # Slot(r.candidate)
    BY <1>5 DEF RecordIssuedReceipt, OwnScope, OwnSlot
  <2> QED
    BY <2>1 DEF riskVars, Slot
<1>6. CASE \/ UNCHANGED vars
           \/ \E h \in Handles, c \in contexts : Reopen(h, c) \/ ReopenWithTrust(h, c)
           \/ ProvisionVerificationTrust
           \/ \E c \in spent, probe \in Probes : ReserveSourceManifests(c, probe)
           \/ \E r \in issued : AppendCommit(r) \/ AppendReject(r) \/ RetryAppend(r)
           \/ \E s \in Proposals : AuthorizeHandover(s)
           \/ \E h \in Handles, s \in Proposals : Handover(h, s) \/ HandoverWithTrust(h, s)
  BY <1>1, <1>6 DEF vars, Reopen, ReopenWithTrust, ProvisionVerificationTrust,
     ReserveSourceManifests, AppendCommit, AppendReject, RetryAppend, AuthorizeHandover,
     Handover, HandoverWithTrust, ActivateContext
<1> QED
  BY <1>2, <1>3, <1>4, <1>5, <1>6 DEF Next

\* Whatever interleaving of provisioning, schedules, allocations, handovers and
\* reopened registries: the lifetime budget and the attempts of the lineage are
\* never exceeded, and no two receipts are issued for one allocation.
THEOREM EnvelopeCorrect == Spec => []RiskStaysInEnvelope
<1>1. Init => EnvelopeInvariant
  BY FS_EmptySet DEF Init, EnvelopeInvariant
<1>2. TypeOK /\ EnvelopeInvariant /\ [Next]_vars => EnvelopeInvariant'
  BY EnvelopeStep
<1>3. TypeOK /\ EnvelopeInvariant => RiskStaysInEnvelope
  BY SpentFits
<1> QED
  BY <1>1, <1>2, <1>3, TypeCorrect, PTL DEF Spec

------------------------------------------------------------------------------
(* Refinement                                                              *)

LEMMA InstalledStep ==
    ASSUME TypeOK, TypeOK', ReplayReachesServing, [Next]_vars
    PROVE  [Installed!Next]_Installed!vars
<1> USE DEF Installed!vars
<1>1. CASE UNCHANGED <<contextVars, modelVars>>
  BY <1>1 DEF contextVars, modelVars, KnownHeads
<1>2. ASSUME NEW r \in issued, ExtendsLiveState(r) PROVE Installed!NewHead
  BY <1>2, InsertRow DEF Installed!NewHead
<1>3. ASSUME NEW r \in issued, AppendCommit(r) PROVE Installed!Commit
  <2>1. live.model_version = audit.version
    BY DEF ReplayReachesServing
  <2>2. live' = [live EXCEPT !.model_version = audit.version + 1]
    BY <1>3, <2>1 DEF AppendCommit, ModelSuccessor, TypeOK, Contexts
  <2> QED
    BY <1>2, <1>3, <2>2, ReceiptRow DEF AppendCommit, Installed!Commit
<1>4. ASSUME NEW r \in issued, AppendReject(r) PROVE Installed!Reject
  BY <1>2, <1>4 DEF AppendReject, Installed!Reject, contextVars
<1>5. ASSUME NEW h \in Handles, NEW s \in Proposals, HandoverAllowed(s),
             ActivateContext(h, s)
      PROVE  Installed!Handover
  BY <1>5, ModelAssumption DEF HandoverAllowed, ContinuesLineage, ActivateContext, modelVars,
     Installed!Handover, KnownHeads
<1> QED
  BY <1>1, <1>3, <1>4, <1>5, StepShapes DEF Installed!Next

\* The registry, with its journal, budgets, retries and reopened handles,
\* implements the state machine of installed transitions.
THEOREM RegistryImplementsInstalled == Spec => ImplementsInstalledTransition
<1>1. Init => Installed!Init
  BY DEF Init, Installed!Init, KnownHeads
<1>2. TypeOK /\ TypeOK' /\ ReplayReachesServing /\ [Next]_vars
         => [Installed!Next]_Installed!vars
  BY InstalledStep
<1> QED
  BY <1>1, <1>2, TypeCorrect, ReplayCorrect, PTL
     DEF Spec, ImplementsInstalledTransition, Installed!Spec

\* The evidence of the chain: each receipt is judged by one probe.
Certified ==
    {[fixation |-> [slot |-> Slot(r.candidate), candidate |-> r.candidate],
      probe |-> r.probe] : r \in receipts}

Evidence == INSTANCE OneUse WITH
    Sources <- [p \in Probes |-> Manifests(p)], used <- Certified

LEMMA CertifiedStep ==
    ASSUME TypeOK, TypeOK', IssuedOnce', OneOwner', ReceiptsRetire', [Next]_vars
    PROVE  [Evidence!Use]_Certified
<1> DEFINE use(r) == [fixation |-> [slot |-> Slot(r.candidate), candidate |-> r.candidate],
                      probe |-> r.probe]
<1>1. CASE receipts' = receipts
  BY <1>1 DEF Certified, Slot
<1>2. ASSUME NEW r \in issued, ExtendsLiveState(r) PROVE Evidence!Use
  <2>1. /\ receipts' = receipts \cup {r}
        /\ \A q \in receipts : Slot(q.candidate) # Slot(r.candidate)
    BY <1>2 DEF ExtendsLiveState, InsertReceipt
  <2>2. Certified' = Certified \cup {use(r)}
    BY <2>1 DEF Certified, Slot
  <2>3. \A q \in receipts : use(q).fixation.slot # use(r).fixation.slot
    BY <2>1
  <2>4. \A q \in receipts : Manifests(q.probe) \cap Manifests(r.probe) = {}
    <3> SUFFICES ASSUME NEW q \in receipts,
                        NEW m \in Manifests(q.probe) \cap Manifests(r.probe)
                 PROVE  FALSE
      OBVIOUS
    <3> DEFINE row(x) == [manifest |-> m, fixation |-> x.candidate, probe |-> x.probe]
    <3>1. row(q) \in manifests' /\ row(r) \in manifests'
      BY <2>1 DEF ReceiptsRetire, ManifestRows
    <3>2. q.candidate = r.candidate
      BY <3>1 DEF OneOwner
    <3> QED
      BY <2>1, <3>2
  <2>5. r.probe \in Probes /\ \A q \in receipts : q.probe \in Probes
    BY DEF TypeOK
  <2>6. \A v \in Certified : \E q \in receipts : v = use(q)
    BY DEF Certified
  <2>7. use(r) \in Certified' \ Certified
    BY <2>2, <2>3, <2>6
  <2>8. \A v \in Certified :
           /\ v.fixation # use(r).fixation
           /\ v.fixation.slot # use(r).fixation.slot
           /\ [p \in Probes |-> Manifests(p)][v.probe]
                 \cap [p \in Probes |-> Manifests(p)][use(r).probe] = {}
    BY <2>3, <2>4, <2>5, <2>6
  <2> QED
    BY <2>2, <2>7, <2>8 DEF Evidence!Use
<1> QED
  BY <1>1, <1>2, StepShapes DEF AppendCommit, AppendReject, ActivateContext, modelVars

\* The chain uses evidence as the release of probes promises it: an allocation
\* judges one candidate, by one probe, and no source manifest judges two,
\* although a receipt is issued in one transaction and appended in a later one.
THEOREM RegistryIsOneUse == Spec => Evidence!Spec
<1> DEFINE IInv == OneOwner /\ ReceiptsRetire /\ IssuedOnce
<1>1. Init => IInv /\ Evidence!Init
  BY DEF Init, OneOwner, ReceiptsRetire, IssuedOnce, Evidence!Init, Certified
<1>2. TypeOK /\ IInv /\ [Next]_vars => IInv'
  BY OneOwnerStep, ReceiptsRetireStep, IssuedOnceStep
<1>3. TypeOK /\ TypeOK' /\ IInv' /\ [Next]_vars => [Evidence!Use]_Certified
  BY CertifiedStep
<1> QED
  BY <1>1, <1>2, <1>3, TypeCorrect, PTL DEF Spec, Evidence!Spec

------------------------------------------------------------------------------
(* What the findings are about, and no more                                *)

\* An append can be repeated until the next commit: its event tells the version
\* that was installed when it was written, and one of the present version is the
\* event a retry writes now.  The newest receipt has such an event.
RepeatableUntilCommit ==
    \A e \in events : e.type = "receipt-appended" =>
        /\ e.details.version \in 0..audit.version
        /\ e.details.version = audit.version => e.details = AppendDetails(e.object, audit)
        /\ e.object = head => e.details.version = audit.version

\* While head and installed model stay, every event is of another type or is
\* what a retry writes now.
LEMMA EventsOfVersion ==
    ASSUME TypeOK, RepeatableUntilCommit, UNCHANGED <<head, audit>>,
           NEW type, NEW c, NEW o, NEW d, AppendEvent(type, c, o, d),
           type # "receipt-appended" \/ d = AppendDetails(o, audit)
    PROVE  RepeatableUntilCommit'
<1> DEFINE event == [type |-> type, context |-> c, object |-> o, details |-> d]
<1>1. /\ events' = events \cup {event}
      /\ event.type = type /\ event.object = o /\ event.details = d
  BY DEF AppendEvent
<1>2. \A r : AppendDetails(r, audit)' = AppendDetails(r, audit)
  BY DEF AppendDetails, ModelSuccessor
<1>3. AppendDetails(o, audit).version \in 0..audit.version
  BY ModelAssumption DEF TypeOK, AppendDetails
<1>4. AppendDetails(o, audit).version = audit.version
  BY DEF AppendDetails
<1> HIDE DEF event
<1> QED
  BY <1>1, <1>2, <1>3, <1>4 DEF RepeatableUntilCommit

LEMMA RepeatableStep ==
    ASSUME TypeOK, TypeOK', RepeatableUntilCommit, [Next]_vars
    PROVE  RepeatableUntilCommit'
<1>1. CASE \/ UNCHANGED vars
           \/ \E h \in Handles, c \in contexts : Reopen(h, c) \/ ReopenWithTrust(h, c)
           \/ ProvisionVerificationTrust
           \/ \E s \in Proposals : AuthorizeHandover(s)
  <2>1. UNCHANGED <<events, head, audit>>
    BY <1>1 DEF vars, modelVars, Reopen, ReopenWithTrust, ProvisionVerificationTrust,
                AuthorizeHandover
  <2> QED
    BY <2>1 DEF RepeatableUntilCommit, AppendDetails, ModelSuccessor
<1>2. CASE \E h \in Handles, delta \in Envelopes : ProvisionLineageRiskBudget(h, delta)
  BY <1>2, EventsOfVersion DEF ProvisionLineageRiskBudget, modelVars
<1>3. ASSUME NEW t, RegisterRiskSchedule(t) PROVE RepeatableUntilCommit'
  BY <1>3, EventsOfVersion DEF RegisterRiskSchedule, modelVars
<1>4. CASE \/ \E c \in Candidates : ReserveRiskAllocation(c)
           \/ \E c \in spent, probe \in Probes : ReserveSourceManifests(c, probe)
           \/ \E c \in spent : \E r \in Receipts(c) : RecordIssuedReceipt(r)
  BY <1>4, EventsOfVersion DEF ReserveRiskAllocation, ReserveSourceManifests,
     RecordIssuedReceipt, modelVars
<1>5. CASE \E r \in issued : RetryAppend(r)
  BY <1>5, EventsOfVersion DEF RetryAppend, modelVars
\* A new receipt: every earlier event keeps its version, which a commit leaves
\* behind and a reject does not.
<1>6. ASSUME NEW r \in issued, ExtendsLiveState(r),
             AppendEvent("receipt-appended", r.candidate.context, r,
                         AppendDetails(r, audit')),
             audit' = audit \/ audit'.version = audit.version + 1
      PROVE  RepeatableUntilCommit'
  <2> DEFINE event == [type |-> "receipt-appended", context |-> r.candidate.context,
                       object |-> r, details |-> AppendDetails(r, audit')]
  <2>1. head' = r
    BY <1>6, InsertRow
  <2>2. /\ \A e \in events : e.type = "receipt-appended" /\ e.object = r => e = event
        /\ events' = events \cup {event}
    BY <1>6 DEF AppendEvent
  <2>3. \A q : AppendDetails(q, audit)' = AppendDetails(q, audit')
    BY DEF AppendDetails, ModelSuccessor
  <2>4. audit.version \in Nat /\ audit'.version \in Nat
    BY ModelAssumption DEF TypeOK
  <2>5. event.details.version = audit'.version
    BY DEF AppendDetails
  <2>6. ASSUME NEW e \in events, e.type = "receipt-appended"
        PROVE  /\ e.details.version \in 0..audit'.version
               /\ e.details.version = audit'.version
                     => e.details = AppendDetails(e.object, audit')
    BY <1>6, <2>4, <2>6 DEF RepeatableUntilCommit
  <2>7. \A e \in events' : e.type = "receipt-appended" =>
            /\ e.details.version \in 0..audit'.version
            /\ e.details.version = audit'.version
                  => e.details = AppendDetails(e.object, audit')
            /\ e.object = r => e.details.version = audit'.version
    BY <2>2, <2>4, <2>5, <2>6
  <2> QED
    BY <2>1, <2>3, <2>7 DEF RepeatableUntilCommit
<1>7. CASE \E r \in issued : AppendCommit(r) \/ AppendReject(r)
  BY <1>6, <1>7 DEF AppendCommit, AppendReject
<1>8. CASE \E h \in Handles, s \in Proposals : Handover(h, s) \/ HandoverWithTrust(h, s)
  BY <1>8, EventsOfVersion DEF Handover, HandoverWithTrust, ActivateContext, modelVars
<1> QED
  BY <1>1, <1>2, <1>3, <1>4, <1>5, <1>7, <1>8 DEF Next

\* A caller that lost the answer to an append can repeat it until the next
\* commit, whatever rejects and handovers come first: the conflict that
\* AppendRetryIsIdempotent reports needs a later commit.
THEOREM AppendsRepeatUntilCommit == Spec => []RepeatableUntilCommit
<1>1. Init => RepeatableUntilCommit
  BY DEF Init, RepeatableUntilCommit
<1>2. TypeOK /\ TypeOK' /\ RepeatableUntilCommit /\ [Next]_vars => RepeatableUntilCommit'
  BY RepeatableStep
<1> QED
  BY <1>1, <1>2, TypeCorrect, PTL DEF Spec

\* The key cap holds until the constructor stores roots with keys that the
\* lineage does not have.
OnlyReopeningPassesTheCap ==
    [][KeysStayCapped =>
          \/ KeysStayCapped'
          \/ \E h \in Handles, c \in contexts :
                /\ ReopenWithTrust(h, c)
                /\ ~(Keys(c.authority) \subseteq LineageKeys(trusted))]_vars

LEMMA CapStep ==
    ASSUME TypeOK, KeysStayCapped, [Next]_vars
    PROVE  \/ KeysStayCapped'
           \/ \E h \in Handles, c \in contexts :
                 /\ ReopenWithTrust(h, c)
                 /\ ~(Keys(c.authority) \subseteq LineageKeys(trusted))
<1> USE DEF KeysStayCapped
<1>1. ASSUME LineageKeys(trusted') = LineageKeys(trusted), lineage' = lineage
      PROVE  KeysStayCapped'
  BY <1>1 DEF LineageKeys
<1>2. ASSUME NEW c, trusted' = trusted \cup {c},
             Keys(c.authority) \subseteq LineageKeys(trusted)
      PROVE  LineageKeys(trusted') = LineageKeys(trusted)
  BY <1>2 DEF LineageKeys
<1>3. CASE \/ UNCHANGED vars
           \/ \E h \in Handles, c \in contexts : Reopen(h, c)
           \/ \E c \in Candidates : ReserveRiskAllocation(c)
           \/ \E c \in spent, probe \in Probes : ReserveSourceManifests(c, probe)
           \/ \E c \in spent : \E r \in Receipts(c) : RecordIssuedReceipt(r)
           \/ \E r \in issued : AppendReject(r) \/ RetryAppend(r)
           \/ \E s \in Proposals : AuthorizeHandover(s)
  <2>1. trusted' = trusted /\ lineage' = lineage
    BY <1>3 DEF vars, riskVars, Reopen, ReserveRiskAllocation, ReserveSourceManifests,
       RecordIssuedReceipt, AppendReject, RetryAppend, AuthorizeHandover
  <2> QED
    BY <1>1, <2>1
<1>4. ASSUME NEW t, RegisterRiskSchedule(t) PROVE KeysStayCapped'
  BY <1>1, <1>4 DEF RegisterRiskSchedule
<1>5. ASSUME NEW h \in Handles, NEW c \in contexts, ReopenWithTrust(h, c),
             Keys(c.authority) \subseteq LineageKeys(trusted)
      PROVE  KeysStayCapped'
  BY <1>1, <1>2, <1>5 DEF ReopenWithTrust, riskVars
<1>6. CASE ProvisionVerificationTrust
  BY <1>6 DEF ProvisionVerificationTrust, riskVars, LineageKeys
<1>7. CASE \E h \in Handles, delta \in Envelopes : ProvisionLineageRiskBudget(h, delta)
  BY <1>7 DEF ProvisionLineageRiskBudget, LineageKeys
<1>8. ASSUME NEW r \in issued, AppendCommit(r) PROVE KeysStayCapped'
  <2>1. Keys(ModelSuccessor(live).authority) \subseteq LineageKeys(trusted)
    BY <1>8 DEF AppendCommit, ModelSuccessor, LineageKeys, TypeOK, Contexts
  <2> QED
    BY <1>1, <1>2, <1>8, <2>1 DEF AppendCommit, riskVars
<1>9. ASSUME NEW h \in Handles, NEW s \in Proposals, Handover(h, s) PROVE KeysStayCapped'
  <2>1. CASE live \in trusted
    <3>1. Keys(s.authority) \subseteq LineageKeys(trusted)
      BY <1>9, <2>1 DEF Handover, LineageKeys
    <3> QED
      BY <1>1, <1>2, <1>9, <2>1, <3>1 DEF Handover, InheritedTrust, ActivateContext, riskVars
  <2>2. CASE live \notin trusted
    BY <1>1, <1>9, <2>2 DEF Handover, InheritedTrust, ActivateContext, riskVars
  <2> QED
    BY <2>1, <2>2
<1>10. ASSUME NEW h \in Handles, NEW s \in Proposals, HandoverWithTrust(h, s)
       PROVE  KeysStayCapped'
  BY <1>10 DEF HandoverWithTrust, ActivateContext, riskVars, LineageKeys
<1> QED
  BY <1>3, <1>4, <1>5, <1>6, <1>7, <1>8, <1>9, <1>10 DEF Next

\* Nothing but the constructor's unchecked insert takes the lineage over its
\* key cap: commits, handovers and provisioning keep it.
THEOREM ReopeningIsTheOnlyWay == Spec => OnlyReopeningPassesTheCap
<1>1. TypeOK /\ [Next]_vars
         => [KeysStayCapped =>
                \/ KeysStayCapped'
                \/ \E h \in Handles, c \in contexts :
                      /\ ReopenWithTrust(h, c)
                      /\ ~(Keys(c.authority) \subseteq LineageKeys(trusted))]_vars
  BY CapStep
<1> QED
  BY <1>1, TypeCorrect, PTL DEF Spec, OnlyReopeningPassesTheCap

\* The frozen profile is the live policy's until an object that cached another
\* policy provisions the budget.
OnlyStaleHandlesFreezeProfiles ==
    [][FrozenProfileIsLive =>
          \/ FrozenProfileIsLive'
          \/ \E h \in Handles, delta \in Envelopes :
                /\ lineage = NoLineage
                /\ policy[h] # live.policy
                /\ ProvisionLineageRiskBudget(h, delta)]_vars

LEMMA ProfileStep ==
    ASSUME TypeOK, FrozenProfileIsLive, [Next]_vars
    PROVE  \/ FrozenProfileIsLive'
           \/ \E h \in Handles, delta \in Envelopes :
                 /\ lineage = NoLineage
                 /\ policy[h] # live.policy
                 /\ ProvisionLineageRiskBudget(h, delta)
<1> USE DEF FrozenProfileIsLive
<1>1. ASSUME NEW h \in Handles, NEW delta \in Envelopes,
             ProvisionLineageRiskBudget(h, delta),
             lineage # NoLineage \/ policy[h] = live.policy
      PROVE  FrozenProfileIsLive'
  <2>1. live' = live
    BY <1>1 DEF ProvisionLineageRiskBudget, contextVars
  <2>2. CASE policy[h] = live.policy
    BY <1>1, <2>1, <2>2 DEF ProvisionLineageRiskBudget
  <2>3. CASE lineage # NoLineage
    BY <1>1, <2>1, <2>3 DEF ProvisionLineageRiskBudget
  <2> QED
    BY <1>1, <2>2, <2>3
<1>2. ASSUME live'.policy = live.policy, lineage' = lineage PROVE FrozenProfileIsLive'
  BY <1>2
<1>3. ASSUME NEW h \in Handles, NEW s \in Proposals, ContinuesLineage(s),
             ActivateContext(h, s), lineage' = lineage
      PROVE  FrozenProfileIsLive'
  BY <1>3 DEF ContinuesLineage, ActivateContext
<1>4. CASE \E h \in Handles, s \in Proposals : Handover(h, s) \/ HandoverWithTrust(h, s)
  BY <1>3, <1>4 DEF Handover, HandoverWithTrust, HandoverAllowed, ActivateContext, riskVars
<1>5. CASE \/ UNCHANGED vars
           \/ \E h \in Handles, c \in contexts : Reopen(h, c) \/ ReopenWithTrust(h, c)
           \/ ProvisionVerificationTrust
           \/ \E c \in Candidates : ReserveRiskAllocation(c)
           \/ \E c \in spent, probe \in Probes : ReserveSourceManifests(c, probe)
           \/ \E c \in spent : \E r \in Receipts(c) : RecordIssuedReceipt(r)
           \/ \E r \in issued : AppendReject(r) \/ RetryAppend(r)
           \/ \E s \in Proposals : AuthorizeHandover(s)
  <2>1. live' = live /\ lineage' = lineage
    BY <1>5 DEF vars, contextVars, riskVars, Reopen, ReopenWithTrust,
       ProvisionVerificationTrust, ReserveRiskAllocation, ReserveSourceManifests,
       RecordIssuedReceipt, AppendReject, RetryAppend, AuthorizeHandover
  <2> QED
    BY <1>2, <2>1
<1>6. ASSUME NEW t, RegisterRiskSchedule(t) PROVE FrozenProfileIsLive'
  BY <1>2, <1>6 DEF RegisterRiskSchedule, contextVars
<1>7. ASSUME NEW r \in issued, AppendCommit(r) PROVE FrozenProfileIsLive'
  <2>1. live'.policy = live.policy
    BY <1>7 DEF AppendCommit, ModelSuccessor, TypeOK, Contexts
  <2> QED
    BY <1>2, <1>7, <2>1 DEF AppendCommit, riskVars
<1> QED
  BY <1>1, <1>4, <1>5, <1>6, <1>7 DEF Next

\* A profile that is not the live policy's comes from a stale object that
\* provisions the budget; commits and handovers keep profile and policy together.
THEOREM StaleHandlesAreTheOnlyWay == Spec => OnlyStaleHandlesFreezeProfiles
<1>1. TypeOK /\ [Next]_vars
         => [FrozenProfileIsLive =>
                \/ FrozenProfileIsLive'
                \/ \E h \in Handles, delta \in Envelopes :
                      /\ lineage = NoLineage
                      /\ policy[h] # live.policy
                      /\ ProvisionLineageRiskBudget(h, delta)]_vars
  BY ProfileStep
<1> QED
  BY <1>1, TypeCorrect, PTL DEF Spec, OnlyStaleHandlesFreezeProfiles

=============================================================================
