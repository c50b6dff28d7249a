------------------------- MODULE BeaconFixationProofs -------------------------
(***************************************************************************)
(* What beacon fixation keeps true for every number of replicas, bodies,   *)
(* allocations, checkpoints and contexts, proved with TLAPS.               *)
(***************************************************************************)
EXTENDS BeaconFixation, TLAPS

------------------------------------------------------------------------------
(* The inductive invariant                                                 *)

\* A reservation leaves room for its round.
InRange == \A c \in reservations : Number(c) <= UINT32_MAX

\* The registry promises a number to one fixation.
OnePromise == \A c, d \in reservations : Number(c) = Number(d) => c = d

\* Every round but the first is the round of a booked fixation.
RoundsAreFinal ==
    \A r \in rounds : r # Genesis => r.fixation \in bookings /\ r = RoundFor(r.fixation)

\* The service's head is the last round; every other round has its successor,
\* so whoever fixes a candidate under an old head finds that successor taken.
HeadIsLast ==
    \A r \in rounds :
        /\ r.number <= serviceHead.number
        /\ r # serviceHead => \E c \in reservations : c.parent = r /\ RoundFor(c) \in rounds

\* The registry's head is the last round the registry has accepted.
RegistryHeadIsLast ==
    \A r \in observed : registryHead # NoHead /\ r.number <= registryHead.number

BeaconInvariant ==
    /\ TypeOK
    /\ InRange
    /\ OnePromise
    /\ RoundsAreFinal
    /\ HeadIsLast
    /\ RegistryHeadIsLast

------------------------------------------------------------------------------
(* Values                                                                  *)

LEMMA RoundIsNoEmptyTable == \A c : RoundFor(c) # NoHead /\ Genesis # NoHead
<1>1. /\ DOMAIN NoHead = {"table"} /\ DOMAIN Genesis = {"number", "fixation"}
      /\ \A c : DOMAIN RoundFor(c) = {"number", "fixation"}
  BY DEF NoHead, Genesis, RoundFor
<1> QED
  BY <1>1

LEMMA FixationRow ==
    ASSUME TypeOK, NEW c \in Fixations
    PROVE  /\ c.parent \in rounds /\ c.parent.number \in Nat
           /\ Number(c) \in Nat /\ Number(c) > 1 /\ Number(c) = c.parent.number + 1
           /\ RoundFor(c).number = Number(c) /\ RoundFor(c).fixation = c
           /\ RoundFor(c) # Genesis
<1>1. c.parent \in rounds /\ c.parent.number \in 1..UINT32_MAX
  BY DEF TypeOK, Fixations
<1> QED
  BY <1>1, BeaconAssumption DEF Number, RoundFor, Genesis

\* A round that is not the first one is the round of the fixation it names.
LEMMA RoundRow ==
    ASSUME TypeOK, RoundsAreFinal, NEW r \in rounds, r # Genesis
    PROVE  /\ r.fixation \in reservations /\ r.fixation \in Fixations
           /\ r.number = Number(r.fixation) /\ r = RoundFor(r.fixation)
<1>1. r.fixation \in reservations /\ r.fixation \in Fixations /\ r = RoundFor(r.fixation)
  BY DEF TypeOK, RoundsAreFinal
<1> QED
  BY <1>1, FixationRow

LEMMA RoundsAreUnique ==
    ASSUME TypeOK, OnePromise, RoundsAreFinal
    PROVE  \A q, r \in rounds : q.number = r.number => q = r
<1> SUFFICES ASSUME NEW q \in rounds, NEW r \in rounds, q.number = r.number PROVE q = r
  OBVIOUS
<1>1. CASE q = Genesis /\ r = Genesis
  BY <1>1
<1>2. CASE q # Genesis /\ r # Genesis
  BY <1>2, RoundRow DEF OnePromise
<1>3. ASSUME NEW s \in rounds, s # Genesis PROVE s.number # Genesis.number
  BY <1>3, RoundRow, FixationRow DEF Genesis
<1> QED
  BY <1>1, <1>2, <1>3

------------------------------------------------------------------------------
(* The invariant is inductive                                              *)

LEMMA InitInvariant == Init => BeaconInvariant
  BY BeaconAssumption
     DEF Init, BeaconInvariant, TypeOK, InRange, OnePromise, RoundsAreFinal, HeadIsLast,
         RegistryHeadIsLast, Genesis

LEMMA TypeStep ==
    ASSUME TypeOK, InRange, [Next]_vars
    PROVE  TypeOK'
<1> USE DEF TypeOK, Fixations, registryVars, ledgerVars, serviceVars
<1>1. CASE NextContext
  BY <1>1, BeaconAssumption DEF NextContext
<1>2. CASE RegisterSchedule
  BY <1>2 DEF RegisterSchedule
<1>3. ASSUME NEW l \in Ledgers, NEW context \in schedules, EnrollSchedule(l, context)
      PROVE  TypeOK'
  BY <1>3 DEF EnrollSchedule
<1>4. ASSUME NEW l \in Ledgers, RecreateLedger(l) PROVE TypeOK'
  BY <1>4 DEF RecreateLedger
<1>5. ASSUME NEW round \in rounds, ObserveInRegistry(round) PROVE TypeOK'
  BY <1>5 DEF ObserveInRegistry
<1>6. ASSUME NEW l \in Ledgers, NEW round \in rounds, ObserveInLedger(l, round)
      PROVE  TypeOK'
  BY <1>6 DEF ObserveInLedger, Accepted
<1>7. ASSUME NEW l \in Ledgers, NEW c \in Fixations, BeginConsume(l, c) PROVE TypeOK'
  <2>1. /\ reservations' = reservations \cup {c}
        /\ journal' = journal \cup {[fixation |-> c, context |-> live]}
        /\ transaction' = [transaction EXCEPT ![l] = c]
        /\ UNCHANGED <<live, schedules, registryHead, observed, enrolled, ledgerHead,
                       allocations, serviceVars>>
    BY <1>7 DEF BeginConsume, ReserveBeaconSuccessor
  <2> QED
    BY <2>1
<1>8. ASSUME NEW l \in Ledgers, CommitConsume(l) PROVE TypeOK'
  BY <1>8 DEF CommitConsume
<1>9. ASSUME NEW l \in Ledgers, AbortConsume(l) PROVE TypeOK'
  BY <1>9 DEF AbortConsume
<1>10. ASSUME NEW l \in Ledgers, NEW c \in Fixations, ReserveFixation(l, c) PROVE TypeOK'
  BY <1>10 DEF ReserveFixation, FixationPrecedesBeacon
<1>11. ASSUME NEW c \in bookings, FinalizeSuccessor(c) PROVE TypeOK'
  <2>1. c \in reservations /\ c \in Fixations /\ Number(c) <= UINT32_MAX
    BY DEF InRange
  <2>2. RoundFor(c).number \in 1..UINT32_MAX
    BY <2>1, FixationRow, BeaconAssumption
  <2> QED
    BY <1>11, <2>2 DEF FinalizeSuccessor
<1>12. CASE UNCHANGED vars
  BY <1>12 DEF vars
<1> QED
  BY <1>1, <1>2, <1>3, <1>4, <1>5, <1>6, <1>7, <1>8, <1>9, <1>10, <1>11, <1>12 DEF Next

\* Seen from promises, bookings and rounds there are four kinds of steps.
LEMMA StepShapes ==
    ASSUME [Next]_vars
    PROVE  \/ UNCHANGED <<reservations, bookings, rounds, serviceHead>>
           \/ \E l \in Ledgers, c \in Fixations : BeginConsume(l, c)
           \/ \E l \in Ledgers, c \in Fixations : ReserveFixation(l, c)
           \/ \E c \in bookings : FinalizeSuccessor(c)
<1> USE DEF registryVars, ledgerVars, serviceVars
<1>1. CASE NextContext \/ RegisterSchedule
  BY <1>1 DEF NextContext, RegisterSchedule
<1>2. CASE \E l \in Ledgers : \E context \in schedules : EnrollSchedule(l, context)
  BY <1>2 DEF EnrollSchedule
<1>3. CASE \E l \in Ledgers : RecreateLedger(l)
  BY <1>3 DEF RecreateLedger
<1>4. CASE \E round \in rounds : ObserveInRegistry(round)
  BY <1>4 DEF ObserveInRegistry
<1>5. CASE \E l \in Ledgers : \E round \in rounds : ObserveInLedger(l, round)
  BY <1>5 DEF ObserveInLedger
<1>6. CASE \E l \in Ledgers : CommitConsume(l) \/ AbortConsume(l)
  BY <1>6 DEF CommitConsume, AbortConsume
<1>7. CASE UNCHANGED vars
  BY <1>7 DEF vars
<1> QED
  BY <1>1, <1>2, <1>3, <1>4, <1>5, <1>6, <1>7 DEF Next

\* What a reservation knows and does.
LEMMA BeginRow ==
    ASSUME NEW l \in Ledgers, NEW c \in Fixations, BeginConsume(l, c)
    PROVE  /\ reservations' = reservations \cup {c}
           /\ Number(c) <= UINT32_MAX
           /\ \A d \in reservations : Number(d) = Number(c) => d = c
           /\ UNCHANGED <<bookings, rounds, serviceHead>>
  BY DEF BeginConsume, ReserveBeaconSuccessor, SuccessorFree, serviceVars

\* A replica fixes only what its open transaction has reserved.
LEMMA NewAllocation ==
    ASSUME TypeOK, Next,
           NEW l \in Ledgers, NEW c \in allocations[l]' \ allocations[l]
    PROVE  c \in reservations
<1> USE DEF TypeOK, registryVars, ledgerVars, serviceVars
<1>1. ASSUME NEW k \in Ledgers, CommitConsume(k) PROVE c \in reservations
  BY <1>1 DEF CommitConsume
<1>2. ASSUME NEW k \in Ledgers, RecreateLedger(k) PROVE FALSE
  BY <1>2 DEF RecreateLedger
<1>3. CASE \/ NextContext \/ RegisterSchedule
           \/ \E k \in Ledgers : \E context \in schedules : EnrollSchedule(k, context)
           \/ \E round \in rounds : ObserveInRegistry(round)
           \/ \E k \in Ledgers : \E round \in rounds : ObserveInLedger(k, round)
           \/ \E k \in Ledgers : \E d \in Fixations : BeginConsume(k, d)
           \/ \E k \in Ledgers : AbortConsume(k)
           \/ \E k \in Ledgers : \E d \in Fixations : ReserveFixation(k, d)
           \/ \E d \in bookings : FinalizeSuccessor(d)
  <2>1. UNCHANGED allocations
    BY <1>3 DEF NextContext, RegisterSchedule, EnrollSchedule, ObserveInRegistry,
         ObserveInLedger, BeginConsume, AbortConsume, ReserveFixation, FinalizeSuccessor
  <2> QED
    BY <2>1
<1> QED
  BY <1>1, <1>2, <1>3 DEF Next

LEMMA PromiseStep ==
    ASSUME InRange, OnePromise, [Next]_vars
    PROVE  InRange' /\ OnePromise'
<1>1. ASSUME NEW l \in Ledgers, NEW c \in Fixations, BeginConsume(l, c)
      PROVE  InRange' /\ OnePromise'
  BY <1>1, BeginRow DEF InRange, OnePromise, Number
<1>2. CASE UNCHANGED reservations
  BY <1>2 DEF InRange, OnePromise, Number
<1> QED
  BY <1>1, <1>2, StepShapes DEF ReserveFixation, FinalizeSuccessor, registryVars

LEMMA RoundsStep ==
    ASSUME TypeOK, RoundsAreFinal, HeadIsLast, [Next]_vars
    PROVE  RoundsAreFinal' /\ HeadIsLast'
<1>1. CASE /\ UNCHANGED <<rounds, serviceHead>>
           /\ bookings \subseteq bookings' /\ reservations \subseteq reservations'
  BY <1>1 DEF RoundsAreFinal, HeadIsLast, RoundFor, Number
<1>2. ASSUME NEW c \in bookings, FinalizeSuccessor(c)
      PROVE  RoundsAreFinal' /\ HeadIsLast'
  <2>1. c \in reservations /\ c \in Fixations
    BY DEF TypeOK
  <2>2. /\ rounds' = rounds \cup {RoundFor(c)} /\ serviceHead' = RoundFor(c)
        /\ serviceHead = c.parent /\ UNCHANGED <<bookings, reservations>>
    BY <1>2 DEF FinalizeSuccessor, registryVars
  <2>3. RoundsAreFinal'
    BY <2>1, <2>2, FixationRow DEF RoundsAreFinal, RoundFor, Number
  <2>4. ASSUME NEW r \in rounds PROVE r.number <= serviceHead'.number
    <3>1. r.number \in Nat /\ r.number <= serviceHead.number
      BY BeaconAssumption DEF TypeOK, HeadIsLast
    <3> QED
      BY <2>1, <2>2, <3>1, FixationRow
  <2>5. ASSUME NEW r \in rounds
        PROVE  \E d \in reservations : d.parent = r /\ RoundFor(d) \in rounds'
    BY <2>1, <2>2 DEF HeadIsLast
  <2>6. RoundFor(c).number <= serviceHead'.number
    BY <2>1, <2>2, FixationRow
  <2> QED
    BY <2>2, <2>3, <2>4, <2>5, <2>6 DEF HeadIsLast, RoundFor, Number
<1> QED
  BY <1>1, <1>2, StepShapes, BeginRow DEF ReserveFixation, registryVars

LEMMA RegistryHeadStep ==
    ASSUME TypeOK, RoundsAreFinal, RegistryHeadIsLast, [Next]_vars
    PROVE  RegistryHeadIsLast'
<1> USE DEF registryVars, ledgerVars, serviceVars
<1>1. ASSUME NEW round \in rounds, ObserveInRegistry(round) PROVE RegistryHeadIsLast'
  <2>1. registryHead' = round /\ observed' = observed \cup {round}
    BY <1>1 DEF ObserveInRegistry
  <2>2. round # NoHead /\ round.number \in Nat
    BY RoundIsNoEmptyTable, RoundRow, BeaconAssumption DEF TypeOK
  <2>3. CASE registryHead = NoHead
    BY <2>1, <2>2, <2>3 DEF RegistryHeadIsLast
  <2>4. CASE round = registryHead
    BY <2>1, <2>2, <2>4 DEF RegistryHeadIsLast
  <2>5. CASE registryHead # NoHead /\ Extends(round, registryHead)
    <3>1. round.number = registryHead.number + 1 /\ registryHead.number \in Nat
      BY <2>5, RoundRow, FixationRow DEF Extends
    <3>2. \A r \in observed : r.number \in Nat /\ r.number <= registryHead.number
      BY BeaconAssumption DEF TypeOK, RegistryHeadIsLast
    <3> QED
      BY <2>1, <2>2, <3>1, <3>2 DEF RegistryHeadIsLast
  <2> QED
    BY <1>1, <2>3, <2>4, <2>5 DEF ObserveInRegistry
<1>2. CASE UNCHANGED <<registryHead, observed>>
  BY <1>2 DEF RegistryHeadIsLast
<1>3. CASE UNCHANGED vars
  BY <1>2, <1>3 DEF vars
<1>4. ASSUME NEW l \in Ledgers, NEW c \in Fixations, BeginConsume(l, c)
      PROVE  UNCHANGED <<registryHead, observed>>
  BY <1>4 DEF BeginConsume
<1>5. CASE \/ NextContext \/ RegisterSchedule
           \/ \E l \in Ledgers : \E context \in schedules : EnrollSchedule(l, context)
           \/ \E l \in Ledgers : RecreateLedger(l)
           \/ \E l \in Ledgers : \E round \in rounds : ObserveInLedger(l, round)
           \/ \E l \in Ledgers : CommitConsume(l) \/ AbortConsume(l)
           \/ \E l \in Ledgers : \E c \in Fixations : ReserveFixation(l, c)
           \/ \E c \in bookings : FinalizeSuccessor(c)
  <2>1. UNCHANGED <<registryHead, observed>>
    BY <1>5 DEF NextContext, RegisterSchedule, EnrollSchedule, RecreateLedger,
         ObserveInLedger, CommitConsume, AbortConsume, ReserveFixation, FinalizeSuccessor
  <2> QED
    BY <1>2, <2>1
<1> QED
  BY <1>1, <1>2, <1>3, <1>4, <1>5 DEF Next

LEMMA NextInvariant == BeaconInvariant /\ [Next]_vars => BeaconInvariant'
  BY TypeStep, PromiseStep, RoundsStep, RegistryHeadStep DEF BeaconInvariant

LEMMA InvariantCorrect == Spec => []BeaconInvariant
  BY InitInvariant, NextInvariant, PTL DEF Spec

------------------------------------------------------------------------------
(* Theorems                                                                *)

\* The tables of registry, replicas and service are well typed in every
\* reachable state: replicas and service hold only what the registry reserved.
THEOREM BeaconTypeCorrect == Spec => []TypeOK
<1>1. BeaconInvariant => TypeOK
  BY DEF BeaconInvariant
<1> QED
  BY <1>1, InvariantCorrect, PTL

\* However many replicas there are, crash or are replaced, they, the registry
\* and the service hold one fixation for a round.
THEOREM FixationCorrect == Spec => []OneFixationPerRound
<1>1. BeaconInvariant => OneFixationPerRound
  BY DEF BeaconInvariant, TypeOK, OnePromise, OneFixationPerRound
<1> QED
  BY <1>1, InvariantCorrect, PTL

\* The rounds form one chain, and neither the registry nor a replica holds a
\* head its source does not have.
THEOREM HeadsCorrect == Spec => []HeadsFollowChain
<1>1. BeaconInvariant => HeadsFollowChain
  <2> SUFFICES ASSUME BeaconInvariant PROVE HeadsFollowChain
    OBVIOUS
  <2>1. \A q, r \in rounds : q.number = r.number => q = r
    BY RoundsAreUnique DEF BeaconInvariant
  <2>2. registryHead # NoHead => registryHead.number <= serviceHead.number
    BY DEF BeaconInvariant, TypeOK, HeadIsLast
  <2>3. ASSUME NEW l \in Ledgers, ledgerHead[l] # NoHead
        PROVE  registryHead # NoHead /\ ledgerHead[l].number <= registryHead.number
    BY <2>3 DEF BeaconInvariant, TypeOK, RegistryHeadIsLast
  <2> QED
    BY <2>1, <2>2, <2>3 DEF HeadsFollowChain
<1> QED
  BY <1>1, InvariantCorrect, PTL

\* No candidate is fixed, in any replica, for a round that is revealed already
\* with another one: the promise was exclusive before the round existed.
THEOREM FixationIsEarly == Spec => NoFixationAfterReveal
<1>1. BeaconInvariant /\ [Next]_vars
        => [\A l \in Ledgers : \A c \in allocations[l]' \ allocations[l] :
               \A r \in rounds : r.number = Number(c) => r.fixation = c]_vars
  <2> SUFFICES ASSUME BeaconInvariant, Next,
                      NEW l \in Ledgers, NEW c \in allocations[l]' \ allocations[l],
                      NEW r \in rounds, r.number = Number(c)
               PROVE  r.fixation = c
    BY DEF vars
  <2>1. c \in reservations
    BY NewAllocation DEF BeaconInvariant
  <2>2. r # Genesis
    <3>1. Number(c) > 1 /\ c \in Fixations
      BY <2>1, FixationRow DEF BeaconInvariant, TypeOK
    <3> QED
      BY <3>1 DEF Genesis
  <2>3. r.fixation \in reservations /\ r.number = Number(r.fixation)
    BY <2>2, RoundRow DEF BeaconInvariant
  <2> QED
    BY <2>1, <2>3 DEF BeaconInvariant, OnePromise
<1> QED
  BY <1>1, InvariantCorrect, PTL DEF Spec, NoFixationAfterReveal

------------------------------------------------------------------------------
(* Refinement                                                              *)

\* A new promise is made for the service's head, and it is the only one.
LEMMA NewPromise ==
    ASSUME BeaconInvariant, NEW l \in Ledgers, NEW c \in Fixations,
           BeginConsume(l, c), c \notin reservations
    PROVE  /\ c.parent = serviceHead
           /\ \A d \in reservations : d.parent # serviceHead
<1>1. \A d \in reservations : d.parent # c.parent
  BY BeginRow DEF Number
<1>2. c.parent \in rounds
  BY DEF Fixations
<1> QED
  BY <1>1, <1>2 DEF BeaconInvariant, HeadIsLast

\* Registry, replicas and service together implement the commit-reveal machine:
\* what a verifier is promised holds whichever of them crash or are replaced.
THEOREM FixationImplementsCommitReveal == Spec => ImplementsCommitReveal
<1>1. Init => Promise!Init
  BY DEF Init, Promise!Init
<1>2. BeaconInvariant /\ [Next]_vars => [Promise!Next]_(Promise!vars)
  <2> SUFFICES ASSUME BeaconInvariant, [Next]_vars
               PROVE  Promise!Next \/ UNCHANGED Promise!vars
    OBVIOUS
  <2>1. ASSUME NEW l \in Ledgers, NEW c \in Fixations, BeginConsume(l, c)
        PROVE  Promise!Commit \/ UNCHANGED Promise!vars
    <3>1. CASE c \in reservations
      BY <2>1, <3>1, BeginRow DEF Promise!vars
    <3>2. CASE c \notin reservations
      BY <2>1, <3>2, BeginRow, NewPromise DEF Promise!Commit, FixedFor
    <3> QED
      BY <3>1, <3>2
  <2>2. ASSUME NEW c \in bookings, FinalizeSuccessor(c) PROVE Promise!Reveal
    BY <2>2 DEF FinalizeSuccessor, RoundFor, Number, Promise!Reveal, FixedFor, BeaconInvariant,
                TypeOK, registryVars
  <2>3. ASSUME NEW l \in Ledgers, NEW c \in Fixations, ReserveFixation(l, c)
        PROVE  UNCHANGED Promise!vars
    BY <2>3 DEF ReserveFixation, registryVars, Promise!vars
  <2> QED
    BY <2>1, <2>2, <2>3, StepShapes DEF Promise!Next, Promise!vars
<1> QED
  BY <1>1, <1>2, InvariantCorrect, PTL DEF Spec, ImplementsCommitReveal, Promise!Spec

------------------------------------------------------------------------------
(* What the findings are about, and no more                                *)

\* The transaction of a ledger is open for an allocation that it does not have,
\* and a booking was in some ledger.
AllocationsAreOwned ==
    \A l \in Ledgers :
        /\ \A c, d \in allocations[l] : c.slot = d.slot => c = d
        /\ transaction[l] # Idle =>
              \A d \in allocations[l] : d.slot = transaction[l].slot => d = transaction[l]

BookedIsAllocated == \A c \in bookings : \E l \in Ledgers : c \in allocations[l]

\* Ledgers change in five ways only.
LEMMA LedgerShapes ==
    ASSUME [Next]_vars
    PROVE  \/ UNCHANGED <<allocations, transaction, bookings>>
           \/ UNCHANGED <<allocations, transaction>>
              /\ \E l \in Ledgers, c \in Fixations : ReserveFixation(l, c)
           \/ \E l \in Ledgers : RecreateLedger(l)
           \/ \E l \in Ledgers, c \in Fixations : BeginConsume(l, c)
           \/ \E l \in Ledgers : CommitConsume(l) \/ AbortConsume(l)
<1> USE DEF registryVars, ledgerVars, serviceVars
<1>1. CASE UNCHANGED vars
  BY <1>1 DEF vars
<1>2. CASE NextContext \/ RegisterSchedule
  BY <1>2 DEF NextContext, RegisterSchedule
<1>3. CASE \E l \in Ledgers : \E context \in schedules : EnrollSchedule(l, context)
  BY <1>3 DEF EnrollSchedule
<1>4. CASE \E round \in rounds : ObserveInRegistry(round)
  BY <1>4 DEF ObserveInRegistry
<1>5. CASE \E l \in Ledgers : \E round \in rounds : ObserveInLedger(l, round)
  BY <1>5 DEF ObserveInLedger
<1>6. CASE \E l \in Ledgers : \E c \in Fixations : ReserveFixation(l, c)
  BY <1>6 DEF ReserveFixation
<1>7. CASE \E c \in bookings : FinalizeSuccessor(c)
  BY <1>7 DEF FinalizeSuccessor
<1> QED
  BY <1>1, <1>2, <1>3, <1>4, <1>5, <1>6, <1>7 DEF Next

LEMMA OwnedStep ==
    ASSUME TypeOK, AllocationsAreOwned, [Next]_vars
    PROVE  AllocationsAreOwned'
<1> USE DEF AllocationsAreOwned, TypeOK
<1>1. CASE UNCHANGED <<allocations, transaction>>
  BY <1>1
<1>2. ASSUME NEW l \in Ledgers, RecreateLedger(l) PROVE AllocationsAreOwned'
  BY <1>2 DEF RecreateLedger
<1>3. ASSUME NEW l \in Ledgers, NEW c \in Fixations, BeginConsume(l, c)
      PROVE  AllocationsAreOwned'
  BY <1>3 DEF BeginConsume
<1>4. ASSUME NEW l \in Ledgers, CommitConsume(l) PROVE AllocationsAreOwned'
  BY <1>4 DEF CommitConsume
<1>5. ASSUME NEW l \in Ledgers, AbortConsume(l) PROVE AllocationsAreOwned'
  BY <1>5 DEF AbortConsume
<1> QED
  BY <1>1, <1>2, <1>3, <1>4, <1>5, LedgerShapes

LEMMA BookedStep ==
    ASSUME TypeOK, BookedIsAllocated, Recreatable = {}, [Next]_vars
    PROVE  BookedIsAllocated'
<1> USE DEF BookedIsAllocated, TypeOK, serviceVars
<1>1. ASSUME NEW l \in Ledgers, RecreateLedger(l) PROVE FALSE
  BY <1>1 DEF RecreateLedger
<1>2. CASE UNCHANGED <<allocations, bookings>>
  BY <1>2
<1>3. ASSUME NEW l \in Ledgers, NEW c \in Fixations, ReserveFixation(l, c),
             UNCHANGED allocations
      PROVE  BookedIsAllocated'
  BY <1>3 DEF ReserveFixation, FixationPrecedesBeacon
<1>4. ASSUME NEW l \in Ledgers, CommitConsume(l) PROVE BookedIsAllocated'
  BY <1>4 DEF CommitConsume
<1>5. ASSUME NEW l \in Ledgers, NEW c \in Fixations, BeginConsume(l, c) \/ AbortConsume(l)
      PROVE  UNCHANGED <<allocations, bookings>>
  BY <1>5 DEF BeginConsume, AbortConsume
<1>6. ASSUME NEW l \in Ledgers, AbortConsume(l) PROVE UNCHANGED <<allocations, bookings>>
  BY <1>6 DEF AbortConsume
<1> QED
  BY <1>1, <1>2, <1>3, <1>4, <1>5, <1>6, LedgerShapes

\* One ledger that keeps its database gives an allocation one draw: two draws
\* for one allocation need a second replica or a fresh database.
THEOREM OneLedgerDrawsOnce ==
    ASSUME Recreatable = {}, \A k, l \in Ledgers : k = l
    PROVE  Spec => []OneDrawPerAllocation
<1>1. Init => AllocationsAreOwned /\ BookedIsAllocated
  BY DEF Init, AllocationsAreOwned, BookedIsAllocated
<1>2. BeaconInvariant /\ AllocationsAreOwned /\ BookedIsAllocated /\ [Next]_vars
         => AllocationsAreOwned' /\ BookedIsAllocated'
  BY OwnedStep, BookedStep DEF BeaconInvariant
<1>3. BeaconInvariant /\ AllocationsAreOwned /\ BookedIsAllocated => OneDrawPerAllocation
  <2> SUFFICES ASSUME BeaconInvariant, AllocationsAreOwned, BookedIsAllocated,
                      NEW q \in rounds \ {Genesis}, NEW r \in rounds \ {Genesis},
                      q.fixation.slot = r.fixation.slot
               PROVE  q = r
    BY DEF OneDrawPerAllocation
  <2>1. /\ q.fixation \in bookings /\ q = RoundFor(q.fixation)
        /\ r.fixation \in bookings /\ r = RoundFor(r.fixation)
    BY DEF BeaconInvariant, RoundsAreFinal
  <2>2. q.fixation = r.fixation
    BY <2>1 DEF AllocationsAreOwned, BookedIsAllocated
  <2> QED
    BY <2>1, <2>2
<1> QED
  BY <1>1, <1>2, <1>3, InvariantCorrect, PTL DEF Spec

InTransaction(l, c) == transaction[l] = c /\ c # Idle

\* A reservation that cannot be asked for again and that nobody else holds.
IsBurned(c) ==
    /\ ~JournalAccepts(c)
    /\ c \notin bookings
    /\ \A l \in Ledgers : c \notin allocations[l] /\ ~InTransaction(l, c)

BeaconIsStuck == \E c \in reservations : c.parent = serviceHead /\ IsBurned(c)

StuckForEver == [][BeaconIsStuck => BeaconIsStuck' /\ UNCHANGED <<rounds, serviceHead>>]_vars

\* An event is no younger than the live context.
JournalIsPast == \A e \in journal : e.context <= live

LEMMA JournalStep ==
    ASSUME TypeOK, JournalIsPast, [Next]_vars
    PROVE  /\ JournalIsPast'
           /\ \A c : ~JournalAccepts(c) => ~JournalAccepts(c)'
<1> USE DEF JournalIsPast, JournalAccepts, registryVars, TypeOK
<1>1. \A e \in journal : e.context \in Nat /\ live \in Nat
  BY BeaconAssumption
<1>2. CASE NextContext
  BY <1>1, <1>2 DEF NextContext
<1>3. ASSUME NEW l \in Ledgers, NEW c \in Fixations, BeginConsume(l, c)
      PROVE  /\ JournalIsPast'
             /\ \A d : ~JournalAccepts(d) => ~JournalAccepts(d)'
  <2>1. journal' = journal \cup {[fixation |-> c, context |-> live]} /\ live' = live
    BY <1>3 DEF BeginConsume, ReserveBeaconSuccessor
  <2>2. live <= live
    BY BeaconAssumption
  <2> QED
    BY <2>1, <2>2
<1>4. CASE UNCHANGED <<live, journal>>
  BY <1>4
<1>5. CASE \/ UNCHANGED vars
           \/ RegisterSchedule
           \/ \E l \in Ledgers : \E context \in schedules : EnrollSchedule(l, context)
           \/ \E l \in Ledgers : RecreateLedger(l)
           \/ \E round \in rounds : ObserveInRegistry(round)
           \/ \E l \in Ledgers : \E round \in rounds : ObserveInLedger(l, round)
           \/ \E l \in Ledgers : CommitConsume(l) \/ AbortConsume(l)
           \/ \E l \in Ledgers : \E c \in Fixations : ReserveFixation(l, c)
           \/ \E c \in bookings : FinalizeSuccessor(c)
  <2>1. UNCHANGED <<live, journal>>
    BY <1>5 DEF vars, RegisterSchedule, EnrollSchedule, RecreateLedger, ObserveInRegistry,
         ObserveInLedger, CommitConsume, AbortConsume, ReserveFixation, FinalizeSuccessor
  <2> QED
    BY <1>4, <2>1
<1> QED
  BY <1>2, <1>3, <1>5 DEF Next

LEMMA BurnedStep ==
    ASSUME BeaconInvariant, JournalIsPast, [Next]_vars,
           NEW c \in reservations, c.parent = serviceHead, IsBurned(c)
    PROVE  /\ c \in reservations' /\ IsBurned(c)'
           /\ UNCHANGED <<rounds, serviceHead>>
<1> USE DEF IsBurned, InTransaction, BeaconInvariant, TypeOK, registryVars, ledgerVars, serviceVars
<1>1. ~JournalAccepts(c)'
  BY JournalStep
<1>2. reservations \subseteq reservations'
  BY StepShapes, BeginRow DEF ReserveFixation, FinalizeSuccessor
<1>3. ASSUME NEW d \in bookings, FinalizeSuccessor(d) PROVE FALSE
  <2>1. d \in reservations /\ d.parent = c.parent
    BY <1>3 DEF FinalizeSuccessor
  <2>2. d = c
    BY <2>1 DEF OnePromise, Number
  <2> QED
    BY <2>2
<1>4. c \notin bookings' /\ UNCHANGED <<rounds, serviceHead>>
  <2>1. ASSUME NEW l \in Ledgers, NEW d \in Fixations, ReserveFixation(l, d)
        PROVE  c \notin bookings' /\ UNCHANGED <<rounds, serviceHead>>
    BY <2>1 DEF ReserveFixation, FixationPrecedesBeacon
  <2> QED
    BY <1>3, <2>1, StepShapes, BeginRow
<1>5. \A l \in Ledgers : c \notin allocations'[l] /\ ~InTransaction(l, c)'
  <2>1. ASSUME NEW l \in Ledgers, NEW d \in Fixations, BeginConsume(l, d)
        PROVE  \A k \in Ledgers : c \notin allocations'[k] /\ ~InTransaction(k, c)'
    <3>1. d # c
      BY <2>1 DEF BeginConsume, ReserveBeaconSuccessor
    <3> QED
      BY <2>1, <3>1 DEF BeginConsume
  <2>2. ASSUME NEW l \in Ledgers, CommitConsume(l)
        PROVE  \A k \in Ledgers : c \notin allocations'[k] /\ ~InTransaction(k, c)'
    BY <2>2 DEF CommitConsume
  <2>3. ASSUME NEW l \in Ledgers, AbortConsume(l) \/ RecreateLedger(l)
        PROVE  \A k \in Ledgers : c \notin allocations'[k] /\ ~InTransaction(k, c)'
    BY <2>3 DEF AbortConsume, RecreateLedger
  <2> QED
    BY <2>1, <2>2, <2>3, LedgerShapes
<1> QED
  BY <1>1, <1>2, <1>4, <1>5

\* A successor of the service's head that was reserved under an earlier context,
\* and that no ledger holds, ends the chain of rounds: no call of anybody brings
\* another round, for as many replicas, candidates and contexts as there are.
THEOREM BurnedSuccessorsStopTheBeacon == Spec => StuckForEver
<1>1. Init => JournalIsPast
  BY DEF Init, JournalIsPast
<1>2. BeaconInvariant /\ JournalIsPast /\ [Next]_vars => JournalIsPast'
  BY JournalStep DEF BeaconInvariant
<1>3. BeaconInvariant /\ JournalIsPast /\ [Next]_vars
         => [BeaconIsStuck => BeaconIsStuck' /\ UNCHANGED <<rounds, serviceHead>>]_vars
  BY BurnedStep DEF BeaconIsStuck
<1> QED
  BY <1>1, <1>2, <1>3, InvariantCorrect, PTL DEF Spec, StuckForEver
==============================================================================
