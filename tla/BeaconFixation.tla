---------------------------- MODULE BeaconFixation ----------------------------
(***************************************************************************)
(* How a candidate is fixed before the randomness that judges it exists:   *)
(* the beacon tables of the registry (certificate.py), the replicas of the *)
(* risk ledger and the beacon service (gate.py).  Each of them is a        *)
(* database of its own.  RiskLedger.consume and observe_beacon_head commit *)
(* in the registry first and in the ledger afterwards, so they are two     *)
(* actions each and a crash in between leaves the first half behind.       *)
(*                                                                         *)
(* There is one beacon key.  A round or fixation is its own hash; the      *)
(* randomness of a round is a function of its signed reservation and the   *)
(* service's secret, so a round that exists determines its randomness.     *)
(***************************************************************************)
EXTENDS Naturals

CONSTANTS
    Ledgers,      \* replicas of the risk ledger
    Recreatable,  \* the replicas whose database may be replaced by a fresh one
    Bodies,       \* what candidates of one allocation differ in
    Indices,      \* allocation indices of a schedule
    Checkpoints,  \* numbers of the rounds that signed catalogs start from
    LastContext,  \* contexts are numbered in the order they become live
    UINT32_MAX,   \* the last round number
    Idle,         \* no open transaction
    ZeroHash      \* the fixation of a round that was not reserved

ASSUME BeaconAssumption ==
    /\ Recreatable \subseteq Ledgers
    /\ UINT32_MAX \in Nat \ {0} /\ LastContext \in Nat

Slots == [context : 0..LastContext, index : Indices]

\* The checkpoint the service is created with; round numbers are positive.
Genesis == [number |-> 1, fixation |-> ZeroHash]

\* An empty beacon_heads table.
NoHead == [table |-> "empty"]

VARIABLES
    live,          \* registry: context_head
    schedules,     \* registry: contexts with a registered schedule
    registryHead,  \* registry: beacon_heads
    observed,      \* registry: rounds with a beacon-head-observed event
    reservations,  \* registry: beacon_successor_reservations
    journal,       \* registry: beacon-successor-reserved events
    enrolled,      \* per ledger: contexts whose schedule is in it
    ledgerHead,    \* per ledger: beacon_heads
    allocations,   \* per ledger: the fixations that own an allocation and a successor
    transaction,   \* per ledger: the fixation of an open consume transaction
    bookings,      \* service: beacon_fixation_reservations
    rounds,        \* service: rounds it has signed
    serviceHead    \* service: beacon_service_state

registryVars == <<live, schedules, registryHead, observed, reservations, journal>>
ledgerVars   == <<enrolled, ledgerHead, allocations, transaction>>
serviceVars  == <<bookings, rounds, serviceHead>>
vars == <<registryVars, ledgerVars, serviceVars>>

------------------------------------------------------------------------------
(* Values                                                                  *)

\* A candidate binds an allocation and the round it wants to be judged by.
\* Proposers name the parent among the signed rounds.
Fixations == [slot : Slots, body : Bodies, parent : rounds]

Number(c) == c.parent.number + 1

RoundFor(c) == [number |-> Number(c), fixation |-> c]

\* The immediate hash-linked successor.
Extends(round, prior) == round # Genesis /\ round.fixation.parent = prior

------------------------------------------------------------------------------

Init ==
    /\ live = 0
    /\ schedules = {}
    /\ registryHead = NoHead /\ observed = {}
    /\ reservations = {} /\ journal = {}
    /\ enrolled = [l \in Ledgers |-> {}]
    /\ ledgerHead = [l \in Ledgers |-> NoHead]
    /\ allocations = [l \in Ledgers |-> {}]
    /\ transaction = [l \in Ledgers |-> Idle]
    /\ bookings = {} /\ rounds = {Genesis} /\ serviceHead = Genesis

\* A commit or a handover makes the next context live.
NextContext ==
    /\ live < LastContext
    /\ live' = live + 1
    /\ UNCHANGED <<schedules, registryHead, observed, reservations, journal,
                   ledgerVars, serviceVars>>

\* RiskLedger.register, the commit in the registry ...
RegisterSchedule ==
    /\ schedules' = schedules \cup {live}
    /\ UNCHANGED <<live, registryHead, observed, reservations, journal,
                   ledgerVars, serviceVars>>

\* ... and in the ledger.
EnrollSchedule(l, context) ==
    /\ transaction[l] = Idle
    /\ context \in schedules
    /\ enrolled' = [enrolled EXCEPT ![l] = @ \cup {context}]
    /\ UNCHANGED <<registryVars, ledgerHead, allocations, transaction, serviceVars>>

\* A fresh database takes the place of a ledger.
RecreateLedger(l) ==
    /\ l \in Recreatable
    /\ enrolled' = [enrolled EXCEPT ![l] = {}]
    /\ ledgerHead' = [ledgerHead EXCEPT ![l] = NoHead]
    /\ allocations' = [allocations EXCEPT ![l] = {}]
    /\ transaction' = [transaction EXCEPT ![l] = Idle]
    /\ UNCHANGED <<registryVars, serviceVars>>

------------------------------------------------------------------------------
(* Beacon heads                                                            *)

IsCheckpoint(round) == round.number \in Checkpoints

\* The registry starts at a checkpoint and advances one round at a time; the
\* head itself may be delivered again.
ObserveInRegistry(round) ==
    /\ round \in rounds
    /\ \/ registryHead = NoHead /\ IsCheckpoint(round)
       \/ registryHead # NoHead
          /\ (round = registryHead \/ Extends(round, registryHead))
    /\ registryHead' = round
    /\ observed' = observed \cup {round}
    /\ UNCHANGED <<live, schedules, reservations, journal, ledgerVars, serviceVars>>

\* Mutant: the ledger commits before the registry has accepted the round.
Signed(round) == round \in rounds

Accepted(round) == round \in observed

\* The second half of RiskLedger.observe_beacon_head, at any time after the
\* registry has accepted the round.
ObserveInLedger(l, round) ==
    /\ transaction[l] = Idle
    /\ Accepted(round)
    /\ \/ /\ ledgerHead[l] = NoHead
          /\ \/ IsCheckpoint(round)
             \/ \E r \in rounds : IsCheckpoint(r) /\ Extends(round, r)
       \/ /\ ledgerHead[l] # NoHead
          /\ round = ledgerHead[l] \/ Extends(round, ledgerHead[l])
    /\ ledgerHead' = [ledgerHead EXCEPT ![l] = round]
    /\ UNCHANGED <<registryVars, enrolled, allocations, transaction, serviceVars>>

------------------------------------------------------------------------------
(* RiskLedger.consume                                                      *)

\* Mutant: a successor is free until it is revealed.
NotRevealed(c) == \A r \in rounds : r.number # Number(c)

\* A successor belongs to one fixation, which may ask for it again.
SuccessorFree(c) == \A d \in reservations : Number(d) = Number(c) => d = c

\* Mutant: a reservation is not accepted a second time.
NotReserved(c) == \A e \in journal : e.fixation # c

\* The event a reservation writes names the context that is live now; under
\* the same fixation the journal holds one event and no other.
JournalAccepts(c) == \A e \in journal : e.fixation = c => e.context = live

ReserveBeaconSuccessor(c) ==
    /\ registryHead = c.parent
    /\ Number(c) <= UINT32_MAX
    /\ SuccessorFree(c)
    /\ JournalAccepts(c)
    /\ reservations' = reservations \cup {c}
    /\ journal' = journal \cup {[fixation |-> c, context |-> live]}

\* The ledger transaction opens and the registry commits the reservation.  An
\* allocation that is owned already ends the call before the registry is asked.
BeginConsume(l, c) ==
    /\ transaction[l] = Idle
    /\ ledgerHead[l] = c.parent
    /\ c.slot.context \in enrolled[l]
    /\ \A d \in allocations[l] : d.slot # c.slot
    /\ ReserveBeaconSuccessor(c)
    /\ transaction' = [transaction EXCEPT ![l] = c]
    /\ UNCHANGED <<live, schedules, registryHead, observed,
                   enrolled, ledgerHead, allocations, serviceVars>>

CommitConsume(l) ==
    LET c == transaction[l]
    IN  /\ c # Idle
        /\ \A d \in allocations[l] : Number(d) = Number(c) => d = c
        /\ allocations' = [allocations EXCEPT ![l] = @ \cup {c}]
        /\ transaction' = [transaction EXCEPT ![l] = Idle]
        /\ UNCHANGED <<registryVars, enrolled, ledgerHead, serviceVars>>

\* A crash or an error after the registry has committed: the ledger rolls back.
AbortConsume(l) ==
    /\ transaction[l] # Idle
    /\ transaction' = [transaction EXCEPT ![l] = Idle]
    /\ UNCHANGED <<registryVars, enrolled, ledgerHead, allocations, serviceVars>>

------------------------------------------------------------------------------
(* The beacon service                                                      *)

\* Mutant: the service does not ask the ledger.
NamesParent(l, c) == c.parent \in rounds

FixationPrecedesBeacon(l, c) == c \in allocations[l]

\* A booking that exists is returned again; a new one extends the service head.
ReserveFixation(l, c) ==
    /\ FixationPrecedesBeacon(l, c)
    /\ \A d \in bookings : Number(d) = Number(c) => d = c
    /\ c \in bookings \/ serviceHead = c.parent
    /\ bookings' = bookings \cup {c}
    /\ UNCHANGED <<registryVars, ledgerVars, rounds, serviceHead>>

\* Randomness and head in one transaction; a finished round is only returned.
FinalizeSuccessor(c) ==
    /\ c \in bookings
    /\ serviceHead = c.parent
    /\ rounds' = rounds \cup {RoundFor(c)}
    /\ serviceHead' = RoundFor(c)
    /\ UNCHANGED <<registryVars, ledgerVars, bookings>>

------------------------------------------------------------------------------

Next ==
    \/ NextContext
    \/ RegisterSchedule
    \/ \E l \in Ledgers : \E context \in schedules : EnrollSchedule(l, context)
    \/ \E l \in Ledgers : RecreateLedger(l)
    \/ \E round \in rounds : ObserveInRegistry(round)
    \/ \E l \in Ledgers : \E round \in rounds : ObserveInLedger(l, round)
    \/ \E l \in Ledgers : \E c \in Fixations : BeginConsume(l, c)
    \/ \E l \in Ledgers : CommitConsume(l) \/ AbortConsume(l)
    \/ \E l \in Ledgers : \E c \in Fixations : ReserveFixation(l, c)
    \/ \E c \in bookings : FinalizeSuccessor(c)

Spec == Init /\ [][Next]_vars

\* A proposer that got no answer asks again, its ledger commits when it is not
\* interrupted for ever, and rounds are delivered and finalized.
Fairness ==
    /\ \A l \in Ledgers :
          /\ WF_vars(\E c \in reservations : BeginConsume(l, c))
          /\ SF_vars(CommitConsume(l))
          /\ WF_vars(\E c \in allocations[l] : ReserveFixation(l, c))
    /\ WF_vars(\E c \in bookings : FinalizeSuccessor(c))

FairSpec == Spec /\ Fairness

------------------------------------------------------------------------------
(* Properties                                                              *)

\* Every table keeps its type: rounds are signed and in range, reservations
\* name signed parents, heads are rounds.
TypeOK ==
    /\ live \in 0..LastContext
    /\ schedules \subseteq 0..LastContext
    /\ \A r \in rounds : r.number \in 1..UINT32_MAX
    /\ serviceHead \in rounds
    /\ observed \subseteq rounds
    /\ registryHead \in observed \cup {NoHead}
    /\ reservations \subseteq Fixations
    /\ journal \subseteq [fixation : reservations, context : 0..LastContext]
    /\ bookings \subseteq reservations
    /\ enrolled \in [Ledgers -> SUBSET schedules]
    /\ ledgerHead \in [Ledgers -> observed \cup {NoHead}]
    /\ allocations \in [Ledgers -> SUBSET reservations]
    /\ transaction \in [Ledgers -> reservations \cup {Idle}]

\* A round judges one fixation: whatever replica, registry or service holds a
\* fixation for a round, they all hold the same one.
OneFixationPerRound ==
    LET held == reservations \cup bookings \cup UNION {allocations[l] : l \in Ledgers}
    IN  \A c, d \in held : Number(c) = Number(d) => c = d

\* No replica, not even a fresh one that replays an old head, fixes a candidate
\* for a round whose randomness exists, unless it is the candidate revealed.
NoFixationAfterReveal ==
    [][\A l \in Ledgers : \A c \in allocations[l]' \ allocations[l] :
          \A r \in rounds : r.number = Number(c) => r.fixation = c]_vars

\* The heads are rounds of one chain and no copy runs ahead of its source: a
\* replica never leads the registry and the registry never leads the service.
HeadsFollowChain ==
    /\ \A q, r \in rounds : q.number = r.number => q = r
    /\ registryHead # NoHead => registryHead.number <= serviceHead.number
    /\ \A l \in Ledgers :
          ledgerHead[l] # NoHead =>
              registryHead # NoHead /\ ledgerHead[l].number <= registryHead.number

FixedFor(c, round) == c.parent = round

\* The registry's reservations and the service's head implement commit-reveal.
Promise == INSTANCE CommitReveal WITH head <- serviceHead, promised <- reservations

ImplementsCommitReveal == Promise!Spec

\* A successor the registry has reserved is finalized in the end, although the
\* consume that reserved it may crash before its ledger commits.
Reserved(n) == \E c \in reservations : Number(c) = n
Revealed(n) == \E r \in rounds : r.number = n

ReservedIsRevealed == \A n \in 2..UINT32_MAX : Reserved(n) ~> Revealed(n)

\* An allocation is judged at most once: no two rounds are revealed for two
\* candidates that name the same allocation.
OneDrawPerAllocation ==
    \A q, r \in rounds \ {Genesis} :
        q.fixation.slot = r.fixation.slot => q = r
==============================================================================
