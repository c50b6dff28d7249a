--------------------------- MODULE ProbeReleaseProofs ---------------------------
(***************************************************************************)
(* What the release of probes keeps true for every number of callers,      *)
(* ledgers, stores, catalogs and candidates, proved with TLAPS.            *)
(***************************************************************************)
EXTENDS ProbeRelease, TLAPS

------------------------------------------------------------------------------
(* The inductive invariant                                                 *)

\* The probe that a candidate's round selects of its population.
Drawn(c) == Draw(random[c], c.eligible)

\* Only rounds that exist have randomness.
RevealedInOrder == \A c \in Candidates : random[c] # Hidden => c.round <= head

\* Whoever is named with a probe was judged by the probe it drew.
IsDraw(owner) ==
    owner.fixation.eligible # {} /\ random[owner.fixation] # Hidden
    /\ owner.probe = Drawn(owner.fixation)

\* The registry's primary keys.
SpentOnce == \A row, other \in spent : row.slot = other.slot => row.fixation = other.fixation

OwnedOnce == \A row, other \in retired : row.manifest = other.manifest => row.owner = other.owner

RowsAreDraws ==
    /\ \A row \in retired : IsDraw(row.owner)
    /\ \A release \in Released : IsDraw(release)

\* A ledger holds no manifest that the registry has not given away.
LedgersFollow == \A l \in Ledgers : ledger[l] \subseteq retired

Paid(c) == [slot |-> c.slot, fixation |-> c] \in spent

\* What a call has behind it at each of its steps.
CallsProgress ==
    \A p \in Callers : call[p] # Idle =>
        /\ random[call[p].fixation] # Hidden
        /\ call[p].at # "begin" => IsDraw(Owner(p))
        /\ call[p].at \in {"manifests", "ledger", "retire"} => Paid(call[p].fixation)
        /\ call[p].at \in {"ledger", "retire"} => Rows(Owner(p)) \subseteq retired

ReleaseInvariant ==
    /\ TypeOK
    /\ RevealedInOrder
    /\ SpentOnce
    /\ OwnedOnce
    /\ RowsAreDraws
    /\ LedgersFollow
    /\ CallsProgress
    /\ ReleasesAreBacked

------------------------------------------------------------------------------
(* Values                                                                  *)

LEMMA DrawIsOwner ==
    ASSUME TypeOK, NEW owner, owner = [fixation |-> owner.fixation, probe |-> owner.probe],
           owner.fixation \in Candidates, IsDraw(owner)
    PROVE  owner \in Owners /\ owner.probe \in Probes
<1>1. random[owner.fixation] \in Randoms
  BY DEF TypeOK, IsDraw
<1>2. owner.fixation.eligible \in (SUBSET Probes) \ {{}}
  BY ReleaseAssumption DEF IsDraw
<1>3. owner.probe \in Probes
  BY <1>1, <1>2, ReleaseAssumption DEF IsDraw, Drawn
<1> QED
  BY <1>3 DEF Owners

LEMMA RowsAreRows ==
    ASSUME NEW owner \in Owners
    PROVE  /\ Rows(owner) \subseteq ManifestRows
           /\ \A row \in Rows(owner) : row.owner = owner /\ row.manifest \in Sources[owner.probe]
           /\ \A m \in Sources[owner.probe] : \E row \in Rows(owner) : row.manifest = m
<1>1. owner.probe \in Probes
  BY DEF Owners
<1>2. Sources[owner.probe] \subseteq Manifests
  BY <1>1 DEF Manifests
<1>3. \A m \in Sources[owner.probe] : [manifest |-> m, owner |-> owner] \in Rows(owner)
  BY DEF Rows
<1> QED
  BY <1>2, <1>3 DEF Rows, ManifestRows

\* A call that moves keeps its store, ledger and fixation.
LEMMA Moves ==
    ASSUME TypeOK, NEW p \in Callers, call[p] # Idle
    PROVE  /\ call[p] \in Calls
           /\ \A step \in Steps : Continue(p, step) =>
                 /\ call' \in [Callers -> Calls \cup {Idle}]
                 /\ call'[p] # Idle /\ call'[p].at = step
                 /\ call'[p].fixation = call[p].fixation /\ call'[p].probe = call[p].probe
                 /\ \A q \in Callers : q # p => call'[q] = call[q]
           /\ Stop(p) =>
                 /\ call' \in [Callers -> Calls \cup {Idle}] /\ call'[p] = Idle
                 /\ \A q \in Callers : q # p => call'[q] = call[q]
<1>1. call[p] \in Calls
  BY DEF TypeOK
<1>2. ASSUME NEW step \in Steps, Continue(p, step)
      PROVE  /\ call' \in [Callers -> Calls \cup {Idle}]
             /\ call'[p] # Idle /\ call'[p].at = step
             /\ call'[p].fixation = call[p].fixation /\ call'[p].probe = call[p].probe
             /\ \A q \in Callers : q # p => call'[q] = call[q]
  <2>1. [call[p] EXCEPT !.at = step] \in Calls
    BY <1>1 DEF Calls
  <2>2. call' = [call EXCEPT ![p] = [call[p] EXCEPT !.at = step]]
    BY <1>2 DEF Continue
  <2> QED
    BY <1>1, <2>1, <2>2, ReleaseAssumption DEF TypeOK, Calls
<1>3. ASSUME Stop(p)
      PROVE  /\ call' \in [Callers -> Calls \cup {Idle}] /\ call'[p] = Idle
             /\ \A q \in Callers : q # p => call'[q] = call[q]
  BY <1>3 DEF TypeOK, Stop
<1> QED
  BY <1>1, <1>2, <1>3

\* What the invariant says of a call that has drawn.
LEMMA CallOwner ==
    ASSUME ReleaseInvariant, NEW p \in Callers, call[p] # Idle, call[p].at # "begin"
    PROVE  /\ call[p] \in Calls /\ call[p].fixation \in Candidates
           /\ Owner(p) \in Owners /\ IsDraw(Owner(p))
           /\ Owner(p).fixation = call[p].fixation /\ Owner(p).probe = call[p].probe
           /\ Owner(p) = [fixation |-> call[p].fixation, probe |-> call[p].probe]
<1>1. call[p] \in Calls /\ call[p].fixation \in Candidates
  BY DEF ReleaseInvariant, TypeOK, Calls
<1>2. IsDraw(Owner(p))
  BY DEF ReleaseInvariant, CallsProgress
<1>3. /\ Owner(p) = [fixation |-> call[p].fixation, probe |-> call[p].probe]
      /\ Owner(p).fixation = call[p].fixation /\ Owner(p).probe = call[p].probe
  BY DEF Owner
<1> QED
  BY <1>1, <1>2, <1>3, DrawIsOwner DEF ReleaseInvariant

------------------------------------------------------------------------------
(* The invariant is inductive                                              *)

\* Rows that are there stay, so what the others have behind them stays.
LEMMA OneCallMoves ==
    ASSUME ReleaseInvariant, NEW p \in Callers,
           random' = random, spent \subseteq spent', retired \subseteq retired',
           \A q \in Callers : q # p => call'[q] = call[q],
           call'[p] # Idle =>
              /\ random[call'[p].fixation] # Hidden
              /\ call'[p].at # "begin" =>
                    /\ call'[p].fixation.eligible # {}
                    /\ call'[p].probe = Drawn(call'[p].fixation)
              /\ call'[p].at \in {"manifests", "ledger", "retire"} =>
                    [slot |-> call'[p].fixation.slot, fixation |-> call'[p].fixation] \in spent'
              /\ call'[p].at \in {"ledger", "retire"} =>
                    Rows([fixation |-> call'[p].fixation, probe |-> call'[p].probe])
                       \subseteq retired'
    PROVE  CallsProgress'
<1> SUFFICES ASSUME NEW q \in Callers, call'[q] # Idle
             PROVE  /\ random[call'[q].fixation] # Hidden
                    /\ call'[q].at # "begin" => IsDraw(Owner(q)')
                    /\ call'[q].at \in {"manifests", "ledger", "retire"} =>
                          [slot |-> call'[q].fixation.slot, fixation |-> call'[q].fixation]
                             \in spent'
                    /\ call'[q].at \in {"ledger", "retire"} => Rows(Owner(q)') \subseteq retired'
  BY DEF CallsProgress, IsDraw, Drawn, Paid, Rows, Owner
<1>1. CASE q = p
  BY <1>1 DEF Owner, IsDraw
<1>2. CASE q # p
  <2>1. call'[q] = call[q] /\ Owner(q)' = Owner(q)
    BY <1>2 DEF Owner
  <2> QED
    BY <2>1 DEF ReleaseInvariant, CallsProgress, Paid
<1> QED
  BY <1>1, <1>2

\* A step that leaves registry, ledgers, stores and randomness alone.
LEMMA TablesStay ==
    ASSUME ReleaseInvariant, UNCHANGED <<random, spent, retired, ledger, store>>
    PROVE  SpentOnce' /\ OwnedOnce' /\ RowsAreDraws' /\ LedgersFollow' /\ ReleasesAreBacked'
BY DEF ReleaseInvariant, SpentOnce, OwnedOnce, RowsAreDraws, LedgersFollow,
       ReleasesAreBacked, Released, IsDraw, Drawn, Rows

LEMMA BeaconKeeps ==
    ASSUME ReleaseInvariant, NEW c \in Candidates
    PROVE  /\ Promise(c) => ReleaseInvariant'
           /\ \A l \in Ledgers : Fix(l, c) => ReleaseInvariant'
<1> USE DEF ReleaseInvariant
<1>1. ASSUME Promise(c) PROVE ReleaseInvariant'
  <2>1. TypeOK' /\ RevealedInOrder' /\ CallsProgress'
    BY <1>1 DEF Promise, TypeOK, RevealedInOrder, CallsProgress, IsDraw, Drawn, Owner, Paid, Rows
  <2> QED
    BY <1>1, <2>1, TablesStay DEF Promise
<1>2. ASSUME NEW l \in Ledgers, Fix(l, c) PROVE ReleaseInvariant'
  <2>1. TypeOK' /\ RevealedInOrder' /\ CallsProgress'
    BY <1>2 DEF Fix, TypeOK, RevealedInOrder, CallsProgress, IsDraw, Drawn, Owner, Paid, Rows
  <2> QED
    BY <1>2, <2>1, TablesStay DEF Fix
<1> QED
  BY <1>1, <1>2

\* New randomness is that of a candidate nobody has drawn for.
LEMMA RevealKeeps ==
    ASSUME ReleaseInvariant, NEW c \in Candidates, NEW r \in Randoms, Reveal(c, r)
    PROVE  ReleaseInvariant'
<1>1. /\ head' = c.round /\ c.round = head + 1 /\ random' = [random EXCEPT ![c] = r]
      /\ UNCHANGED <<promised, fixed, observed, spent, retired, ledger, store, call>>
      /\ TypeOK /\ head \in Nat /\ c.round \in Nat
  BY ReleaseAssumption DEF Reveal, ReleaseInvariant, TypeOK
<1>2. TypeOK'
  BY <1>1 DEF TypeOK
<1>3. random[c] = Hidden
  BY <1>1 DEF ReleaseInvariant, RevealedInOrder
<1>4. \A d \in Candidates : random[d] # Hidden => random'[d] = random[d]
  BY <1>1, <1>3 DEF TypeOK
<1>5. RevealedInOrder'
  BY <1>1, <1>3, ReleaseAssumption DEF ReleaseInvariant, RevealedInOrder, TypeOK
<1>6. \A owner : owner.fixation \in Candidates /\ IsDraw(owner) => IsDraw(owner)'
  BY <1>4 DEF IsDraw, Drawn
<1>7. RowsAreDraws'
  <2>1. /\ \A row \in retired : row.owner.fixation \in Candidates
        /\ \A release \in Released : release.fixation \in Candidates
    BY <1>1 DEF TypeOK, ManifestRows, Owners, Released
  <2> QED
    BY <1>1, <1>6, <2>1 DEF ReleaseInvariant, RowsAreDraws, Released
<1>8. CallsProgress'
  <2> SUFFICES ASSUME NEW p \in Callers, call[p] # Idle
               PROVE  /\ random'[call[p].fixation] # Hidden
                      /\ call[p].at # "begin" => IsDraw(Owner(p))'
    BY <1>1 DEF CallsProgress, ReleaseInvariant, Paid, Owner, Rows
  <2>1. call[p].fixation \in Candidates /\ random[call[p].fixation] # Hidden
    BY <1>1 DEF TypeOK, Calls, ReleaseInvariant, CallsProgress
  <2>2. Owner(p).fixation = call[p].fixation /\ Owner(p)' = Owner(p)
    BY <1>1 DEF Owner
  <2> QED
    BY <1>4, <1>6, <2>1, <2>2 DEF ReleaseInvariant, CallsProgress
<1>9. SpentOnce' /\ OwnedOnce' /\ LedgersFollow' /\ ReleasesAreBacked'
  BY <1>1 DEF ReleaseInvariant, SpentOnce, OwnedOnce, LedgersFollow, ReleasesAreBacked,
              Released, Rows
<1> QED
  BY <1>2, <1>5, <1>7, <1>8, <1>9 DEF ReleaseInvariant

LEMMA RecreateKeeps ==
    ASSUME ReleaseInvariant, NEW l \in Ledgers, RecreateLedger(l) PROVE ReleaseInvariant'
<1>1. TypeOK' /\ LedgersFollow'
  BY DEF RecreateLedger, ReleaseInvariant, TypeOK, LedgersFollow
<1>2. RevealedInOrder' /\ CallsProgress'
  BY DEF RecreateLedger, ReleaseInvariant, RevealedInOrder, CallsProgress, IsDraw, Drawn,
         Owner, Paid, Rows
<1>3. SpentOnce' /\ OwnedOnce' /\ RowsAreDraws' /\ ReleasesAreBacked'
  BY DEF RecreateLedger, ReleaseInvariant, SpentOnce, OwnedOnce, RowsAreDraws,
         ReleasesAreBacked, Released, IsDraw, Drawn, Rows
<1> QED
  BY <1>1, <1>2, <1>3 DEF ReleaseInvariant

LEMMA ObserveKeeps ==
    ASSUME ReleaseInvariant, ObserveBeaconHead PROVE ReleaseInvariant'
<1>1. TypeOK' /\ RevealedInOrder' /\ CallsProgress'
  BY DEF ObserveBeaconHead, beaconVars, ReleaseInvariant, TypeOK, RevealedInOrder,
         CallsProgress, IsDraw, Drawn, Owner, Paid, Rows
<1> QED
  BY <1>1, TablesStay DEF ObserveBeaconHead, beaconVars, ReleaseInvariant

LEMMA StopKeeps ==
    ASSUME ReleaseInvariant, NEW p \in Callers, call[p] # Idle, Stop(p),
           UNCHANGED <<beaconVars, observed, spent, retired, ledger, store>>
    PROVE  ReleaseInvariant'
<1>1. /\ call' \in [Callers -> Calls \cup {Idle}] /\ call'[p] = Idle
      /\ \A q \in Callers : q # p => call'[q] = call[q]
  BY Moves DEF ReleaseInvariant
<1>2. TypeOK' /\ RevealedInOrder'
  BY <1>1 DEF ReleaseInvariant, TypeOK, RevealedInOrder, beaconVars
<1>3. CallsProgress'
  BY <1>1, OneCallMoves DEF beaconVars
<1> QED
  BY <1>2, <1>3, TablesStay DEF ReleaseInvariant, beaconVars

LEMMA ReleaseKeeps ==
    ASSUME ReleaseInvariant, NEW p \in Callers, NEW s \in Stores, NEW l \in Ledgers,
           NEW c \in Candidates, Release(p, s, l, c)
    PROVE  ReleaseInvariant'
<1> DEFINE d == [at |-> "begin", store |-> s, ledger |-> l, fixation |-> c, probe |-> Hidden]
<1>1. /\ call' = [call EXCEPT ![p] = d] /\ IsRevealed(c) /\ observed' = c.round
      /\ CanObserve(c.round) /\ UNCHANGED <<beaconVars, spent, retired, ledger, store>>
  BY DEF Release
<1>2. d \in Calls
  BY DEF Calls, Steps
<1>3. /\ call' \in [Callers -> Calls \cup {Idle}] /\ call'[p] = d
      /\ \A q \in Callers : q # p => call'[q] = call[q]
  BY <1>1, <1>2 DEF ReleaseInvariant, TypeOK
<1>4. observed' \in 1..head
  BY <1>1, ReleaseAssumption DEF ReleaseInvariant, TypeOK, RevealedInOrder, IsRevealed, CanObserve
<1>5. TypeOK' /\ RevealedInOrder'
  BY <1>1, <1>3, <1>4 DEF ReleaseInvariant, TypeOK, RevealedInOrder, beaconVars
<1>6. CallsProgress'
  BY <1>1, <1>3, OneCallMoves DEF beaconVars, IsRevealed
<1> QED
  BY <1>1, <1>5, <1>6, TablesStay DEF ReleaseInvariant, beaconVars

\* A transaction opens with the draw of its candidate, new or recovered.
LEMMA BeginKeeps ==
    ASSUME ReleaseInvariant, NEW p \in Callers, Begin(p) PROVE ReleaseInvariant'
<1> DEFINE s == call[p].store
           c == call[p].fixation
           d(probe) == [call[p] EXCEPT !.at = "allocation", !.probe = probe]
<1>1. /\ call[p] # Idle /\ call[p] \in Calls /\ s \in Stores /\ c \in Candidates
      /\ random[c] # Hidden
      /\ UNCHANGED <<beaconVars, observed, spent, retired, ledger, store>>
  BY DEF Begin, At, ReleaseInvariant, TypeOK, Calls, CallsProgress
<1>2. CASE Stop(p)
  BY <1>1, <1>2, StopKeeps
<1>3. ASSUME NEW probe, call' = [call EXCEPT ![p].at = "allocation", ![p].probe = probe],
             c.eligible # {}, probe = Drawn(c)
      PROVE  ReleaseInvariant'
  <2>1. probe \in Probes
    <3>1. random[c] \in Randoms
      BY <1>1 DEF ReleaseInvariant, TypeOK
    <3> QED
      BY <1>1, <1>3, <3>1, ReleaseAssumption DEF Drawn
  <2>2. d(probe) \in Calls
    BY <1>1, <2>1 DEF Calls, Steps
  <2>3. call' = [call EXCEPT ![p] = d(probe)]
    BY <1>1, <1>3 DEF Calls, ReleaseInvariant, TypeOK
  <2>4. /\ call' \in [Callers -> Calls \cup {Idle}] /\ call'[p] = d(probe)
        /\ \A q \in Callers : q # p => call'[q] = call[q]
    BY <2>2, <2>3 DEF ReleaseInvariant, TypeOK
  <2>5. TypeOK' /\ RevealedInOrder'
    BY <1>1, <2>4 DEF ReleaseInvariant, TypeOK, RevealedInOrder, beaconVars
  <2>6. call'[p].at = "allocation" /\ call'[p].fixation = c /\ call'[p].probe = probe
    BY <1>1, <2>4 DEF Calls
  <2>7. CallsProgress'
    BY <1>1, <1>3, <2>4, <2>6, OneCallMoves DEF beaconVars
  <2> QED
    BY <1>1, <2>5, <2>7, TablesStay DEF ReleaseInvariant, beaconVars
<1>4. CASE \E row \in store[s] :
              row.fixation = c /\ call' = [call EXCEPT ![p].at = FirstFence, ![p].probe = row.probe]
  <2>1. PICK row \in store[s] :
              row.fixation = c /\ call' = [call EXCEPT ![p].at = FirstFence, ![p].probe = row.probe]
    BY <1>4
  <2>2. row \in Released
    BY <1>1, <2>1 DEF Released
  <2>3. c.eligible # {} /\ row.probe = Drawn(c)
    BY <2>1, <2>2 DEF ReleaseInvariant, RowsAreDraws, IsDraw
  <2> QED
    BY <1>3, <2>1, <2>3 DEF FirstFence
<1>5. CASE AsCommitted(s, c) /\ call' = [call EXCEPT ![p].at = FirstFence,
                                         ![p].probe = Draw(random[c], Eligible(s, c))]
  BY <1>3, <1>5 DEF AsCommitted, Drawn, FirstFence
<1> QED
  BY <1>2, <1>4, <1>5 DEF Begin

\* The row of an allocation is written once.
LEMMA SpendKeeps ==
    ASSUME ReleaseInvariant, NEW p \in Callers, ReserveRiskAllocation(p)
    PROVE  ReleaseInvariant'
<1> DEFINE c == call[p].fixation
           row == [slot |-> c.slot, fixation |-> c]
<1>1. /\ call[p] # Idle /\ call[p].at = "allocation" /\ TypeOK
      /\ UNCHANGED <<beaconVars, observed, retired, ledger, store>>
  BY DEF ReserveRiskAllocation, At, ReleaseInvariant
<1>2. /\ c \in Candidates /\ IsDraw(Owner(p))
      /\ c.eligible # {} /\ random[c] # Hidden /\ call[p].probe = Drawn(c)
  BY <1>1, CallOwner DEF IsDraw
<1>3. CASE Pays(c) /\ spent' = spent \cup {row} /\ Continue(p, "manifests")
  <2>1. /\ call' \in [Callers -> Calls \cup {Idle}]
        /\ call'[p] # Idle /\ call'[p].at = "manifests"
        /\ call'[p].fixation = c /\ call'[p].probe = call[p].probe
        /\ \A q \in Callers : q # p => call'[q] = call[q]
    BY <1>1, <1>3, Moves DEF Steps
  <2>2. row \in Spendings
    BY <1>2 DEF Spendings
  <2>3. TypeOK' /\ RevealedInOrder'
    BY <1>1, <1>3, <2>1, <2>2 DEF ReleaseInvariant, TypeOK, RevealedInOrder, beaconVars
  <2>4. SpentOnce'
    BY <1>3 DEF Pays, ReleaseInvariant, SpentOnce
  <2>5. CallsProgress'
    BY <1>1, <1>2, <1>3, <2>1, OneCallMoves DEF beaconVars
  <2>6. OwnedOnce' /\ RowsAreDraws' /\ LedgersFollow'
    BY <1>1 DEF ReleaseInvariant, OwnedOnce, RowsAreDraws, LedgersFollow, beaconVars,
                Released, IsDraw, Drawn
  <2>7. ReleasesAreBacked'
    BY <1>1, <1>3 DEF ReleaseInvariant, ReleasesAreBacked, Released, Rows
  <2> QED
    BY <2>3, <2>4, <2>5, <2>6, <2>7 DEF ReleaseInvariant
<1>4. CASE Stop(p) /\ UNCHANGED spent
  BY <1>1, <1>4, StopKeeps
<1> QED
  BY <1>3, <1>4 DEF ReserveRiskAllocation, SecondFence

\* The rows of a probe's manifests are written once, all or none.
LEMMA OwnKeeps ==
    ASSUME ReleaseInvariant, NEW p \in Callers, ReserveSourceManifests(p)
    PROVE  ReleaseInvariant'
<1> DEFINE c == call[p].fixation
           owner == Owner(p)
<1>1. /\ call[p] # Idle /\ call[p].at = "manifests" /\ TypeOK /\ Paid(c)
      /\ UNCHANGED <<beaconVars, observed, spent, ledger, store>>
  BY DEF ReserveSourceManifests, At, ReleaseInvariant, CallsProgress
<1>2. /\ c \in Candidates /\ owner \in Owners /\ IsDraw(owner)
      /\ owner = [fixation |-> c, probe |-> call[p].probe]
      /\ c.eligible # {} /\ random[c] # Hidden /\ call[p].probe = Drawn(c)
  BY <1>1, CallOwner DEF IsDraw
<1>3. CASE /\ Available(retired, owner) /\ retired' = retired \cup Rows(owner)
           /\ Stop(p) \/ Continue(p, "ledger")
  <2>1. /\ call' \in [Callers -> Calls \cup {Idle}]
        /\ \A q \in Callers : q # p => call'[q] = call[q]
        /\ call'[p] # Idle => /\ call'[p].at = "ledger" /\ call'[p].fixation = c
                             /\ call'[p].probe = call[p].probe
    BY <1>1, <1>3, Moves DEF Steps
  <2>2. /\ Rows(owner) \subseteq ManifestRows
        /\ \A row \in Rows(owner) : row.owner = owner /\ row.manifest \in Sources[owner.probe]
    BY <1>2, RowsAreRows
  <2>3. TypeOK' /\ RevealedInOrder'
    BY <1>1, <1>3, <2>1, <2>2 DEF ReleaseInvariant, TypeOK, RevealedInOrder, beaconVars
  <2>4. OwnedOnce'
    BY <1>3, <2>2 DEF Available, ReleaseInvariant, OwnedOnce
  <2>5. CallsProgress'
    BY <1>1, <1>2, <1>3, <2>1, OneCallMoves DEF beaconVars, Paid
  <2>6. RowsAreDraws'
    <3>1. random' = random /\ Released' = Released
      BY <1>1 DEF beaconVars, Released
    <3>2. \A row \in retired' : IsDraw(row.owner)
      BY <1>2, <1>3, <2>2 DEF ReleaseInvariant, RowsAreDraws
    <3> QED
      BY <3>1, <3>2 DEF ReleaseInvariant, RowsAreDraws, IsDraw, Drawn
  <2>7. SpentOnce' /\ LedgersFollow' /\ ReleasesAreBacked'
    BY <1>1, <1>3 DEF ReleaseInvariant, SpentOnce, LedgersFollow, ReleasesAreBacked,
                      Released, Rows
  <2> QED
    BY <2>3, <2>4, <2>5, <2>6, <2>7 DEF ReleaseInvariant
<1>4. CASE Stop(p) /\ UNCHANGED retired
  BY <1>1, <1>4, StopKeeps
<1> QED
  BY <1>3, <1>4 DEF ReserveSourceManifests

LEMMA LedgerKeeps ==
    ASSUME ReleaseInvariant, NEW p \in Callers, ReserveInLedger(p)
    PROVE  ReleaseInvariant'
<1> DEFINE c == call[p].fixation
           l == call[p].ledger
           owner == Owner(p)
<1>1. /\ call[p] # Idle /\ call[p].at = "ledger" /\ TypeOK /\ Paid(c)
      /\ Rows(owner) \subseteq retired
      /\ UNCHANGED <<beaconVars, observed, spent, retired, store>>
  BY DEF ReserveInLedger, At, ReleaseInvariant, CallsProgress
<1>2. /\ c \in Candidates /\ owner = [fixation |-> c, probe |-> call[p].probe]
      /\ c.eligible # {} /\ random[c] # Hidden /\ call[p].probe = Drawn(c)
  BY <1>1, CallOwner DEF IsDraw
<1>3. CASE ledger' = [ledger EXCEPT ![l] = @ \cup Rows(owner)] /\ Continue(p, "retire")
  <2>1. /\ call' \in [Callers -> Calls \cup {Idle}]
        /\ \A q \in Callers : q # p => call'[q] = call[q]
        /\ call'[p].at = "retire" /\ call'[p].fixation = c /\ call'[p].probe = call[p].probe
    BY <1>1, <1>3, Moves DEF Steps
  <2>2. ledger' \in [Ledgers -> SUBSET ManifestRows] /\ LedgersFollow'
    BY <1>1, <1>3 DEF ReleaseInvariant, TypeOK, LedgersFollow
  <2>3. TypeOK' /\ RevealedInOrder'
    BY <1>1, <2>1, <2>2 DEF ReleaseInvariant, TypeOK, RevealedInOrder, beaconVars
  <2>4. CallsProgress'
    BY <1>1, <1>2, <2>1, OneCallMoves DEF beaconVars, Paid
  <2>5. SpentOnce' /\ OwnedOnce' /\ RowsAreDraws' /\ ReleasesAreBacked'
    BY <1>1 DEF ReleaseInvariant, SpentOnce, OwnedOnce, RowsAreDraws, ReleasesAreBacked,
                Released, Rows, IsDraw, Drawn, beaconVars
  <2> QED
    BY <2>2, <2>3, <2>4, <2>5 DEF ReleaseInvariant
<1>4. CASE Stop(p) /\ UNCHANGED ledger
  BY <1>1, <1>4, StopKeeps
<1> QED
  BY <1>3, <1>4 DEF ReserveInLedger

LEMMA RetireKeeps ==
    ASSUME ReleaseInvariant, NEW p \in Callers, Retire(p)
    PROVE  /\ ReleaseInvariant' /\ Released' = Released \cup {Owner(p)}
           /\ Owner(p) \in Owners /\ IsDraw(Owner(p)) /\ Paid(call[p].fixation)
           /\ Rows(Owner(p)) \subseteq retired
<1> DEFINE s == call[p].store
           owner == Owner(p)
<1>1. /\ call[p] # Idle /\ call[p].at = "retire" /\ TypeOK /\ Paid(call[p].fixation)
      /\ Rows(owner) \subseteq retired /\ Stop(p)
      /\ store' = [store EXCEPT ![s] = @ \cup {owner}]
      /\ UNCHANGED <<beaconVars, observed, spent, retired, ledger>>
  BY DEF Retire, At, ReleaseInvariant, CallsProgress
<1>2. owner \in Owners /\ IsDraw(owner) /\ owner.fixation = call[p].fixation /\ s \in Stores
  BY <1>1, CallOwner DEF Calls
<1>3. /\ call' \in [Callers -> Calls \cup {Idle}] /\ call'[p] = Idle
      /\ \A q \in Callers : q # p => call'[q] = call[q]
  BY <1>1, Moves
<1>4. store' \in [Stores -> SUBSET Owners] /\ Released' = Released \cup {owner}
  BY <1>1, <1>2 DEF TypeOK, Released
<1>5. TypeOK' /\ RevealedInOrder'
  BY <1>1, <1>3, <1>4 DEF ReleaseInvariant, TypeOK, RevealedInOrder, beaconVars
<1>6. CallsProgress'
  BY <1>1, <1>3, OneCallMoves DEF beaconVars
<1>7. SpentOnce' /\ OwnedOnce' /\ LedgersFollow'
  BY <1>1 DEF ReleaseInvariant, SpentOnce, OwnedOnce, LedgersFollow
<1>8. RowsAreDraws'
  BY <1>1, <1>2, <1>4 DEF ReleaseInvariant, RowsAreDraws, IsDraw, Drawn, beaconVars
<1>9. ReleasesAreBacked'
  BY <1>1, <1>2, <1>4 DEF ReleaseInvariant, ReleasesAreBacked, Rows, Paid
<1> QED
  BY <1>1, <1>2, <1>4, <1>5, <1>6, <1>7, <1>8, <1>9 DEF ReleaseInvariant

LEMMA InvariantStarts == Init => ReleaseInvariant
<1> SUFFICES ASSUME Init PROVE ReleaseInvariant
  OBVIOUS
<1>1. TypeOK
  BY DEF Init, TypeOK
<1>2. Released = {}
  BY DEF Init, Released
<1> QED
  BY <1>1, <1>2 DEF Init, ReleaseInvariant, RevealedInOrder, SpentOnce, OwnedOnce, RowsAreDraws,
                    LedgersFollow, CallsProgress, ReleasesAreBacked

LEMMA StutterKeeps == ReleaseInvariant /\ UNCHANGED vars => ReleaseInvariant'
<1> SUFFICES ASSUME ReleaseInvariant, UNCHANGED vars PROVE ReleaseInvariant'
  OBVIOUS
<1>1. TypeOK' /\ RevealedInOrder' /\ CallsProgress'
  BY DEF ReleaseInvariant, vars, beaconVars, TypeOK, RevealedInOrder, CallsProgress, IsDraw,
         Drawn, Owner, Paid, Rows
<1> QED
  BY <1>1, TablesStay DEF ReleaseInvariant, vars, beaconVars

LEMMA StepKeeps == ReleaseInvariant /\ [Next]_vars => ReleaseInvariant'
<1> SUFFICES ASSUME ReleaseInvariant, [Next]_vars PROVE ReleaseInvariant'
  OBVIOUS
<1>1. CASE UNCHANGED vars
  BY <1>1, StutterKeeps
<1>2. CASE Beacon
  BY <1>2, BeaconKeeps, RevealKeeps, RecreateKeeps, ObserveKeeps DEF Beacon
<1>3. ASSUME NEW p \in Callers,
             \E s \in Stores, l \in Ledgers, c \in Candidates : Release(p, s, l, c)
      PROVE  ReleaseInvariant'
  BY <1>3, ReleaseKeeps
<1>4. ASSUME NEW p \in Callers, Step(p) PROVE ReleaseInvariant'
  BY <1>4, SpendKeeps, OwnKeeps, LedgerKeeps, RetireKeeps DEF Step
<1>5. ASSUME NEW p \in Callers, Crash(p) PROVE ReleaseInvariant'
  BY <1>5, StopKeeps DEF Crash
<1> QED
  BY <1>1, <1>2, <1>3, <1>4, <1>5, BeginKeeps DEF Next, Undisturbed

LEMMA InvariantHolds == Spec => []ReleaseInvariant
BY InvariantStarts, StepKeeps, PTL DEF Spec

------------------------------------------------------------------------------
(* Theorems                                                                *)

\* The tables of beacon, registry, ledgers and stores keep their types, and no
\* round is observed before it is revealed.
THEOREM ReleaseTypeCorrect == Spec => []TypeOK
<1>1. ReleaseInvariant => TypeOK
  BY DEF ReleaseInvariant
<1> QED
  BY <1>1, InvariantHolds, PTL

\* release draws once: whatever crashes, is retried or runs beside it, registry and
\* ledgers hold manifests of a fixation for the one probe of its round.
THEOREM DrawIsFinal == Spec => []OneDrawPerFixation
<1>1. ReleaseInvariant => OneDrawPerFixation
  <2> SUFFICES ASSUME ReleaseInvariant, NEW row \in retired, NEW other \in retired,
                      row.owner.fixation = other.owner.fixation
               PROVE  row.owner = other.owner
    BY DEF OneDrawPerFixation, ReleaseInvariant, LedgersFollow
  <2>1. row.owner \in Owners /\ other.owner \in Owners
    BY DEF ReleaseInvariant, TypeOK, ManifestRows
  <2>2. row.owner.probe = other.owner.probe
    BY DEF ReleaseInvariant, RowsAreDraws, IsDraw
  <2> QED
    BY <2>1, <2>2 DEF Owners
<1> QED
  BY <1>1, InvariantHolds, PTL

\* What a store has committed as released, the registry has paid for and retired
\* before: the order of the calls in release is enough, whatever crashes.
THEOREM ReleasesHaveBacking == Spec => []ReleasesAreBacked
<1>1. ReleaseInvariant => ReleasesAreBacked
  BY DEF ReleaseInvariant
<1> QED
  BY <1>1, InvariantHolds, PTL

\* A ledger grants what the registry has granted, a recreated one too.
THEOREM LedgersAgree == Spec => []LedgersNeverRefuse
<1>1. ReleaseInvariant => LedgersNeverRefuse
  <2> SUFFICES ASSUME ReleaseInvariant, NEW p \in Callers, At(p, "ledger"),
                      NEW row \in ledger[call[p].ledger],
                      row.manifest \in Sources[Owner(p).probe]
               PROVE  row.owner = Owner(p)
    BY DEF LedgersNeverRefuse, Available
  <2>1. /\ call[p] # Idle /\ call[p].at = "ledger" /\ call[p].ledger \in Ledgers
        /\ Rows(Owner(p)) \subseteq retired /\ Owner(p) \in Owners
    BY CallOwner DEF At, ReleaseInvariant, CallsProgress, Calls
  <2>2. row \in retired
    BY <2>1 DEF ReleaseInvariant, LedgersFollow
  <2>3. PICK own \in Rows(Owner(p)) : own.manifest = row.manifest /\ own.owner = Owner(p)
    BY <2>1, RowsAreRows
  <2> QED
    BY <2>1, <2>2, <2>3 DEF ReleaseInvariant, OwnedOnce
<1> QED
  BY <1>1, InvariantHolds, PTL

\* A release that is new shares neither fixation nor allocation nor source with
\* those before it.
LEMMA NewReleaseIsApart ==
    ASSUME ReleaseInvariant, NEW release \in Owners, IsDraw(release), Paid(release.fixation),
           Rows(release) \subseteq retired, release \notin Released, NEW other \in Released
    PROVE  /\ other.fixation # release.fixation
           /\ other.fixation.slot # release.fixation.slot
           /\ Sources[other.probe] \cap Sources[release.probe] = {}
<1>1. /\ other \in Owners /\ IsDraw(other) /\ Paid(other.fixation)
      /\ Rows(other) \subseteq retired
  BY DEF ReleaseInvariant, TypeOK, Released, RowsAreDraws, ReleasesAreBacked, Paid
<1>2. other.fixation # release.fixation
  <2>1. ASSUME other.fixation = release.fixation PROVE other.probe = release.probe
    BY <1>1, <2>1 DEF IsDraw
  <2> QED
    BY <1>1, <2>1 DEF Owners
<1>3. other.fixation.slot # release.fixation.slot
  <2> DEFINE row(c) == [slot |-> c.slot, fixation |-> c]
  <2>1. row(other.fixation) \in spent /\ row(release.fixation) \in spent
    BY <1>1 DEF Paid
  <2> QED
    BY <1>2, <2>1 DEF ReleaseInvariant, SpentOnce
<1>4. Sources[other.probe] \cap Sources[release.probe] = {}
  <2> SUFFICES ASSUME NEW m \in Sources[other.probe], m \in Sources[release.probe] PROVE FALSE
    OBVIOUS
  <2>1. PICK row \in Rows(other) : row.manifest = m /\ row.owner = other
    BY <1>1, RowsAreRows
  <2>2. PICK own \in Rows(release) : own.manifest = m /\ own.owner = release
    BY RowsAreRows
  <2> QED
    BY <1>1, <1>2, <2>1, <2>2 DEF ReleaseInvariant, OwnedOnce
<1> QED
  BY <1>2, <1>3, <1>4

\* The released rows of all stores together keep the one-use promise: a step of
\* release is a use or a stutter, copies and successors of a store included.
THEOREM ReleaseIsOneUse == Spec => ImplementsOneUse
<1>1. Init => Promised!Init
  BY DEF Init, Promised!Init, Released
<1>2. ReleaseInvariant /\ [Next]_vars => [Promised!Use]_Released
  <2> SUFFICES ASSUME ReleaseInvariant, [Next]_vars PROVE [Promised!Use]_Released
    OBVIOUS
  <2>1. CASE store' = store
    BY <2>1 DEF Released
  <2>2. ASSUME NEW p \in Callers, Retire(p) PROVE [Promised!Use]_Released
    <3>1. /\ Released' = Released \cup {Owner(p)} /\ Owner(p) \in Owners /\ IsDraw(Owner(p))
          /\ Paid(Owner(p).fixation) /\ Rows(Owner(p)) \subseteq retired
      BY <2>2, RetireKeeps DEF Owner
    <3>2. CASE Owner(p) \in Released
      BY <3>1, <3>2
    <3>3. CASE Owner(p) \notin Released
      BY <3>1, <3>3, NewReleaseIsApart DEF Promised!Use
    <3> QED
      BY <3>2, <3>3
  <2>3. ASSUME NEW p \in Callers, Begin(p) PROVE store' = store
    BY <2>3 DEF Begin
  <2>4. ASSUME NEW p \in Callers, Step(p), ~Retire(p) PROVE store' = store
    BY <2>4 DEF Step, ReserveRiskAllocation, ReserveSourceManifests, ReserveInLedger
  <2>5. ASSUME Beacon PROVE store' = store
    BY <2>5 DEF Beacon, ObserveBeaconHead, RecreateLedger, Promise, Fix, Reveal
  <2> QED
    BY <2>1, <2>2, <2>3, <2>4, <2>5 DEF Next, Undisturbed, Release, Crash, vars
<1> QED
  BY <1>1, <1>2, InvariantHolds, PTL DEF Spec, ImplementsOneUse, Promised!Spec

\* The round that is revealed becomes the last one, with its candidate.
LEMMA RevealIsLastRound ==
    ASSUME ReleaseInvariant, NEW c \in Candidates, NEW r \in Randoms, Reveal(c, r)
    PROVE  LastRound' = [number |-> LastRound.number + 1, fixation |-> c]
<1>1. head \in Nat /\ head >= 1 /\ LastRound.number = head
  BY DEF ReleaseInvariant, TypeOK, LastRound, Checkpoint
<1>2. head' = head + 1 /\ c.round = head + 1 /\ random' = [random EXCEPT ![c] = r]
  BY DEF Reveal
<1>3. r # Hidden
  BY ReleaseAssumption
<1>4. \A d \in Candidates : (IsRevealed(d) /\ d.round = head)' <=> d = c
  <2> SUFFICES ASSUME NEW d \in Candidates
               PROVE  (random'[d] # Hidden /\ d.round = head + 1) <=> d = c
    BY <1>2 DEF IsRevealed
  <2>1. CASE d = c
    BY <1>2, <1>3, <2>1 DEF ReleaseInvariant, TypeOK
  <2>2. CASE d # c
    <3>1. random'[d] = random[d]
      BY <1>2, <2>2 DEF ReleaseInvariant, TypeOK
    <3>2. random[d] # Hidden => d.round <= head
      BY DEF ReleaseInvariant, RevealedInOrder
    <3> QED
      BY <1>1, <2>2, <3>1, <3>2, ReleaseAssumption
  <2> QED
    BY <2>1, <2>2
<1>5. (CHOOSE d \in Candidates : IsRevealed(d) /\ d.round = head)' = c
  BY <1>4
<1>6. head' # 1
  BY <1>1, <1>2
<1> QED
  BY <1>1, <1>2, <1>5, <1>6 DEF LastRound

\* The beacon that releases see keeps the promise that the replicas of BeaconFixation
\* keep: a round is promised before it is revealed and revealed for whom it is promised.
THEOREM ReleasesFollowCommitReveal == Spec => ImplementsCommitReveal
<1>1. Init => Beacons!Init
  BY DEF Init, Beacons!Init, LastRound
<1>2. ReleaseInvariant /\ [Next]_vars => [Beacons!Next]_(Beacons!vars)
  <2> SUFFICES ASSUME ReleaseInvariant, [Next]_vars
               PROVE  Beacons!Next \/ UNCHANGED Beacons!vars
    OBVIOUS
  <2>1. UNCHANGED <<head, random, promised>> => UNCHANGED Beacons!vars
    BY DEF Beacons!vars, LastRound, IsRevealed
  <2>2. ASSUME NEW c \in Candidates, Promise(c) PROVE Beacons!Commit
    <3>1. /\ c.round = head + 1 /\ \A d \in promised : d.round # c.round
          /\ promised' = promised \cup {c} /\ UNCHANGED <<head, random>>
      BY <2>2 DEF Promise, RoundIsFree
    <3>2. c \in promised' \ promised
      BY <3>1
    <3>3. LastRound.number = head /\ UNCHANGED LastRound
      BY <3>1 DEF LastRound, Checkpoint, IsRevealed
    <3> QED
      BY <3>1, <3>2, <3>3 DEF Beacons!Commit, FixedFor
  <2>3. ASSUME NEW c \in Candidates, NEW r \in Randoms, Reveal(c, r) PROVE Beacons!Reveal
    <3>1. c \in promised /\ c.round = head + 1 /\ UNCHANGED promised
      BY <2>3 DEF Reveal, ReleaseInvariant, TypeOK
    <3>2. LastRound.number = head
      BY DEF LastRound, Checkpoint
    <3>3. LastRound' = [number |-> LastRound.number + 1, fixation |-> c]
      BY <2>3, RevealIsLastRound
    <3> QED
      BY <3>1, <3>2, <3>3 DEF Beacons!Reveal, FixedFor
  <2>4. ASSUME Beacon PROVE Beacons!Next \/ UNCHANGED Beacons!vars
    BY <2>1, <2>2, <2>3, <2>4
       DEF Beacon, ObserveBeaconHead, RecreateLedger, Fix, beaconVars, Beacons!Next
  <2>5. ASSUME NEW p \in Callers, Begin(p) \/ Step(p) PROVE UNCHANGED beaconVars
    BY <2>5 DEF Begin, Step, ReserveRiskAllocation, ReserveSourceManifests, ReserveInLedger, Retire
  <2> QED
    BY <2>1, <2>4, <2>5 DEF Next, Undisturbed, Release, Crash, vars, beaconVars
<1> QED
  BY <1>1, <1>2, InvariantHolds, PTL DEF Spec, ImplementsCommitReveal, Beacons!Spec
================================================================================
