-------------------------- MODULE WitnessQuorumProofs --------------------------
(***************************************************************************)
(* What the witness quorum keeps true for every f, every set of faulty and *)
(* unreachable witnesses and every number of callers, proved with TLAPS.   *)
(***************************************************************************)
EXTENDS WitnessQuorum, FiniteSetTheorems, TLAPS

------------------------------------------------------------------------------
(* Quorums                                                                 *)

LEMMA RosterIsFinite ==
    /\ IsFiniteSet(Witnesses) /\ Cardinality(Witnesses) = 3 * f + 1
    /\ \A Q \in SUBSET Witnesses : IsFiniteSet(Q) /\ Cardinality(Q) \in Nat
<1>1. 0 \in Int /\ 3 * f \in Int /\ 3 * f >= 0
  BY WitnessAssumption
<1>2. IsFiniteSet(0..3 * f)
      /\ Cardinality(0..3 * f) = IF 0 > 3 * f THEN 0 ELSE 3 * f - 0 + 1
  BY <1>1, FS_Interval
<1>3. \A Q \in SUBSET Witnesses : IsFiniteSet(Q)
  BY <1>2, FS_Subset DEF Witnesses
<1> QED
  BY <1>1, <1>2, <1>3, FS_CardinalityType DEF Witnesses

LEMMA LargerQuorum ==
    ASSUME NEW Q \in SUBSET Witnesses, NEW P \in SUBSET Q, Cardinality(P) >= Threshold
    PROVE  Cardinality(Q) >= Threshold
<1>1. Cardinality(P) <= Cardinality(Q)
  BY RosterIsFinite, FS_Subset
<1>2. Cardinality(P) \in Nat /\ Cardinality(Q) \in Nat /\ Threshold \in Nat
  BY RosterIsFinite, WitnessAssumption DEF Threshold
<1> QED
  BY <1>1, <1>2

\* More than f witnesses are not all faulty.
LEMMA SomeoneIsHonest ==
    ASSUME NEW Q \in SUBSET Witnesses, Cardinality(Q) > f
    PROVE  \E w \in Q : w \in Honest
<1> SUFFICES ASSUME Q \subseteq Byzantine PROVE FALSE
  BY DEF Honest
<1>1. Byzantine \subseteq Witnesses /\ Cardinality(Byzantine) <= f /\ f \in Nat
  BY WitnessAssumption
<1>2. Cardinality(Q) <= Cardinality(Byzantine)
  BY <1>1, RosterIsFinite, FS_Subset
<1> QED
  BY <1>1, <1>2, RosterIsFinite

\* Two quorums have an honest witness in common.
LEMMA QuorumsMeet ==
    ASSUME NEW P \in SUBSET Witnesses, NEW Q \in SUBSET Witnesses,
           Cardinality(P) >= Threshold, Cardinality(Q) >= Threshold
    PROVE  \E w \in P \cap Q : w \in Honest
<1>1. Cardinality(P \cup Q) = Cardinality(P) + Cardinality(Q) - Cardinality(P \cap Q)
  BY RosterIsFinite, FS_Union
<1>2. Cardinality(P \cup Q) <= 3 * f + 1
  BY RosterIsFinite, FS_Subset
<1>3. /\ P \cup Q \in SUBSET Witnesses /\ P \cap Q \in SUBSET Witnesses
      /\ Cardinality(P) \in Nat /\ Cardinality(Q) \in Nat
      /\ Cardinality(P \cup Q) \in Nat /\ Cardinality(P \cap Q) \in Nat
  <2>1. P \cup Q \in SUBSET Witnesses /\ P \cap Q \in SUBSET Witnesses
    OBVIOUS
  <2> QED
    BY <2>1, RosterIsFinite
<1>4. Cardinality(P \cap Q) > f
  BY <1>1, <1>2, <1>3, WitnessAssumption DEF Threshold
<1> QED
  BY <1>3, <1>4, SomeoneIsHonest

------------------------------------------------------------------------------
(* The inductive invariant                                                 *)

\* The primary keys of signed_scopes and signed_handovers.
OneRowPerScope ==
    \A w \in Honest : \A s, t \in signed[w] : s.scope = t.scope => s = t

\* A caller holds signatures that were made, and of the statement of its call.
GenuineSignatures ==
    \A p \in Callers : call[p] # Idle => call[p].by \subseteq Signers(call[p].statement)

Reading == {"read head", "read model", "read version"}

\* A call that still reads the registry is for a handover and has no signatures;
\* what is recorded is a core, and every core judges a fixed attempt.
ReadingCalls ==
    \A p \in Callers :
        call[p].op \in Reading => call[p].statement.kind = "handover" /\ call[p].by = {}

JudgedCalls ==
    \A p \in Callers : call[p] # Idle =>
        /\ call[p].op = "record" => call[p].statement.kind = "core"
        /\ call[p].statement.kind = "core" => call[p].statement \in fixed

QuorumInvariant ==
    TypeOK /\ OneRowPerScope /\ GenuineSignatures /\ ReadingCalls /\ JudgedCalls

\* Whoever is not idle is in a call.
LEMMA ACall ==
    ASSUME TypeOK, NEW p \in Callers, call[p].op # "idle"
    PROVE  call[p] # Idle /\ call[p] \in Calls
BY DEF TypeOK, Idle

\* What the loop over the witnesses does to a call.
LEMMA LoopStep ==
    ASSUME TypeOK, NEW p \in Callers, call[p] \in Calls, NEW Q \in SUBSET Witnesses,
           NextWitness(p, Q)
    PROVE  /\ call' \in [Callers -> Calls \cup {Idle}]
           /\ \A q \in Callers : q # p => call'[q] = call[q]
           /\ \/ call'[p] = Idle
              \/ /\ call'[p] \in Calls /\ call'[p].op \notin Reading
                 /\ call'[p].op = "record" => call[p].statement.kind = "core"
                 /\ call'[p].statement = call[p].statement /\ call'[p].by = Q
<1> DEFINE c == [call[p] EXCEPT !.by = Q]
<1>1. c \in Calls /\ c.statement = call[p].statement /\ c.by = Q
  BY DEF Calls
<1>2. CASE Enough(Q)
  <2> DEFINE d == [c EXCEPT !.op = LastStep(c.statement)]
  <2>1. call' = [call EXCEPT ![p] = d]
    BY <1>2 DEF NextWitness
  <2>2. /\ d \in Calls /\ d.op \notin Reading /\ d.statement = call[p].statement /\ d.by = Q
        /\ d.op = "record" => call[p].statement.kind = "core"
    BY <1>1 DEF Calls, LastStep, Steps, Reading
  <2> QED
    BY <2>1, <2>2 DEF TypeOK
<1>3. CASE ~Enough(Q) /\ HasNext(c)
  <2> DEFINE d == [c EXCEPT !.op = FirstStep(c.statement), !.at = c.at + 1]
  <2>1. call' = [call EXCEPT ![p] = d]
    BY <1>3 DEF NextWitness
  <2>2. /\ d \in Calls /\ d.op \notin Reading /\ d.statement = call[p].statement /\ d.by = Q
        /\ d.op # "record"
    BY <1>1, <1>3 DEF Calls, FirstStep, Steps, Reading, HasNext
  <2> QED
    BY <2>1, <2>2 DEF TypeOK
<1>4. CASE ~Enough(Q) /\ ~HasNext(c)
  <2>1. call' = [call EXCEPT ![p] = Idle]
    BY <1>4 DEF NextWitness, Stop
  <2> QED
    BY <2>1 DEF TypeOK
<1> QED
  BY <1>2, <1>3, <1>4

------------------------------------------------------------------------------
(* Types                                                                   *)

\* A statement that equals a handover of the live state is one.
LEMMA LiveStatement ==
    ASSUME TypeOK, NEW s \in Statements, BindsLiveTransition(s)
    PROVE  s \in HandoverStatements /\ s.says.successor \in Contexts
BY DEF BindsLiveTransition, LiveHandover, Statements, HandoverStatements, CoreStatements

LEMMA HandoverCall ==
    ASSUME TypeOK, ReadingCalls, NEW p \in Callers, call[p].op \in Reading
    PROVE  /\ call[p] \in Calls /\ call[p].by = {}
           /\ call[p].statement \in HandoverStatements
<1>1. call[p] \in Calls
  BY ACall DEF Reading
<1>2. call[p].statement \in Statements /\ call[p].statement.kind = "handover"
      /\ call[p].by = {}
  BY <1>1 DEF ReadingCalls, Reading, Calls
<1> QED
  BY <1>1, <1>2 DEF Statements, CoreStatements, HandoverStatements

\* A read fills in one field of the statement.
LEMMA ReadStep ==
    ASSUME TypeOK, ReadingCalls, NEW p \in Callers, call[p].op \in Reading,
           NEW says, says \in [successor : Contexts, head : Heads, model : Models, version : Nat],
           NEW next \in Reading \cup {"sign"}, ReadInto(p, says, next)
    PROVE  /\ TypeOK' /\ ReadingCalls' /\ signed' = signed
           /\ \A q \in Callers : q # p => call'[q] = call[q]
           /\ call'[p].by = {}
<1>1. /\ call[p] \in Calls /\ call[p].by = {}
      /\ call[p].statement \in HandoverStatements
  BY HandoverCall
<1>2. call' = [call EXCEPT ![p].statement.says = says, ![p].op = next]
      /\ UNCHANGED <<registry, fixed, issued, signed>>
  BY DEF ReadInto
<1> DEFINE s == [call[p].statement EXCEPT !.says = says]
           d == [call[p] EXCEPT !.statement = s, !.op = next]
<1>3. s \in HandoverStatements /\ s.kind = "handover"
  BY <1>1 DEF HandoverStatements
<1>4. d \in Calls /\ d.statement = s /\ d.by = {}
  BY <1>1, <1>3 DEF Calls, Statements, Steps, Reading
<1>5. call' = [call EXCEPT ![p] = d]
  BY <1>1, <1>2 DEF Calls, TypeOK
<1>6. /\ call' \in [Callers -> Calls \cup {Idle}] /\ call'[p] = d
      /\ \A q \in Callers : q # p => call'[q] = call[q]
  BY <1>4, <1>5 DEF TypeOK
<1> QED
  BY <1>2, <1>3, <1>4, <1>6 DEF TypeOK, ReadingCalls

------------------------------------------------------------------------------
(* The invariant is inductive                                              *)

\* A step of one call keeps the invariant if it keeps the tables' types and rows
\* and the call that comes out holds genuine signatures.
LEMMA OneCallMoves ==
    ASSUME QuorumInvariant, NEW p \in Callers,
           registry' \in States, issued' \subseteq fixed',
           fixed \subseteq fixed', fixed' \subseteq CoreStatements,
           signed' \in [Honest -> SUBSET Statements],
           \A w \in Honest : signed[w] \subseteq signed'[w],
           OneRowPerScope',
           call' \in [Callers -> Calls \cup {Idle}],
           \A q \in Callers : q # p => call'[q] = call[q],
           \/ call'[p] = Idle
           \/ /\ call'[p].op \notin Reading
              /\ \A w \in call'[p].by \ Byzantine :
                    w \in Honest /\ call'[p].statement \in signed'[w]
              /\ call'[p].op = "record" => call'[p].statement.kind = "core"
              /\ call'[p].statement.kind = "core" => call'[p].statement \in fixed'
    PROVE  QuorumInvariant'
<1>1. TypeOK'
  BY DEF TypeOK
<1>2. GenuineSignatures'
  <2> SUFFICES ASSUME NEW q \in Callers, call'[q] # Idle, NEW w \in call'[q].by
               PROVE  w \in Witnesses
                      /\ (w \in Byzantine \/ call'[q].statement \in signed'[w])
    BY DEF GenuineSignatures, Signers
  <2>1. call'[q] \in Calls
    OBVIOUS
  <2>2. w \in Witnesses
    BY <2>1 DEF Calls
  <2>3. CASE q = p
    BY <2>2, <2>3
  <2>4. CASE q # p
    <3>1. call[q] # Idle /\ call'[q] = call[q]
      BY <2>4
    <3>2. w \in Signers(call[q].statement)
      BY <3>1 DEF QuorumInvariant, GenuineSignatures
    <3>3. w \in Byzantine \/ (w \in Honest /\ call[q].statement \in signed[w])
      BY <3>2 DEF Signers, Honest
    <3> QED
      BY <2>2, <3>1, <3>3
  <2> QED
    BY <2>3, <2>4
<1>3. ReadingCalls'
  <2>1. Idle.op \notin Reading
    BY DEF Idle, Reading
  <2> QED
    BY <2>1 DEF QuorumInvariant, ReadingCalls
<1>4. JudgedCalls'
  BY DEF QuorumInvariant, JudgedCalls
<1> QED
  BY <1>1, <1>2, <1>3, <1>4 DEF QuorumInvariant

\* The tables stay as they are.
LEMMA NothingIsSigned ==
    ASSUME QuorumInvariant, UNCHANGED signed
    PROVE  /\ signed' \in [Honest -> SUBSET Statements]
           /\ \A w \in Honest : signed[w] \subseteq signed'[w]
           /\ OneRowPerScope'
BY DEF QuorumInvariant, TypeOK, OneRowPerScope

\* Whoever is in the signatures of a call is faulty or has its statement.
LEMMA GenuineRow ==
    ASSUME QuorumInvariant, NEW p \in Callers, call[p].op # "idle",
           NEW w \in call[p].by
    PROVE  /\ w \in Witnesses
           /\ w \in Byzantine \/ (w \in Honest /\ call[p].statement \in signed[w])
BY DEF QuorumInvariant, GenuineSignatures, Signers, Honest, Idle

LEMMA JudgedCall ==
    ASSUME QuorumInvariant, NEW p \in Callers, call[p].op # "idle"
    PROVE  /\ call[p].op = "record" => call[p].statement.kind = "core"
           /\ call[p].statement.kind = "core" => call[p].statement \in fixed
BY DEF QuorumInvariant, JudgedCalls, Idle

LEMMA StopStep ==
    ASSUME TypeOK, NEW p \in Callers, Stop(p)
    PROVE  /\ call' \in [Callers -> Calls \cup {Idle}] /\ call'[p] = Idle
           /\ \A q \in Callers : q # p => call'[q] = call[q]
BY DEF TypeOK, Stop

LEMMA ContinueStep ==
    ASSUME TypeOK, NEW p \in Callers, call[p].op # "idle",
           NEW op \in {"sign", "append"}, Continue(p, op)
    PROVE  /\ call' \in [Callers -> Calls \cup {Idle}]
           /\ call'[p] = [call[p] EXCEPT !.op = op]
           /\ call'[p].op \notin Reading /\ call'[p].op # "record"
           /\ call'[p].statement = call[p].statement /\ call'[p].by = call[p].by
           /\ \A q \in Callers : q # p => call'[q] = call[q]
<1>1. call[p] \in Calls
  BY ACall
<1>2. [call[p] EXCEPT !.op = op] \in Calls
  BY <1>1 DEF Calls, Steps
<1> QED
  BY <1>1, <1>2 DEF TypeOK, Continue, Calls, Reading

\* A new attempt.
LEMMA FixKeeps ==
    ASSUME QuorumInvariant, NEW a \in Attempts, Fix(a) PROVE QuorumInvariant'
<1>1. LiveScope \in [context : Contexts, model : Models, head : Heads]
  BY DEF QuorumInvariant, TypeOK, States, LiveScope
<1>2. TypeOK'
  BY <1>1 DEF QuorumInvariant, TypeOK, Fix, CoreStatements
<1> QED
  BY <1>2 DEF QuorumInvariant, Fix, OneRowPerScope, GenuineSignatures, ReadingCalls, JudgedCalls, Signers

\* A witness is asked and nothing is written.
LEMMA AskKeeps ==
    ASSUME QuorumInvariant, NEW p \in Callers, Asks(p, "replay") \/ Asks(p, "sign"),
           UNCHANGED <<registry, fixed, issued, signed>>,
           NEW Q \in SUBSET (call[p].by \cup Byzantine), NextWitness(p, Q)
    PROVE  QuorumInvariant'
<1>1. TypeOK /\ call[p].op # "idle"
  BY DEF QuorumInvariant, Asks
<1>2. call[p] \in Calls
  BY <1>1, ACall
<1>3. Q \in SUBSET Witnesses
  BY <1>2, WitnessAssumption DEF Calls
<1>4. \A w \in Q \ Byzantine : w \in Honest /\ call[p].statement \in signed[w]
  BY <1>1, GenuineRow
<1> QED
  BY <1>1, <1>2, <1>3, <1>4, JudgedCall, LoopStep, NothingIsSigned, OneCallMoves
     DEF TypeOK

\* A caller starts, with nothing signed.
LEMMA BeginKeeps ==
    ASSUME QuorumInvariant, NEW p \in Callers
    PROVE  /\ \A s \in fixed : BeginIssue(p, s) => QuorumInvariant'
           /\ \A x \in Proposals : BeginHandover(p, x) => QuorumInvariant'
<1> USE DEF QuorumInvariant
<1>1. 0 \in Witnesses
  BY WitnessAssumption DEF Witnesses
<1>2. ASSUME NEW s \in fixed, BeginIssue(p, s) PROVE QuorumInvariant'
  <2> DEFINE d == [op |-> "replay", statement |-> s, at |-> 0, by |-> {}]
  <2>1. d \in Calls
    BY <1>1 DEF Calls, Steps, Statements, TypeOK
  <2>2. /\ call' = [call EXCEPT ![p] = d] /\ UNCHANGED <<registry, fixed, issued, signed>>
    BY <1>2 DEF BeginIssue
  <2>3. /\ call' \in [Callers -> Calls \cup {Idle}] /\ call'[p] = d
        /\ \A q \in Callers : q # p => call'[q] = call[q]
    BY <2>1, <2>2 DEF TypeOK
  <2> QED
    BY <2>2, <2>3, NothingIsSigned, OneCallMoves DEF TypeOK, Reading
<1>3. ASSUME NEW x \in Proposals, BeginHandover(p, x) PROVE QuorumInvariant'
  <2> DEFINE s == [kind |-> "handover", scope |-> registry.context,
                   says |-> [successor |-> x, head |-> ZeroHash,
                             model |-> Genesis, version |-> 0]]
             d == [op |-> "read head", at |-> 0, by |-> {}, statement |-> s]
  <2>1. s \in HandoverStatements
    BY WitnessAssumption DEF HandoverStatements, TypeOK, States, Heads, Models
  <2>2. d \in Calls
    BY <1>1, <2>1 DEF Calls, Steps, Statements
  <2>3. /\ call' = [call EXCEPT ![p] = d] /\ UNCHANGED <<registry, fixed, issued, signed>>
    BY <1>3 DEF BeginHandover
  <2>4. /\ call' \in [Callers -> Calls \cup {Idle}] /\ call'[p] = d
        /\ \A q \in Callers : q # p => call'[q] = call[q]
    BY <2>2, <2>3 DEF TypeOK
  <2>5. TypeOK' /\ OneRowPerScope'
    BY <2>3, <2>4 DEF TypeOK, OneRowPerScope
  <2>6. GenuineSignatures'
    BY <2>3, <2>4 DEF GenuineSignatures, Signers
  <2>7. ReadingCalls'
    <3>1. d.statement.kind = "handover" /\ d.by = {}
      OBVIOUS
    <3>2. \A q \in Callers : call'[q] = d \/ call'[q] = call[q]
      BY <2>4
    <3> HIDE DEF d
    <3> QED
      BY <3>1, <3>2 DEF ReadingCalls
  <2>8. JudgedCalls'
    <3>1. d.statement.kind # "core" /\ d.op # "record"
      OBVIOUS
    <3>2. \A q \in Callers : call'[q] = d \/ call'[q] = call[q]
      BY <2>4
    <3> HIDE DEF d
    <3> QED
      BY <2>3, <3>1, <3>2 DEF JudgedCalls
  <2> QED
    BY <2>5, <2>6, <2>7, <2>8
<1> QED
  BY <1>2, <1>3

LEMMA ReplayKeeps ==
    ASSUME QuorumInvariant, NEW p \in Callers, Replay(p) PROVE QuorumInvariant'
<1>1. TypeOK /\ Asks(p, "replay") /\ call[p].op # "idle" /\ call[p] \in Calls
      /\ UNCHANGED <<registry, fixed, issued, signed>>
  BY ACall DEF QuorumInvariant, Replay, Asks
<1>2. CASE Continue(p, "sign")
  <2>1. \A w \in call[p].by \ Byzantine : w \in Honest /\ call[p].statement \in signed[w]
    BY <1>1, GenuineRow
  <2> QED
    BY <1>1, <1>2, <2>1, JudgedCall, ContinueStep, NothingIsSigned, OneCallMoves DEF TypeOK
<1>3. CASE NextWitness(p, call[p].by)
  BY <1>1, <1>3, AskKeeps
<1> QED
  BY <1>2, <1>3 DEF Replay

\* The row of a scope is written once.
LEMMA RowIsWritten ==
    ASSUME QuorumInvariant, NEW w \in Honest, NEW s \in Statements, NoConflict(w, s),
           signed' = [signed EXCEPT ![w] = @ \cup {s}]
    PROVE  /\ signed' \in [Honest -> SUBSET Statements]
           /\ \A v \in Honest : signed[v] \subseteq signed'[v]
           /\ s \in signed'[w]
           /\ \A v \in Honest : \A t \in signed'[v] : t \in signed[v] \/ t = s
           /\ OneRowPerScope'
BY DEF QuorumInvariant, TypeOK, OneRowPerScope, NoConflict

LEMMA SignKeeps ==
    ASSUME QuorumInvariant, NEW p \in Callers, Sign(p) PROVE QuorumInvariant'
<1> DEFINE w == call[p].at
           s == call[p].statement
<1>1. TypeOK /\ Asks(p, "sign") /\ call[p].op # "idle" /\ call[p] \in Calls
      /\ w \in Honest /\ s \in Statements /\ UNCHANGED <<registry, fixed, issued>>
  BY ACall DEF QuorumInvariant, Sign, Asks, Calls
<1>2. CASE NoConflict(w, s)
  <2>1. signed' = [signed EXCEPT ![w] = @ \cup {s}] /\ NextWitness(p, call[p].by \cup {w})
    BY <1>2 DEF Sign
  <2>2. call[p].by \cup {w} \in SUBSET Witnesses
    BY <1>1 DEF Calls
  <2>3. \A v \in call[p].by \ Byzantine : v \in Honest /\ s \in signed[v]
    BY <1>1, GenuineRow
  <2>4. /\ signed' \in [Honest -> SUBSET Statements]
        /\ \A v \in Honest : signed[v] \subseteq signed'[v]
        /\ s \in signed'[w] /\ OneRowPerScope'
    BY <1>1, <1>2, <2>1, RowIsWritten
  <2>5. \A v \in (call[p].by \cup {w}) \ Byzantine : v \in Honest /\ s \in signed'[v]
    BY <1>1, <2>3, <2>4
  <2>6. /\ call' \in [Callers -> Calls \cup {Idle}]
        /\ \A q \in Callers : q # p => call'[q] = call[q]
        /\ \/ call'[p] = Idle
           \/ /\ call'[p].op \notin Reading
              /\ call'[p].op = "record" => s.kind = "core"
              /\ call'[p].statement = s /\ call'[p].by = call[p].by \cup {w}
    BY <1>1, <2>1, <2>2, LoopStep
  <2> QED
    BY <1>1, JudgedCall, <2>4, <2>5, <2>6, OneCallMoves DEF TypeOK
<1>3. CASE ~NoConflict(w, s)
  BY <1>1, <1>3, AskKeeps DEF Sign
<1> QED
  BY <1>2, <1>3

LEMMA FaultyKeeps ==
    ASSUME QuorumInvariant, NEW p \in Callers
    PROVE  /\ SignBlindly(p) => QuorumInvariant'
           /\ Unavailable(p) => QuorumInvariant'
<1>1. ASSUME SignBlindly(p) PROVE QuorumInvariant'
  <2>1. call[p].by \cup {call[p].at} \in SUBSET (call[p].by \cup Byzantine)
    BY <1>1 DEF SignBlindly
  <2> QED
    BY <1>1, <2>1, AskKeeps DEF SignBlindly
<1>2. ASSUME Unavailable(p) PROVE QuorumInvariant'
  BY <1>2, AskKeeps DEF Unavailable
<1> QED
  BY <1>1, <1>2

\* A caller dies or its call is over.
LEMMA AbandonKeeps ==
    ASSUME QuorumInvariant, NEW p \in Callers, Abandon(p) PROVE QuorumInvariant'
BY StopStep, NothingIsSigned, OneCallMoves DEF Abandon, QuorumInvariant, TypeOK

LEMMA RecordKeeps ==
    ASSUME QuorumInvariant, NEW p \in Callers, RecordIssuedReceipt(p) PROVE QuorumInvariant'
<1> DEFINE s == call[p].statement
<1>1. TypeOK /\ call[p].op # "idle" /\ call[p] \in Calls
      /\ UNCHANGED <<registry, fixed, signed>>
  BY ACall DEF QuorumInvariant, RecordIssuedReceipt
<1>2. CASE issued' = issued \cup {s} /\ Continue(p, "append") /\ IsLive(s)
  <2>1. \A w \in call[p].by \ Byzantine : w \in Honest /\ s \in signed[w]
    BY <1>1, GenuineRow
  <2>2. s \in fixed
    BY <1>1, <1>2, JudgedCall DEF RecordIssuedReceipt
  <2> QED
    BY <1>1, <1>2, <2>1, <2>2, ContinueStep, NothingIsSigned, OneCallMoves DEF TypeOK
<1>3. CASE Stop(p) /\ UNCHANGED issued
  BY <1>1, <1>3, StopStep, NothingIsSigned, OneCallMoves DEF TypeOK
<1> QED
  BY <1>2, <1>3 DEF RecordIssuedReceipt

\* What is appended is a core and leaves a registry of the right type.
LEMMA InstalledType ==
    ASSUME TypeOK, NEW s \in issued
    PROVE  s.kind = "core" /\ s \in Statements /\ Installed(s) \in States
<1>1. s \in CoreStatements /\ s.kind = "core" /\ s.says \in Attempts
  BY DEF TypeOK, CoreStatements
<1>2. ModelSuccessor(registry.context) \in Contexts /\ registry \in States
  BY DEF TypeOK, States, Contexts, ModelSuccessor
<1> QED
  BY <1>1, <1>2 DEF Installed, States, Heads, Models, Statements

LEMMA AppendKeeps ==
    ASSUME QuorumInvariant, NEW p \in Callers, VerifyAndAppend(p) PROVE QuorumInvariant'
<1>1. TypeOK /\ Stop(p) /\ UNCHANGED <<fixed, issued, signed>>
  BY DEF QuorumInvariant, VerifyAndAppend
<1>2. registry' \in States
  BY <1>1, InstalledType DEF VerifyAndAppend, TypeOK
<1> QED
  BY <1>1, <1>2, StopStep, NothingIsSigned, OneCallMoves DEF TypeOK

LEMMA ActivateKeeps ==
    ASSUME QuorumInvariant, NEW p \in Callers, Activate(p) PROVE QuorumInvariant'
<1> DEFINE s == call[p].statement
<1>1. TypeOK /\ call[p] \in Calls /\ Stop(p) /\ UNCHANGED <<fixed, issued, signed>>
  BY ACall DEF QuorumInvariant, Activate
<1>2. s \in Statements
  BY <1>1 DEF Calls
<1>3. registry' \in States
  BY <1>1, <1>2, LiveStatement DEF Activate, TypeOK, States
<1> QED
  BY <1>1, <1>3, StopStep, NothingIsSigned, OneCallMoves DEF TypeOK

LEMMA ReadKeeps ==
    ASSUME QuorumInvariant, NEW p \in Callers,
           ReadHead(p) \/ ReadModel(p) \/ ReadVersion(p)
    PROVE  QuorumInvariant'
<1> DEFINE says == call[p].statement.says
           Says == [successor : Contexts, head : Heads, model : Models, version : Nat]
<1>1. call[p].op \in Reading
  BY DEF ReadHead, ReadModel, ReadVersion, Reading
<1>2. TypeOK /\ ReadingCalls /\ registry \in States /\ says \in Says
  BY <1>1, HandoverCall DEF QuorumInvariant, TypeOK, HandoverStatements
<1>3. /\ [says EXCEPT !.head = registry.head] \in Says
      /\ [says EXCEPT !.model = registry.model] \in Says
      /\ [says EXCEPT !.version = registry.version] \in Says
  BY <1>2 DEF States
<1>4. PICK new \in Says, next \in Reading \cup {"sign"} : ReadInto(p, new, next)
  BY <1>3 DEF ReadHead, ReadModel, ReadVersion, Reading
<1>5. /\ TypeOK' /\ ReadingCalls' /\ signed' = signed /\ fixed' = fixed
      /\ \A q \in Callers : q # p => call'[q] = call[q]
      /\ call'[p].by = {} /\ call'[p].statement.kind # "core" /\ call'[p].op # "record"
  <2>1. call[p] \in Calls /\ call[p].statement \in HandoverStatements
    BY <1>1, <1>2, HandoverCall
  <2>2. call'[p].statement.kind # "core" /\ call'[p].op # "record"
    BY <1>2, <1>4, <2>1 DEF ReadInto, Calls, HandoverStatements, TypeOK, Reading
  <2> QED
    BY <1>1, <1>2, <1>4, <2>2, ReadStep DEF ReadInto
<1>6. OneRowPerScope' /\ JudgedCalls'
  BY <1>5 DEF QuorumInvariant, OneRowPerScope, JudgedCalls
<1>7. GenuineSignatures'
  <2> SUFFICES ASSUME NEW q \in Callers, call'[q] # Idle, NEW w \in call'[q].by
               PROVE  w \in Witnesses
                      /\ (w \in Byzantine \/ call'[q].statement \in signed'[w])
    BY DEF GenuineSignatures, Signers
  <2>1. q # p /\ call'[q] = call[q]
    BY <1>5
  <2> QED
    BY <1>5, <2>1 DEF QuorumInvariant, GenuineSignatures, Signers
<1> QED
  BY <1>5, <1>6, <1>7 DEF QuorumInvariant

LEMMA InvariantHolds == Spec => []QuorumInvariant
<1>1. Init => QuorumInvariant
  <2> SUFFICES ASSUME Init PROVE QuorumInvariant
    OBVIOUS
  <2>1. registry \in States
    BY DEF Init, States, Contexts, Heads, Models
  <2>2. /\ fixed = {} /\ issued = {}
        /\ signed \in [Honest -> SUBSET Statements] /\ \A w \in Honest : signed[w] = {}
        /\ call \in [Callers -> Calls \cup {Idle}] /\ \A p \in Callers : call[p] = Idle
    BY DEF Init
  <2>3. Idle.op \notin Reading
    BY DEF Idle, Reading
  <2> QED
    BY <2>1, <2>2, <2>3 DEF QuorumInvariant, TypeOK, OneRowPerScope, GenuineSignatures,
                            ReadingCalls, JudgedCalls
<1>2. QuorumInvariant /\ [Next]_vars => QuorumInvariant'
  <2> SUFFICES ASSUME QuorumInvariant, [Next]_vars PROVE QuorumInvariant'
    OBVIOUS
  <2>1. CASE UNCHANGED vars
    BY <2>1 DEF vars, QuorumInvariant, TypeOK, OneRowPerScope, GenuineSignatures, Signers,
                ReadingCalls, JudgedCalls
  <2>2. ASSUME NEW a \in Attempts, Fix(a) PROVE QuorumInvariant'
    BY <2>2, FixKeeps
  <2>3. ASSUME NEW p \in Proposers, NEW s \in fixed, BeginIssue(p, s) PROVE QuorumInvariant'
    BY <2>3, BeginKeeps DEF Callers
  <2>4. ASSUME NEW p \in Operators, NEW x \in Proposals, BeginHandover(p, x)
        PROVE  QuorumInvariant'
    BY <2>4, BeginKeeps DEF Callers
  <2>5. ASSUME NEW p \in Callers, Step(p) PROVE QuorumInvariant'
    BY <2>5, ReplayKeeps, SignKeeps, FaultyKeeps, RecordKeeps, AppendKeeps, ReadKeeps,
       ActivateKeeps DEF Step
  <2>6. ASSUME NEW p \in Callers, Unavailable(p) \/ Abandon(p) PROVE QuorumInvariant'
    BY <2>6, FaultyKeeps, AbandonKeeps
  <2> QED
    BY <2>1, <2>2, <2>3, <2>4, <2>5, <2>6 DEF Next, Undisturbed
<1> QED
  BY <1>1, <1>2, PTL DEF Spec

------------------------------------------------------------------------------
(* Theorems                                                                *)

\* Registry, tables and calls keep their types; only fixed attempts are issued.
THEOREM QuorumTypeCorrect == Spec => []TypeOK
<1>1. QuorumInvariant => TypeOK
  BY DEF QuorumInvariant
<1> QED
  BY <1>1, InvariantHolds, PTL

LEMMA SignersAreWitnesses == \A s : Signers(s) \in SUBSET Witnesses
BY DEF Signers

\* Two statements about one scope never both have a quorum: an honest witness
\* would have signed both.
LEMMA OneQuorum ==
    ASSUME OneRowPerScope, NEW s, NEW t, HasQuorum(s), HasQuorum(t), s.scope = t.scope
    PROVE  s = t
<1>1. PICK w \in Signers(s) \cap Signers(t) : w \in Honest
  BY SignersAreWitnesses, QuorumsMeet DEF HasQuorum
<1>2. s \in signed[w] /\ t \in signed[w]
  BY <1>1 DEF Signers, Honest
<1> QED
  BY <1>1, <1>2 DEF OneRowPerScope

\* At most one core of an attempt scope and one successor of a context gets a
\* quorum of signatures.
THEOREM CertificatesAreUnique == Spec => []OneCertificatePerScope
<1>1. QuorumInvariant => OneCertificatePerScope
  BY OneQuorum DEF QuorumInvariant, OneCertificatePerScope
<1> QED
  BY <1>1, InvariantHolds, PTL

\* A quorum of signatures that a caller shows has been given by a quorum.
LEMMA ShownQuorum ==
    ASSUME QuorumInvariant, NEW p \in Callers, call[p].op # "idle", CarriesQuorum(call[p])
    PROVE  /\ HasQuorum(call[p].statement)
           /\ call[p].statement \in UNION {signed[w] : w \in Honest}
<1> DEFINE s == call[p].statement
<1>1. call[p].by \in SUBSET Signers(s) /\ call[p].by \in SUBSET Witnesses
  BY DEF QuorumInvariant, GenuineSignatures, Idle, CarriesQuorum
<1>2. HasQuorum(s)
  BY <1>1, SignersAreWitnesses, LargerQuorum DEF HasQuorum, CarriesQuorum
<1>3. Cardinality(call[p].by) > f
  BY <1>1, RosterIsFinite, WitnessAssumption DEF CarriesQuorum, Threshold
<1>4. PICK w \in call[p].by : w \in Honest
  BY <1>1, <1>3, SomeoneIsHonest
<1>5. s \in signed[w]
  BY <1>1, <1>4 DEF Signers, Honest
<1> QED
  BY <1>2, <1>4, <1>5

\* The registry moves only by what a quorum has said of the state it leaves.
THEOREM QuorumMovesRegistry == Spec => RegistryFollowsQuorum
<1> DEFINE Says(s) ==
      /\ HasQuorum(s)
      /\ \/ s.kind = "core" /\ s.scope = LiveScope /\ registry'.head = s.says
         \/ /\ s = LiveHandover(registry'.context)
            /\ registry' = [registry EXCEPT !.context = s.says.successor]
<1>1. QuorumInvariant /\ [Next]_vars
      => [registry' # registry => \E s \in UNION {signed[w] : w \in Honest} : Says(s)]_vars
  <2> SUFFICES ASSUME QuorumInvariant, Next, registry' # registry
               PROVE  \E s \in UNION {signed[w] : w \in Honest} : Says(s)
    OBVIOUS
  <2>1. PICK p \in Callers : VerifyAndAppend(p) \/ Activate(p)
    BY DEF Next, Undisturbed, Step, Fix, BeginIssue, BeginHandover, Replay, Sign,
           SignBlindly, Unavailable, Abandon, RecordIssuedReceipt, ReadHead, ReadModel,
           ReadVersion, ReadInto, Callers
  <2> DEFINE s == call[p].statement
  <2>2. CarriesQuorum(call[p]) /\ call[p].op # "idle"
    BY <2>1 DEF VerifyAndAppend, Activate
  <2>3. HasQuorum(s) /\ s \in UNION {signed[w] : w \in Honest}
    BY <2>2, ShownQuorum
  <2>4. CASE VerifyAndAppend(p)
    <3>1. s \in issued /\ s.scope = LiveScope /\ registry' = Installed(s)
      BY <2>4 DEF VerifyAndAppend, IsLive
    <3>2. s.kind = "core" /\ registry \in States
      BY <3>1, InstalledType DEF QuorumInvariant, TypeOK
    <3>3. registry'.head = s.says
      BY <3>1, <3>2 DEF Installed, States
    <3> QED
      BY <2>3, <3>1, <3>2, <3>3
  <2>5. CASE Activate(p)
    <3>1. s = LiveHandover(s.says.successor)
          /\ registry' = [registry EXCEPT !.context = s.says.successor]
      BY <2>5 DEF Activate, BindsLiveTransition
    <3>2. registry'.context = s.says.successor
      BY <3>1 DEF QuorumInvariant, TypeOK, States
    <3> QED
      BY <2>3, <3>1, <3>2
  <2> QED
    BY <2>1, <2>4, <2>5
<1> QED
  BY <1>1, InvariantHolds, PTL DEF Spec, RegistryFollowsQuorum

\* Signing adds one statement to one table; nothing else touches the tables.
LEMMA OneSignature ==
    ASSUME QuorumInvariant, [Next]_vars
    PROVE  \/ UNCHANGED signed
           \/ \E w \in Honest, s \in Statements :
                 signed' = [signed EXCEPT ![w] = @ \cup {s}] /\ NoConflict(w, s)
<1>1. ASSUME NEW p \in Callers, Sign(p)
      PROVE  \/ UNCHANGED signed
             \/ \E w \in Honest, s \in Statements :
                   signed' = [signed EXCEPT ![w] = @ \cup {s}] /\ NoConflict(w, s)
  BY <1>1, ACall DEF Sign, Asks, QuorumInvariant, Calls
<1> QED
  BY <1>1 DEF Next, Undisturbed, Step, Fix, BeginIssue, BeginHandover, Replay,
              SignBlindly, Unavailable, Abandon, RecordIssuedReceipt, VerifyAndAppend, ReadHead, ReadModel,
              ReadVersion, ReadInto, Activate, vars

\* The tables implement the abstract certification: one statement per scope gets
\* certified and none is ever revoked.
THEOREM QuorumCertifies == Spec => ImplementsCertification
<1>1. Init => Promise!Init
  BY DEF Init, Promise!Init, Certified
<1>2. QuorumInvariant /\ OneCertificatePerScope' /\ [Next]_vars
      => [Promise!Certify]_Certified
  <2> SUFFICES ASSUME QuorumInvariant, OneCertificatePerScope', [Next]_vars, Certified' # Certified
               PROVE  Promise!Certify
    OBVIOUS
  <2>1. PICK w \in Honest, s \in Statements :
           signed' = [signed EXCEPT ![w] = @ \cup {s}] /\ NoConflict(w, s)
    BY OneSignature DEF Certified, HasQuorum, Signers
  <2>2. /\ signed' \in [Honest -> SUBSET Statements]
        /\ \A v \in Honest : signed[v] \subseteq signed'[v]
        /\ s \in signed'[w]
        /\ \A v \in Honest : \A t \in signed'[v] : t \in signed[v] \/ t = s
    BY <2>1, RowIsWritten
  <2>3. ASSUME NEW t \in Certified PROVE t \in Certified'
    <3>1. HasQuorum(t) /\ Signers(t) \in SUBSET {v \in Witnesses : v \in Byzantine \/ t \in signed'[v]}
      BY <2>2 DEF Certified, Signers, Honest
    <3>2. HasQuorum(t)'
      BY <3>1, LargerQuorum DEF HasQuorum, Signers
    <3> QED
      BY <2>2, <3>2 DEF Certified
  <2>4. ASSUME NEW t \in Certified', t # s PROVE t \in Certified
    <3>1. {v \in Witnesses : v \in Byzantine \/ t \in signed'[v]} = Signers(t)
      BY <2>2, <2>4 DEF Signers, Honest
    <3>2. HasQuorum(t)
      BY <3>1 DEF Certified, HasQuorum, Signers
    <3> QED
      BY <2>2, <2>4, <3>2 DEF Certified
  <2>5. s \in Certified' \ Certified /\ Certified' = Certified \cup {s}
    BY <2>3, <2>4
  <2>6. ASSUME NEW t \in Certified, t.scope = s.scope PROVE FALSE
    <3>1. t \in Certified' /\ s \in Certified'
      BY <2>3, <2>5
    <3>2. t = s
      BY <2>6, <3>1 DEF OneCertificatePerScope, Certified
    <3> QED
      BY <2>5, <2>6, <3>2
  <2> QED
    BY <2>5, <2>6 DEF Promise!Certify
<1> QED
  BY <1>1, <1>2, InvariantHolds, CertificatesAreUnique, PTL
     DEF Spec, ImplementsCertification, Promise!Spec
================================================================================
