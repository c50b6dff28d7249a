----------------------------- MODULE WitnessQuorum -----------------------------
(***************************************************************************)
(* How 3f+1 witnesses certify receipts and handovers (certificate.py):     *)
(* CertificateAuthority.issue and authorize_handover ask one witness after *)
(* the other, each witness has a database of what it has signed, and the   *)
(* registry looks at its own state again when the signatures arrive.       *)
(* Several callers run at once; any of them may die at any time.           *)
(*                                                                         *)
(* A core is identified with the attempt it judges: the replay is a        *)
(* function of candidate and release, so honest witnesses that replay one  *)
(* attempt sign one core.  A receipt hash is its core.  One roster serves  *)
(* all contexts, as when handovers inherit the verification roots.         *)
(***************************************************************************)
EXTENDS Naturals, FiniteSets

CONSTANTS
    f,            \* how many witnesses may be faulty
    Byzantine,    \* the faulty ones: they sign anything at any time
    Flaky,        \* honest ones that sometimes cannot be reached
    Proposers,    \* processes that have receipts issued and append them
    Operators,    \* processes that hand over
    Attempts,     \* the candidates with a released probe
    Accepted,     \* the attempts that the gate commits
    Domains,      \* what else a successor context may choose
    Proposals,    \* the successor contexts that callers ask for
    Genesis,      \* the model the registry is created with
    ZeroHash      \* the head of an empty receipt chain

Witnesses == 0..3 * f

\* Mutant: one honest signature is taken to be enough.
OneHonest == f + 1

Threshold == 2 * f + 1

Honest == Witnesses \ Byzantine

Contexts == [state_version : Nat, model_version : Nat, domain : Domains]

ASSUME WitnessAssumption ==
    /\ f \in Nat
    /\ Byzantine \subseteq Witnesses /\ Cardinality(Byzantine) <= f
    /\ Flaky \subseteq Witnesses
    /\ Accepted \subseteq Attempts
    /\ Proposals \subseteq Contexts

Models == Attempts \cup {Genesis}
Heads  == Attempts \cup {ZeroHash}

\* What the registry is asked about: audit_state and context_head.
States == [context : Contexts, model : Models, head : Heads, version : Nat]

\* What a witness can sign.  The scope is the primary key of signed_scopes and
\* of signed_handovers, the rest is what the signature adds to it.
CoreStatements ==
    [kind : {"core"},
     scope : [context : Contexts, model : Models, head : Heads],
     says : Attempts]

HandoverStatements ==
    [kind : {"handover"},
     scope : Contexts,
     says : [successor : Contexts, head : Heads, model : Models, version : Nat]]

Statements == CoreStatements \cup HandoverStatements

\* A caller: what it does next, for which statement, the witness it asks next
\* and the witnesses whose signatures it holds.
Idle == [op |-> "idle"]

Steps == {"read head", "read model", "read version", "replay", "sign", "record",
          "append", "activate"}

Calls == [op : Steps, statement : Statements, at : Witnesses, by : SUBSET Witnesses]

Callers == Proposers \cup Operators

VARIABLES
    registry,  \* audit_state and context_head
    fixed,     \* the cores of the attempts whose probe has been released
    issued,    \* registry: issued_receipts
    signed,    \* per honest witness: signed_scopes and signed_handovers
    call       \* per caller: Idle or the call it is in

vars == <<registry, fixed, issued, signed, call>>

------------------------------------------------------------------------------
(* What is live                                                            *)

LiveScope == [context |-> registry.context, model |-> registry.model, head |-> registry.head]

\* _handover_fields with what the registry holds now.
LiveHandover(successor) ==
    [kind |-> "handover", scope |-> registry.context,
     says |-> [successor |-> successor, head |-> registry.head,
               model |-> registry.model, version |-> registry.version]]

\* What handover requires of a successor besides its authorization.
Succeeds(successor) ==
    /\ successor.state_version = registry.context.state_version + 1
    /\ successor.model_version = registry.version

\* StateContext.model_successor
ModelSuccessor(context) == [context EXCEPT !.model_version = @ + 1]

Init ==
    /\ \E d \in Domains :
          registry = [context |-> [state_version |-> 0, model_version |-> 0, domain |-> d],
                      model |-> Genesis, head |-> ZeroHash, version |-> 0]
    /\ fixed = {}
    /\ issued = {}
    /\ signed = [w \in Honest |-> {}]
    /\ call = [p \in Callers |-> Idle]

\* A proposer builds a candidate on the live state, has it fixed and its probe
\* released; all of that asks the registry for a schedule of the live context.
Fix(a) ==
    /\ \A s \in fixed : s.says # a
    /\ fixed' = fixed \cup {[kind |-> "core", scope |-> LiveScope, says |-> a]}
    /\ UNCHANGED <<registry, issued, signed, call>>

------------------------------------------------------------------------------
(* Collecting signatures                                                   *)

Continue(p, op) == call' = [call EXCEPT ![p].op = op]

Stop(p) == call' = [call EXCEPT ![p] = Idle]

\* What a caller of this kind does with the next witness, and what it does
\* with 2f+1 signatures.
FirstStep(s) == IF s.kind = "core" THEN "replay" ELSE "sign"

LastStep(s) == IF s.kind = "core" THEN "record" ELSE "activate"

\* Mutant: the loop waits for one signature more.
MoreThanEnough(signatures) == Cardinality(signatures) > Threshold

Enough(signatures) == Cardinality(signatures) = Threshold

\* Mutant: the loop runs past the last witness.
NotPastLast(c) == c.at \in Witnesses

HasNext(c) == c.at + 1 \in Witnesses

\* The loop leaves with a quorum, goes on with the next witness, or has asked
\* them all and raises.
NextWitness(p, signatures) ==
    LET c == [call[p] EXCEPT !.by = signatures]
    IN  IF Enough(signatures)
        THEN call' = [call EXCEPT ![p] = [c EXCEPT !.op = LastStep(c.statement)]]
        ELSE IF HasNext(c)
        THEN call' = [call EXCEPT ![p] = [c EXCEPT !.op = FirstStep(c.statement),
                                                   !.at = c.at + 1]]
        ELSE Stop(p)

Asks(p, op) == call[p].op = op

\* CertificateAuthority.issue starts with an attempt whose context has the
\* caller's roots.
BeginIssue(p, s) ==
    /\ call[p] = Idle
    /\ s \in fixed
    /\ call' = [call EXCEPT ![p] = [op |-> "replay", statement |-> s, at |-> 0, by |-> {}]]
    /\ UNCHANGED <<registry, fixed, issued, signed>>

\* _replay_core: the candidate must belong to the live state.  Its reads of head
\* and context are separate, but a candidate with a release has seen its context
\* live and contexts never come back, so they amount to one read of the head.
\* A witness that refuses is skipped.
Replay(p) ==
    /\ Asks(p, "replay") /\ call[p].at \in Honest
    /\ IF call[p].statement.scope = LiveScope
       THEN Continue(p, "sign")
       ELSE NextWitness(p, call[p].by)
    /\ UNCHANGED <<registry, fixed, issued, signed>>

\* Mutant: a witness takes its own earlier signature for a conflict.
NothingSigned(w, s) == \A t \in signed[w] : t.scope # s.scope

\* Mutant: the table is keyed by what is signed, so nothing ever conflicts.
KeyedByContent(w, s) == \A t \in signed[w] : t = s => t.scope = s.scope

\* The row of the scope is missing or is the row of this very statement.
NoConflict(w, s) == \A t \in signed[w] : t.scope = s.scope => t = s

\* Witness._sign_core and Witness.authorize_handover: the row is committed, then
\* the key signs.  A conflicting row makes the witness refuse.
Sign(p) ==
    LET w == call[p].at
        s == call[p].statement
    IN  /\ Asks(p, "sign") /\ w \in Honest
        /\ IF NoConflict(w, s)
           THEN /\ signed' = [signed EXCEPT ![w] = @ \cup {s}]
                /\ NextWitness(p, call[p].by \cup {w})
           ELSE /\ NextWitness(p, call[p].by)
                /\ UNCHANGED signed
        /\ UNCHANGED <<registry, fixed, issued>>

\* A faulty witness signs whatever it is asked to.
SignBlindly(p) ==
    /\ Asks(p, "replay") \/ Asks(p, "sign")
    /\ call[p].at \in Byzantine
    /\ NextWitness(p, call[p].by \cup {call[p].at})
    /\ UNCHANGED <<registry, fixed, issued, signed>>

\* A witness does not answer, or not with a signature of this statement: it is
\* skipped.
Unavailable(p) ==
    /\ Asks(p, "replay") \/ Asks(p, "sign")
    /\ call[p].at \in Byzantine \cup Flaky
    /\ NextWitness(p, call[p].by)
    /\ UNCHANGED <<registry, fixed, issued, signed>>

\* A caller dies.  Witness.open finds the tables of the witnesses as they were.
Abandon(p) ==
    /\ call[p] # Idle
    /\ Stop(p)
    /\ UNCHANGED <<registry, fixed, issued, signed>>

------------------------------------------------------------------------------
(* Receipts                                                                *)

\* What record_issued_receipt and _append find in the registry.
IsLive(s) == s.scope = LiveScope

\* AuditRegistry.record_issued_receipt; a scope is issued once, a receipt may be
\* recorded again.  A refusal ends the call.
RecordIssuedReceipt(p) ==
    LET s == call[p].statement
    IN  /\ call[p].op = "record"
        /\ IF IsLive(s) /\ \A t \in issued : t.scope = s.scope => t = s
           THEN issued' = issued \cup {s} /\ Continue(p, "append")
           ELSE Stop(p) /\ UNCHANGED issued
        /\ UNCHANGED <<registry, fixed, signed>>

\* The signature part of _verify_public_receipt, for a receipt that names its
\* signers.
CarriesQuorum(c) == c.by \subseteq Witnesses /\ Cardinality(c.by) >= Threshold

Installed(s) ==
    IF s.says \in Accepted
    THEN [context |-> ModelSuccessor(registry.context), model |-> s.says,
          head |-> s.says, version |-> registry.version + 1]
    ELSE [registry EXCEPT !.head = s.says]

\* verify_and_append: an issued receipt is installed if the registry has not
\* moved; otherwise it is on the chain already or refused.
VerifyAndAppend(p) ==
    LET s == call[p].statement
    IN  /\ call[p].op = "append"
        /\ IF CarriesQuorum(call[p]) /\ s \in issued /\ IsLive(s)
           THEN registry' = Installed(s)
           ELSE UNCHANGED registry
        /\ Stop(p)
        /\ UNCHANGED <<fixed, issued, signed>>

------------------------------------------------------------------------------
(* Handover                                                                *)

\* AuditRegistry.handover with an authorizer reads context, head, model and
\* version one after the other, each in a connection of its own.  The caller has
\* built the successor from what it saw.
BeginHandover(p, successor) ==
    /\ call[p] = Idle
    /\ Succeeds(successor)
    /\ call' = [call EXCEPT ![p] =
                  [op |-> "read head", at |-> 0, by |-> {},
                   statement |-> [kind |-> "handover", scope |-> registry.context,
                                  says |-> [successor |-> successor, head |-> ZeroHash,
                                            model |-> Genesis, version |-> 0]]]]
    /\ UNCHANGED <<registry, fixed, issued, signed>>

ReadInto(p, says, next) ==
    /\ call' = [call EXCEPT ![p].statement.says = says, ![p].op = next]
    /\ UNCHANGED <<registry, fixed, issued, signed>>

ReadHead(p) ==
    /\ call[p].op = "read head"
    /\ ReadInto(p, [call[p].statement.says EXCEPT !.head = registry.head], "read model")

ReadModel(p) ==
    /\ call[p].op = "read model"
    /\ ReadInto(p, [call[p].statement.says EXCEPT !.model = registry.model], "read version")

ReadVersion(p) ==
    /\ call[p].op = "read version"
    /\ ReadInto(p, [call[p].statement.says EXCEPT !.version = registry.version], "sign")

\* Mutant: the quorum is trusted to have signed what is live.
BindsSuccessor(s) == s.scope = registry.context

\* expected_authorization: the signatures are for the transition from here.
BindsLiveTransition(s) == s = LiveHandover(s.says.successor)

\* The transaction of handover: verify_handover_authorization and what was
\* signed against what is there now.
Activate(p) ==
    LET s == call[p].statement
        successor == s.says.successor
    IN  /\ call[p].op = "activate"
        /\ IF Succeeds(successor) /\ BindsLiveTransition(s) /\ CarriesQuorum(call[p])
           THEN registry' = [registry EXCEPT !.context = successor]
           ELSE UNCHANGED registry
        /\ Stop(p)
        /\ UNCHANGED <<fixed, issued, signed>>

------------------------------------------------------------------------------

\* What a caller goes through; of the witnesses only faulty ones are silent.
Step(p) ==
    \/ Replay(p) \/ Sign(p) \/ SignBlindly(p)
    \/ Unavailable(p) /\ call[p].at \in Byzantine
    \/ RecordIssuedReceipt(p) \/ VerifyAndAppend(p)
    \/ ReadHead(p) \/ ReadModel(p) \/ ReadVersion(p) \/ Activate(p)

Undisturbed ==
    \/ \E a \in Attempts : Fix(a)
    \/ \E p \in Proposers : \E s \in fixed : BeginIssue(p, s)
    \/ \E p \in Operators : \E x \in Proposals : BeginHandover(p, x)
    \/ \E p \in Callers : Step(p)

Next == Undisturbed \/ \E p \in Callers : Unavailable(p) \/ Abandon(p)

Spec == Init /\ [][Next]_vars

\* Callers come back with an attempt or a successor for as long as it can be
\* taken and finish what they start; in the end no caller dies any more and
\* 2f+1 witnesses answer.
Fairness ==
    /\ \A p \in Callers : WF_vars(Step(p))
    /\ \A a \in Attempts : SF_vars(\E p \in Proposers, s \in fixed : s.says = a /\ BeginIssue(p, s))
    /\ \A x \in Proposals : SF_vars(\E p \in Operators : BeginHandover(p, x))
    /\ <>[][Undisturbed]_vars

FairSpec == Spec /\ Fairness

------------------------------------------------------------------------------
(* Properties                                                              *)

\* Every table and every call keeps its type.
TypeOK ==
    /\ registry \in States
    /\ fixed \subseteq CoreStatements
    /\ issued \subseteq fixed
    /\ signed \in [Honest -> SUBSET Statements]
    /\ call \in [Callers -> Calls \cup {Idle}]

\* Those that have signed a statement or would.
Signers(s) == {w \in Witnesses : w \in Byzantine \/ s \in signed[w]}

HasQuorum(s) == Cardinality(Signers(s)) >= Threshold

\* At most one core of an attempt scope and at most one successor of a context
\* can be shown with a quorum, whatever the faulty witnesses sign, however many
\* callers collect and however often they and the witnesses restart.
OneCertificatePerScope ==
    \A v, w \in Honest : \A s \in signed[v] : \A t \in signed[w] :
        HasQuorum(s) /\ HasQuorum(t) /\ s.scope = t.scope => s = t

\* The registry changes only by what a quorum has said of exactly the state it
\* leaves: no signatures for a head that has moved on, for four values that were
\* never there together or for another successor can move it.
RegistryFollowsQuorum ==
    [][registry' # registry =>
         \E s \in UNION {signed[w] : w \in Honest} :
            /\ HasQuorum(s)
            /\ \/ s.kind = "core" /\ s.scope = LiveScope /\ registry'.head = s.says
               \/ /\ s = LiveHandover(registry'.context)
                  /\ registry' = [registry EXCEPT !.context = s.says.successor]]_vars

\* The witnesses' tables implement the abstract certification.
Certified == {s \in UNION {signed[w] : w \in Honest} : HasQuorum(s)}

Promise == INSTANCE Certification WITH certified <- Certified

ImplementsCertification == Promise!Spec

\* A statement that is true now and that no honest witness has signed a rival of.
Unrivalled(s) ==
    /\ s.kind = "core" => s \in fixed /\ s.scope = LiveScope
    /\ s.kind = "handover" => s = LiveHandover(s.says.successor) /\ Succeeds(s.says.successor)
    /\ \A w \in Honest : \A t \in signed[w] : t.scope = s.scope => t = s

\* An attempt does not stay unrivalled for ever: it is appended, or something
\* else is, or another core of its scope gets an honest signature.  Signatures
\* that a crash has cut off from their caller do not stand in its way.
AttemptsAreDecided ==
    \A a \in Attempts : []<>~(\E s \in fixed : s.says = a /\ Unrivalled(s))

\* Likewise a handover, unless a reject or a commit gets in between or other
\* fields have been signed for the context.
HandoversAreDecided == \A x \in Proposals : []<>~Unrivalled(LiveHandover(x))
================================================================================
