-------------------------- MODULE InstalledTransition --------------------------
(***************************************************************************)
(* What CheckAppend and handover promise of the authoritative state: the   *)
(* live context, the model that is served, its version and the receipt     *)
(* head change together or not at all, and only in three ways.  A head is  *)
(* never reached twice.                                                    *)
(***************************************************************************)
EXTENDS Naturals

CONSTANTS Contexts, Models, GenesisModel, InitialContext, ZeroHash

VARIABLES
    context,  \* the live context
    model,    \* the model being served
    version,  \* its version
    head,     \* the last receipt of the audit chain
    past      \* every head there has been

vars == <<context, model, version, head, past>>

Init ==
    /\ context = InitialContext
    /\ model = GenesisModel
    /\ version = InitialContext.model_version
    /\ head = ZeroHash
    /\ past = {ZeroHash}

NewHead ==
    /\ head' \notin past
    /\ past' = past \cup {head'}

\* Install the candidate's model: model, version, context and head move as one.
Commit ==
    /\ NewHead
    /\ model' \in Models
    /\ version' = version + 1
    /\ context' = [context EXCEPT !.model_version = version + 1]

\* Record a refused candidate: only the audit chain grows.
Reject == NewHead /\ UNCHANGED <<context, model, version>>

\* Hand the twin to the next state version; what is installed stays.
Handover ==
    /\ context' \in Contexts
    /\ context'.twin = context.twin
    /\ context'.state_version = context.state_version + 1
    /\ context'.model_version = version
    /\ UNCHANGED <<model, version, head, past>>

Next == Commit \/ Reject \/ Handover

Spec == Init /\ [][Next]_vars
================================================================================
