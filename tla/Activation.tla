----------------------------- MODULE Activation -----------------------------
(***************************************************************************)
(* Fenced activation.  Activate (the first transaction) authorizes one     *)
(* route switch; the agent switches traffic and calls                      *)
(* ReportActivationResult (the second transaction), which finalizes the    *)
(* activation or blocks the environment until somebody declares what       *)
(* really happened.                                                        *)
(***************************************************************************)
EXTENDS LeaseLifecycle

CONSTANTS
    MaxRevision,  \* bound on the hostname edits of one environment
    AgentReport   \* the reports the agents send

ASSUME ActivationAssumption ==
    /\ MaxRevision \in Nat
    /\ AgentReport \subseteq Report

\* Reports whose transaction was rolled back by a deterministic error after
\* the occupant check; each is to be recorded by a fresh transaction.
VARIABLE aborted

allVars == <<vars, aborted>>

-----------------------------------------------------------------------------
\* Activate's checks; a call that finds its own operation open is answered
\* from the stored row and one that finds any other is refused.
MayActivate(a) ==
    LET j == JobOf(a)
        e == EnvOf(a)
    IN  /\ lockActiveServerCredential(AttemptServer(a))
        /\ Authority(a)
        /\ ~cancelRequested[j]
        /\ operation[a] = "absent"
        /\ ~EnvironmentUnresolved(e)
        /\ headExists[e]
        /\ ~headFlagged[e]
        /\ release[j] \in {"candidate", "ready"}

Activate(a) ==
    LET j == JobOf(a)
        e == EnvOf(a)
    IN  /\ MayActivate(a)
        /\ MoveDeployment(j, "activating")
        /\ release' = [release EXCEPT ![j] = "ready"]
        /\ operation' = [operation EXCEPT ![a] = "switch_authorized"]
        /\ expectedRevision' = [expectedRevision EXCEPT ![a] = routeRevision[e]]
        /\ expectedActive' = [expectedActive EXCEPT ![a] = activeRelease[e]]
        /\ UNCHANGED <<serverActive, jobState, attemptCount, cancelRequested,
                       attemptVars, slotVars, headVars, evidenceVars, aborted>>

\* Mutant: only the active release is compared, not the revision.
RouteUnmovedByRelease(a) ==
    headExists[EnvOf(a)] /\ activeRelease[EnvOf(a)] = expectedActive[a]

\* The head is where it was when the switch was authorized.
RouteUnmoved(a) ==
    LET e == EnvOf(a)
    IN  /\ headExists[e]
        /\ routeRevision[e] = expectedRevision[a]
        /\ activeRelease[e] = expectedActive[a]

\* The guards of finalizeActivationSucceeded; any that fails rolls it back.
MayFinalize(a) ==
    LET j == JobOf(a)
        e == EnvOf(a)
    IN  /\ RouteUnmoved(a)
        /\ operation[a] = "switch_authorized" => ~headFlagged[e]
        /\ release[j] = "ready"
        /\ expectedActive[a] # None => release[expectedActive[a]] = "active"
        /\ attemptState[a] = "leased"
        /\ current[e] = a
        /\ pending[e] \in {None, a}
        /\ jobState[j] = "leased"

\* Mutant: the displaced release stays active.
ReleasesKept(a) == [release EXCEPT ![JobOf(a)] = "active"]

\* The switched release becomes active, the one it displaced is retained.
ReleasesAfterSwitch(a) ==
    [k \in Job |-> IF k = JobOf(a) THEN "active"
                   ELSE IF k = expectedActive[a] THEN "retained" ELSE release[k]]

finalizeActivationSucceeded(a) ==
    LET j == JobOf(a)
        e == EnvOf(a)
    IN  /\ MayFinalize(a)
        /\ MoveDeployment(j, "healthy")
        /\ release' = ReleasesAfterSwitch(a)
        /\ activeRelease' = [activeRelease EXCEPT ![e] = j]
        /\ routeRevision' = [routeRevision EXCEPT ![e] = @ + 1]
        /\ headFlagged' = [headFlagged EXCEPT ![e] = FALSE]
        /\ operation' = [operation EXCEPT ![a] = "succeeded"]
        /\ attemptState' = [attemptState EXCEPT ![a] = "succeeded"]
        /\ current' = [current EXCEPT ![e] = None]
        /\ pending' = [pending EXCEPT ![e] = None]
        /\ jobState' = [jobState EXCEPT ![j] = "succeeded"]
        /\ UNCHANGED <<serverActive, attemptCount, cancelRequested, attemptFence,
                       lapsed, slotFence, expectedRevision, expectedActive,
                       headExists, recorded, contradicted>>

\* Mutant: a blocked activation is blocked again.
BlockableAgain(a) == Unresolved(a)

\* Only an authorized switch can be blocked.
Blockable(a) == operation[a] = "switch_authorized"

\* The activation's outcome becomes ambiguous: the operation, the head and
\* the slot are flagged and nothing else moves, the attempt stays leased.
\* A failure report is the block's own summary, so its replay is known.
blockActivationForReconciliation(a, report) ==
    LET e == EnvOf(a)
    IN  /\ Blockable(a)
        /\ operation' = [operation EXCEPT ![a] = "reconciliation_required"]
        /\ headFlagged' = [headFlagged EXCEPT ![e] = @ \/ headExists[e]]
        /\ pending' = [pending EXCEPT ![e] = a]
        /\ recorded' = [recorded EXCEPT ![a] = {report} \cap {"failure"}]
        /\ UNCHANGED <<serverActive, jobVars, attemptVars, slotFence, current,
                       lapsed, release, expectedRevision, expectedActive, headExists,
                       routeRevision, activeRelease, reconciled, contradicted>>

\* writeLateEvidence: a report against a blocked activation is evidence,
\* recorded once, and decides nothing.
writeLateEvidence(a, report) ==
    /\ leasedOccupant(a)
    /\ report \notin recorded[a]
    /\ recorded' = [recorded EXCEPT ![a] = @ \cup {report}]
    /\ UNCHANGED <<serverActive, jobVars, attemptVars, slotVars, release,
                   operationVars, headVars, reconciled, contradicted>>

\* traceDeclaredContradiction: one event per attempt for a report that
\* contradicts a declared outcome; the closed operation is not touched.
traceDeclaredContradiction(a) ==
    /\ a \in reconciled
    /\ a \notin contradicted
    /\ contradicted' = contradicted \cup {a}
    /\ UNCHANGED <<serverActive, jobVars, attemptVars, slotVars, release,
                   operationVars, headVars, reconciled, recorded>>

-----------------------------------------------------------------------------
\* ReportActivationResult, one action per arm of its switch on the
\* operation's state.  Authority expiry is deliberately not consulted.

\* Mutant: a late success finalizes a blocked activation.
ReportSuccessLate(a) ==
    /\ lockActiveServerCredential(AttemptServer(a))
    /\ Unresolved(a)
    /\ leasedOccupant(a)
    /\ finalizeActivationSucceeded(a)
    /\ UNCHANGED <<reconciled, aborted>>

\* A matching success while the switch is authorized finalizes.
ReportSuccess(a) ==
    /\ lockActiveServerCredential(AttemptServer(a))
    /\ operation[a] = "switch_authorized"
    /\ leasedOccupant(a)
    /\ finalizeActivationSucceeded(a)
    /\ UNCHANGED <<reconciled, aborted>>

\* A failure, a wrong digest, a moved or missing head, or a finalize that
\* fails deterministically and rolls back to its savepoint, blocks.
ReportBlocked(a, report) ==
    /\ lockActiveServerCredential(AttemptServer(a))
    /\ leasedOccupant(a)
    /\ blockActivationForReconciliation(a, report)
    /\ UNCHANGED aborted

\* The transaction itself aborts (before the savepoint, or at commit): it
\* leaves nothing behind and the block moves to a fresh transaction.
ReportAborts(a, report) ==
    /\ lockActiveServerCredential(AttemptServer(a))
    /\ operation[a] = "switch_authorized"
    /\ leasedOccupant(a)
    /\ aborted' = aborted \cup {<<a, report>>}
    /\ UNCHANGED vars

\* recordBlockInFreshTransaction re-reads everything: other calls may have
\* run since the rollback.  It does not lock the credential again.
recordBlockInFreshTransaction(a, report) ==
    /\ <<a, report>> \in aborted
    /\ aborted' = aborted \ {<<a, report>>}
    /\ \/ /\ leasedOccupant(a)
          /\ blockActivationForReconciliation(a, report)
       \/ /\ operation[a] = "reconciliation_required"
          /\ writeLateEvidence(a, report)
       \/ /\ ~(operation[a] = "switch_authorized" /\ leasedOccupant(a))
          /\ ~(operation[a] = "reconciliation_required" /\ leasedOccupant(a)
                  /\ report \notin recorded[a])
          /\ UNCHANGED vars

ReportLate(a, report) ==
    /\ lockActiveServerCredential(AttemptServer(a))
    /\ operation[a] = "reconciliation_required"
    /\ writeLateEvidence(a, report)
    /\ UNCHANGED aborted

ReportContradicts(a, report) ==
    /\ lockActiveServerCredential(AttemptServer(a))
    /\ \/ operation[a] = "succeeded" /\ report # "success"
       \/ operation[a] = "failed" /\ report # "failure"
    /\ traceDeclaredContradiction(a)
    /\ UNCHANGED aborted

-----------------------------------------------------------------------------
\* Declared resolution of a blocked environment.
Outcome == {"activated", "not_activated", "no_activation"}

resolveNotActivated(a) ==
    LET j == JobOf(a)
        e == EnvOf(a)
    IN  /\ MoveDeployment(j, "failed")
        /\ headFlagged' = [headFlagged EXCEPT ![e] = FALSE]
        /\ operation' = [operation EXCEPT ![a] = "failed"]
        /\ attemptState' = [attemptState EXCEPT ![a] = "expired"]
        /\ current' = [current EXCEPT ![e] = None]
        /\ pending' = [pending EXCEPT ![e] = None]
        /\ jobState' = [jobState EXCEPT ![j] = "failed"]
        /\ UNCHANGED <<serverActive, attemptCount, cancelRequested, attemptFence,
                       lapsed, slotFence, release, expectedRevision,
                       expectedActive, headExists, routeRevision, activeRelease,
                       recorded, contradicted>>

\* Mutant: a declaration needs an attempt whose authority still runs.
BlockedShapeUnexpired(a) ==
    /\ operation[a] = "reconciliation_required"
    /\ Authority(a)

\* The shape every activation block leaves; anything else is refused.
BlockedShape(a) ==
    /\ operation[a] = "reconciliation_required"
    /\ attemptState[a] = "leased"
    /\ jobState[JobOf(a)] = "leased"
    /\ current[EnvOf(a)] = a
    /\ deployment[JobOf(a)] = "activating"

resolveDeclared(a, outcome) ==
    LET e == EnvOf(a)
    IN  IF EnvironmentUnresolved(e)
        THEN /\ BlockedShape(a)
             /\ reconciled' = reconciled \cup {a}
             /\ \/ outcome = "activated" /\ finalizeActivationSucceeded(a)
                \/ outcome = "not_activated" /\ resolveNotActivated(a)
        ELSE /\ outcome = "no_activation"
             /\ attemptState[a] # "leased"
             /\ clearPlainReconciliation(e)

\* The operator's entry point names an environment; a is the attempt its
\* slot's flag holds.
ResolveActivation(a, outcome) ==
    /\ pending[EnvOf(a)] = a
    /\ resolveDeclared(a, outcome)
    /\ UNCHANGED aborted

\* The agent's: its server must still be active and the attempt its own.
ReconcileActivation(a, outcome) ==
    /\ lockActiveServerCredential(AttemptServer(a))
    /\ pending[EnvOf(a)] = a
    /\ resolveDeclared(a, outcome)
    /\ UNCHANGED aborted

-----------------------------------------------------------------------------
\* createRouteHead, or updateRouteHeadHostname with the current revision.
\* Neither looks at an open activation or at the reconciliation flag.
AssignRouteHostname(e) ==
    /\ \/ /\ ~headExists[e]
          /\ headExists' = [headExists EXCEPT ![e] = TRUE]
          /\ UNCHANGED routeRevision
       \/ /\ headExists[e]
          /\ activeRelease[e] = None
          /\ routeRevision[e] < MaxRevision
          /\ routeRevision' = [routeRevision EXCEPT ![e] = @ + 1]
          /\ UNCHANGED headExists
    /\ UNCHANGED <<serverActive, jobVars, attemptVars, slotVars, release,
                   operationVars, activeRelease, headFlagged, evidenceVars,
                   aborted>>
=============================================================================
