--------------------------- MODULE LeaseLifecycle ---------------------------
(***************************************************************************)
(* The ordinary life of a lease: enqueue, claim, progress, completion,     *)
(* cancellation, and clearing a plain reconciliation.  Calls that return   *)
(* an error or a stored answer change nothing and are not actions; a       *)
(* duplicated or late call is the same action taken again, which its       *)
(* guards must refuse.                                                     *)
(***************************************************************************)
EXTENDS StoreState

\* lockActiveServerCredential: every agent call first needs its server and
\* credential to be active.
lockActiveServerCredential(s) == serverActive[s]

\* Mutant: the fence alone is taken for authority, although a completion
\* leaves the slot's fence where it was.
fencedAttempt(a) ==
    attemptState[a] # "absent" /\ attemptFence[a] = slotFence[EnvOf(a)]

\* The attempt is the leased occupant of its environment's slot at the
\* slot's fence.
leasedOccupant(a) ==
    /\ attemptState[a] = "leased"
    /\ attemptFence[a] = slotFence[EnvOf(a)]
    /\ current[EnvOf(a)] = a

\* ... and its authority has not expired.
Authority(a) == leasedOccupant(a) /\ ~lapsed[EnvOf(a)]

MoveDeployment(j, to) ==
    /\ Transition(deployment[j], to)
    /\ deployment' = [deployment EXCEPT ![j] = to]

-----------------------------------------------------------------------------
\* enqueueVerifiedPushTx: the intent's deployment and job are created
\* together, both queued.
Enqueue(j) ==
    /\ jobState[j] = "absent"
    /\ jobState' = [jobState EXCEPT ![j] = "queued"]
    /\ deployment' = [deployment EXCEPT ![j] = "queued"]
    /\ UNCHANGED <<serverActive, attemptCount, cancelRequested, attemptVars,
                   slotVars, release, operationVars, headVars, evidenceVars>>

\* Claim's discovery of runnable jobs of the authenticated server; tryClaim
\* asks it again of the locked row.
Candidate(j) ==
    /\ lockActiveServerCredential(ServerOf[j])
    /\ jobState[j] \in {"queued", "retry_wait"}

\* Mutant: the occupancy check is left to the fence.
ClaimableOverOccupant(j) ==
    /\ Candidate(j)
    /\ pending[EnvironmentOf[j]] = None
    /\ ~cancelRequested[j]
    /\ attemptCount[j] < MaxAttempts

\* Mutant: a claim ignores the reconciliation flag.
ClaimableWhenFlagged(j) ==
    /\ Candidate(j)
    /\ current[EnvironmentOf[j]] = None
    /\ ~cancelRequested[j]
    /\ attemptCount[j] < MaxAttempts

\* The checks tryClaim makes under the slot and job locks before it writes.
\* available_at, the order of the candidates and the freeze of runtime
\* configuration only delay a claim.
Claimable(j) ==
    /\ Candidate(j)
    /\ current[EnvironmentOf[j]] = None
    /\ pending[EnvironmentOf[j]] = None
    /\ ~cancelRequested[j]
    /\ attemptCount[j] < MaxAttempts

\* ensureRelease: the first attempt creates the deployment's release, a
\* retry reuses the row after comparing the recomputed digest.
ensureRelease(j) ==
    release' = [release EXCEPT ![j] = IF @ = "absent" THEN "candidate" ELSE @]

\* Mutant: the fence advances only when an expiry or revocation advanced it.
NextFenceReused(e) == IF slotFence[e] = 0 THEN 1 ELSE slotFence[e]

\* The slot's fence advances on every claim and is the new attempt's.
NextFence(e) == slotFence[e] + 1

Claim(j) ==
    LET a == <<j, attemptCount[j] + 1>>
        e == EnvironmentOf[j]
    IN  /\ Claimable(j)
        /\ slotFence' = [slotFence EXCEPT ![e] = NextFence(e)]
        /\ jobState' = [jobState EXCEPT ![j] = "leased"]
        /\ attemptCount' = [attemptCount EXCEPT ![j] = @ + 1]
        /\ attemptState' = [attemptState EXCEPT ![a] = "leased"]
        /\ attemptFence' = [attemptFence EXCEPT ![a] = NextFence(e)]
        /\ current' = [current EXCEPT ![e] = a]
        /\ lapsed' = [lapsed EXCEPT ![e] = FALSE]
        /\ IF attemptCount[j] = 0
           THEN MoveDeployment(j, "assigned")
           ELSE UNCHANGED deployment
        /\ ensureRelease(j)
        /\ UNCHANGED <<serverActive, cancelRequested, pending,
                       operationVars, headVars, evidenceVars>>

\* The database clock passes the occupant's authority deadline without a
\* renewal having moved it; Renew refuses from then on.
AuthorityLapses(e) ==
    /\ current[e] # None
    /\ ~lapsed[e]
    /\ lapsed' = [lapsed EXCEPT ![e] = TRUE]
    /\ UNCHANGED <<serverActive, jobVars, attemptVars, slotFence, current, pending,
                   release, operationVars, headVars, evidenceVars>>

\* A phase at or before the current one is absorbed; a skip is refused.
ReportProgress(a, phase) ==
    LET j == JobOf(a)
    IN  /\ lockActiveServerCredential(AttemptServer(a))
        /\ Authority(a)
        /\ pending[EnvOf(a)] = None
        /\ ~cancelRequested[j]
        /\ deployment[j] \in DOMAIN ExecutionOrder
        /\ ExecutionOrder[phase] = ExecutionOrder[deployment[j]] + 1
        /\ MoveDeployment(j, phase)
        /\ UNCHANGED <<serverActive, jobState, attemptCount, cancelRequested,
                       attemptVars, slotVars, release, operationVars, headVars,
                       evidenceVars>>

-----------------------------------------------------------------------------
\* The effect shared by every close of a live lease that leaves the slot
\* ready for the next claim: the fence stays, only the occupant goes.
FreeSlot(a) ==
    /\ current' = [current EXCEPT ![EnvOf(a)] = None]
    /\ UNCHANGED <<slotFence, pending, lapsed>>

CompletionOutcome == {"succeeded"} \cup FailureClass

JobAfterCompletion(a, outcome) ==
    IF outcome = "succeeded" THEN "succeeded"
    ELSE IF Retryable(outcome)
         THEN IF NumberOf(a) < MaxAttempts THEN "retry_wait" ELSE "dead"
         ELSE "failed"

\* Complete never consults cancel_requested_at.
Complete(a, outcome) ==
    LET j == JobOf(a)
        next == JobAfterCompletion(a, outcome)
    IN  /\ lockActiveServerCredential(AttemptServer(a))
        /\ Authority(a)
        /\ ~Unresolved(a)
        /\ attemptState' = [attemptState EXCEPT ![a] =
                              IF outcome = "succeeded" THEN "succeeded" ELSE "failed"]
        /\ FreeSlot(a)
        /\ jobState' = [jobState EXCEPT ![j] = next]
        /\ IF next \in {"dead", "failed"}
           THEN MoveDeployment(j, "failed")
           ELSE UNCHANGED deployment
        /\ UNCHANGED <<serverActive, attemptCount, cancelRequested, attemptFence,
                       release, operationVars, headVars, evidenceVars>>

\* RequestCancellation of work no agent holds is immediate.  The trigger
\* validate_agent_job_update refuses to move cancel_requested_at once set.
CancelIdle(j) ==
    /\ jobState[j] \in {"queued", "retry_wait"}
    /\ ~cancelRequested[j]
    /\ jobState' = [jobState EXCEPT ![j] = "cancelled"]
    /\ cancelRequested' = [cancelRequested EXCEPT ![j] = TRUE]
    /\ MoveDeployment(j, "cancelled")
    /\ UNCHANGED <<serverActive, attemptCount, attemptVars, slotVars, release,
                   operationVars, headVars, evidenceVars>>

\* Mutant: cancellation does not look at the deployment.
LeaseCancellableAnytime(j) == jobState[j] = "leased" /\ ~cancelRequested[j]

\* Once the deployment is activating a cancellation is refused.
LeaseCancellable(j) ==
    /\ jobState[j] = "leased"
    /\ ~cancelRequested[j]
    /\ deployment[j] # "activating"

\* RequestCancellation of leased work only records the request and caps the
\* deadlines.
CancelLeased(j) ==
    /\ LeaseCancellable(j)
    /\ cancelRequested' = [cancelRequested EXCEPT ![j] = TRUE]
    /\ UNCHANGED <<serverActive, jobState, attemptCount, deployment, attemptVars,
                   slotVars, release, operationVars, headVars, evidenceVars>>

RequestCancellation(j) == CancelIdle(j) \/ CancelLeased(j)

AcknowledgeCancellation(a) ==
    LET j == JobOf(a)
    IN  /\ lockActiveServerCredential(AttemptServer(a))
        /\ Authority(a)
        /\ cancelRequested[j]
        /\ attemptState' = [attemptState EXCEPT ![a] = "cancelled"]
        /\ FreeSlot(a)
        /\ jobState' = [jobState EXCEPT ![j] = "cancelled"]
        /\ MoveDeployment(j, "cancelled")
        /\ UNCHANGED <<serverActive, attemptCount, cancelRequested, attemptFence,
                       release, operationVars, headVars, evidenceVars>>

-----------------------------------------------------------------------------
\* Clear the slot's flag and append the 'reconciled' event.
clearPlainReconciliation(e) ==
    /\ pending' = [pending EXCEPT ![e] = None]
    /\ reconciled' = reconciled \cup {pending[e]}
    /\ UNCHANGED <<serverActive, jobVars, attemptVars, slotFence, current, lapsed,
                   release, operationVars, headVars, recorded, contradicted>>

\* The agent reports the closed attempt whose flag it left behind.
Reconcile(a) ==
    /\ lockActiveServerCredential(AttemptServer(a))
    /\ attemptState[a] \notin {"absent", "leased"}
    /\ ~Unresolved(a)
    /\ pending[EnvOf(a)] = a
    /\ clearPlainReconciliation(EnvOf(a))

\* Mutant: the break-glass clear does not require a flag.
MarkUnflaggedReconciled(e) ==
    /\ ~EnvironmentUnresolved(e)
    /\ clearPlainReconciliation(e)

\* The administrator's break-glass clear, refused while an activation of
\* the environment is unresolved.
MarkReconciled(e) ==
    /\ pending[e] # None
    /\ ~EnvironmentUnresolved(e)
    /\ clearPlainReconciliation(e)
=============================================================================
