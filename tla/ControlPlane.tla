---------------------------- MODULE ControlPlane ----------------------------
(***************************************************************************)
(* Recovery (the expiry sweeper and server revocation) and the control     *)
(* plane as a whole: every repository call as an action, interleaved in    *)
(* any order, and what must hold of the rows they share.                   *)
(***************************************************************************)
EXTENDS Activation

-----------------------------------------------------------------------------
\* closeExpiredOrRevokedAttempt, for a set S of leased occupants closed in
\* one transaction.  An attempt with an unresolved activation is diverted:
\* blocked if its switch is still authorized, left alone if already blocked.
\* Mutant: only an activation that is already blocked is diverted.
DivertedIfBlocked(S) == {a \in S : operation[a] = "reconciliation_required"}

Diverted(S) == {a \in S : Unresolved(a)}
NewlyBlocked(S) == {a \in S : operation[a] = "switch_authorized"}
ClosedOrdinary(S) == S \ Diverted(S)

JobAfterClose(a) ==
    IF cancelRequested[JobOf(a)] THEN "cancelled"
    ELSE IF NumberOf(a) >= MaxAttempts THEN "dead" ELSE "retry_wait"

DeploymentAfterClose(a) ==
    CASE JobAfterClose(a) = "cancelled" -> "cancelled"
      [] JobAfterClose(a) = "dead" -> "failed"
      [] OTHER -> deployment[JobOf(a)]

\* The leased attempt of a job (one at most, its latest).
LatestAttempt(j) == <<j, attemptCount[j]>>

closeExpiredOrRevokedAttempts(S) ==
    LET C == ClosedOrdinary(S)
        B == NewlyBlocked(S)
        Closes(j) == LatestAttempt(j) \in C
    IN  /\ \A a \in C : Transition(deployment[JobOf(a)], DeploymentAfterClose(a))
        /\ attemptState' = [a \in Attempt |->
               IF a \in C
               THEN IF cancelRequested[JobOf(a)] THEN "cancelled" ELSE "expired"
               ELSE attemptState[a]]
        /\ slotFence' = [e \in Env |->
               IF current[e] \in C THEN slotFence[e] + 1 ELSE slotFence[e]]
        /\ current' = [e \in Env |-> IF current[e] \in C THEN None ELSE current[e]]
        /\ pending' = [e \in Env |->
               IF current[e] \in C \cup B THEN current[e] ELSE pending[e]]
        /\ jobState' = [j \in Job |->
               IF Closes(j) THEN JobAfterClose(LatestAttempt(j)) ELSE jobState[j]]
        /\ deployment' = [j \in Job |->
               IF Closes(j) THEN DeploymentAfterClose(LatestAttempt(j))
               ELSE deployment[j]]
        /\ operation' = [a \in Attempt |->
               IF a \in B THEN "reconciliation_required" ELSE operation[a]]
        /\ headFlagged' = [e \in Env |->
               IF current[e] \in B THEN headFlagged[e] \/ headExists[e]
               ELSE headFlagged[e]]
        /\ recorded' = [a \in Attempt |-> IF a \in B THEN {} ELSE recorded[a]]
        /\ UNCHANGED <<attemptCount, cancelRequested, attemptFence, lapsed, release,
                       expectedRevision, expectedActive, headExists, routeRevision,
                       activeRelease, reconciled, contradicted, aborted>>

\* Mutant: the sweeper leaves every open activation to its agent.
ExpirableUnlessOpen(a) ==
    /\ attemptState[a] = "leased"
    /\ lapsed[EnvOf(a)]
    /\ ~Unresolved(a)
    /\ current[EnvOf(a)] = a
    /\ jobState[JobOf(a)] = "leased"

\* ExpireBatch's discovery and expireOne's re-validation under the locks.
Expirable(a) ==
    /\ attemptState[a] = "leased"
    /\ lapsed[EnvOf(a)]
    /\ operation[a] # "reconciliation_required"
    /\ current[EnvOf(a)] = a
    /\ jobState[JobOf(a)] = "leased"

expireOne(a) ==
    /\ Expirable(a)
    /\ closeExpiredOrRevokedAttempts({a})
    /\ UNCHANGED serverActive

InFlight(s) ==
    {a \in Attempt : /\ AttemptServer(a) = s
                     /\ attemptState[a] = "leased"
                     /\ current[EnvOf(a)] = a
                     /\ jobState[JobOf(a)] = "leased"}

RevokeServer(s) ==
    /\ serverActive[s]
    /\ serverActive' = [serverActive EXCEPT ![s] = FALSE]
    /\ closeExpiredOrRevokedAttempts(InFlight(s))

-----------------------------------------------------------------------------
CPInit == Init /\ aborted = {}

LeaseStep ==
    /\ \/ \E j \in Job : Enqueue(j) \/ Claim(j) \/ RequestCancellation(j)
       \/ \E a \in Attempt : \/ \E phase \in AgentReportablePhase : ReportProgress(a, phase)
                             \/ \E outcome \in CompletionOutcome : Complete(a, outcome)
                             \/ AcknowledgeCancellation(a)
                             \/ Reconcile(a)
       \/ \E e \in Env : AuthorityLapses(e) \/ MarkReconciled(e)
    /\ UNCHANGED aborted

ActivationStep ==
    \/ \E a \in Attempt :
          \/ Activate(a)
          \/ ReportSuccess(a)
          \/ \E report \in AgentReport :
                \/ ReportBlocked(a, report)
                \/ ReportAborts(a, report)
                \/ recordBlockInFreshTransaction(a, report)
                \/ ReportLate(a, report)
                \/ ReportContradicts(a, report)
          \/ \E outcome \in Outcome : \/ ResolveActivation(a, outcome)
                                      \/ ReconcileActivation(a, outcome)
    \/ \E e \in Env : AssignRouteHostname(e)

RecoveryStep ==
    \/ \E a \in Attempt : expireOne(a)
    \/ \E s \in Server : RevokeServer(s)

Next == LeaseStep \/ ActivationStep \/ RecoveryStep

Spec == CPInit /\ [][Next]_allVars
-----------------------------------------------------------------------------
(* Properties.                                                             *)

\* The type invariant of the store and of the pending fresh transactions.
TypeInvariant == TypeOK /\ aborted \in SUBSET (Attempt \X Report)

\* An attempt is leased exactly while it occupies its environment's slot, at
\* the slot's fence, as the latest attempt of a leased job: so an
\* environment never has two live leases, whatever closed the last one.
LeaseOwnsSlot ==
    /\ \A a \in Attempt : attemptState[a] = "leased" <=> current[EnvOf(a)] = a
    /\ \A e \in Env : current[e] # None =>
          /\ EnvOf(current[e]) = e
          /\ attemptFence[current[e]] = slotFence[e]
          /\ jobState[JobOf(current[e])] = "leased"
          /\ NumberOf(current[e]) = attemptCount[JobOf(current[e])]
    /\ \A j \in Job : jobState[j] = "leased" =>
          LatestAttempt(j) \in Attempt /\ attemptState[LatestAttempt(j)] = "leased"

\* Two attempts of one environment never hold the same fence, and none holds
\* one the slot has not reached, although only Claim and the ordinary close
\* advance the slot's fence (Complete, the cancel acknowledgement and a
\* declared not_activated leave it).
FencesUnique ==
    \A a, b \in Attempt :
       /\ attemptState[a] # "absent" =>
             attemptFence[a] \in 1 .. slotFence[EnvOf(a)]
       /\ /\ a # b
          /\ EnvOf(a) = EnvOf(b)
          /\ "absent" \notin {attemptState[a], attemptState[b]}
          => attemptFence[a] # attemptFence[b]

\* An unresolved activation keeps its attempt leased and in the slot with
\* its deployment activating: expiry, revocation and completion cannot take
\* the environment away while traffic may be switching, and the block flags
\* of slot and head name exactly the blocked activation.
UnresolvedOwnsEnvironment ==
    \A a \in Attempt : Unresolved(a) =>
       /\ leasedOccupant(a)
       /\ deployment[JobOf(a)] = "activating"
       /\ release[JobOf(a)] = "ready"
       /\ IF operation[a] = "reconciliation_required"
          THEN pending[EnvOf(a)] = a /\ headFlagged[EnvOf(a)]
          ELSE pending[EnvOf(a)] = None /\ ~headFlagged[EnvOf(a)]

\* A job whose cancellation was accepted never gets an activation, in
\* whichever order RequestCancellation and Activate reach the slot lock.
CancelledNeverActivates ==
    \A a \in Attempt : cancelRequested[JobOf(a)] => operation[a] = "absent"

\* The tables agree on what runs.  The route head points at the one active
\* release of its environment, and a release is active or retained exactly
\* when its deployment is healthy.  The deployment a user sees never disagrees
\* with its job: a failed or dead job's deployment is failed, a cancelled one's
\* cancelled, and work that is still to run has not ended.
RowsAgree ==
    /\ \A e \in Env : activeRelease[e] # None =>
          headExists[e] /\ EnvironmentOf[activeRelease[e]] = e
    /\ \A j \in Job :
          /\ release[j] = "active" <=> activeRelease[EnvironmentOf[j]] = j
          /\ release[j] \in {"active", "retained"} <=> deployment[j] = "healthy"
          /\ jobState[j] \in {"failed", "dead"} <=> deployment[j] = "failed"
          /\ jobState[j] = "cancelled" <=> deployment[j] = "cancelled"
          /\ jobState[j] = "retry_wait" =>
                deployment[j] \in {"assigned"} \cup AgentReportablePhase
          /\ deployment[j] = "activating" => jobState[j] = "leased"

\* Recovery is never refused by the deployment's status machine: an error in
\* expireOne would abort the rest of ExpireBatch on every tick, and one in
\* revokeInFlightLeases would make the server impossible to revoke.
RecoveryNeverRefused ==
    \A a \in Attempt : attemptState[a] = "leased" /\ ~Unresolved(a) =>
       Transition(deployment[JobOf(a)], DeploymentAfterClose(a))

\* Every environment flagged for reconciliation has a way out: a plain block
\* names a closed attempt and no activation is open, an activation block has
\* the shape resolveDeclared accepts.
FlagResolvable ==
    \A e \in Env : pending[e] # None =>
       IF EnvironmentUnresolved(e)
       THEN BlockedShape(pending[e])
       ELSE attemptState[pending[e]] \in {"expired", "cancelled"} /\ current[e] = None

\* Only a declaration ends an activation block, and a declared or finalized
\* outcome is never changed by a later report, sweep or declaration.
OutcomeIsDeclaredOnce ==
    [][\A a \in Attempt :
          /\ operation[a] = "reconciliation_required" /\ operation'[a] # operation[a]
             => a \in reconciled' \ reconciled
          /\ operation[a] \in {"succeeded", "failed"} => operation'[a] = operation[a]]_allVars

\* Traffic's recorded owner changes only to the release whose attempt holds
\* the slot at the current fence with an authorized or blocked switch.
RouteMovesUnderFence ==
    [][\A e \in Env : activeRelease'[e] # activeRelease[e] =>
          /\ current[e] # None
          /\ activeRelease'[e] = JobOf(current[e])
          /\ attemptFence[current[e]] = slotFence[e]
          /\ Unresolved(current[e])
          /\ routeRevision'[e] = expectedRevision[current[e]] + 1]_allVars

\* What outcome_summary accounts for is never lost: no path blocks an
\* activation twice, which would overwrite the evidence already recorded.
EvidenceNeverLost ==
    [][\A a \in Attempt : recorded[a] \subseteq recorded'[a]]_allVars

\* A closed attempt, a terminal job and a recorded cancellation are final:
\* late, duplicated and fenced-out calls change none of them.
ClosedStaysClosed ==
    [][/\ \A a \in Attempt :
             attemptState[a] \notin {"absent", "leased"} => attemptState'[a] = attemptState[a]
       /\ \A j \in Job :
             /\ jobState[j] \in TerminalJob => jobState'[j] = jobState[j]
             /\ cancelRequested[j] => cancelRequested'[j]]_allVars

\* The promise of FencedEnvironment, kept by the slot rows: attempts are the
\* holders, their fences the tokens, the slot's flag the quarantine.
Fenced == INSTANCE FencedEnvironment
    WITH Holder <- Attempt, holder <- current, fence <- slotFence,
         quarantine <- pending, token <- attemptFence

\* Claims, closes, blocks and clears, in any interleaving, implement
\* FencedEnvironment.
RefinesFencedEnvironment == Fenced!FencedSpec

\* The sweeper ticks for as long as the control plane runs and its discovery
\* orders candidates by deadline, so a lapsed lease it may act on is
\* eventually acted on.  Nothing else is assumed to happen.
FairSpec == Spec /\ \A a \in Attempt : WF_allVars(expireOne(a))

\* A lease whose authority lapsed is eventually closed, or its activation is
\* blocked and visible to the operator: a dead agent cannot hold an
\* environment silently for ever.
LapsedLeaseRecovered ==
    \A a \in Attempt : (attemptState[a] = "leased" /\ lapsed[EnvOf(a)]) ~>
       (attemptState[a] # "leased" \/ pending[EnvOf(a)] = a)

\* A recorded cancellation caps the lease's deadlines for good, so its
\* authority does lapse, and the sweeper then acts.
CancelledAuthorityLapses(e) ==
    /\ current[e] # None
    /\ cancelRequested[JobOf(current[e])]
    /\ AuthorityLapses(e)
    /\ UNCHANGED aborted

CancelFairSpec ==
    /\ FairSpec
    /\ \A e \in Env : WF_allVars(CancelledAuthorityLapses(e))

\* Docs: a cancelled job ends; cancellation is not retried and a waiting job
\* can be cancelled at once.
CancellationEnds ==
    \A j \in Job : cancelRequested[j] ~> jobState[j] \in TerminalJob
=============================================================================
