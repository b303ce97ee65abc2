----------------------------- MODULE StoreState -----------------------------
(***************************************************************************)
(* The rows of the control plane's PostgreSQL database that the lease and  *)
(* activation repositories read and write, and the domain rules of the     *)
(* packages deployment and queue.  Every repository call is one READ       *)
(* COMMITTED transaction that takes the environment's slot row FOR UPDATE  *)
(* before any row below it, so one call is one atomic step.                *)
(*                                                                         *)
(* A job owns exactly one deployment and at most one release; an attempt   *)
(* is the pair (job, attempt_number), and an attempt has at most one       *)
(* activate operation because its fence never changes.                     *)
(***************************************************************************)
EXTENDS Integers

CONSTANTS
    Env,            \* environments
    Server,         \* deployment servers
    Job,            \* deployment-execution jobs
    MaxAttempts,    \* queue.MaxAttempts
    EnvironmentOf,  \* agent_jobs.environment_id
    ServerOf,       \* agent_jobs.server_id
    None            \* SQL NULL in a reference column

Attempt == Job \X (1 .. MaxAttempts)

ASSUME ConstantsAssumption ==
    /\ MaxAttempts \in Nat \ {0}
    /\ EnvironmentOf \in [Job -> Env]
    /\ ServerOf \in [Job -> Server]
    /\ None \notin Job
    /\ None \notin Attempt

JobOf(a) == a[1]
NumberOf(a) == a[2]
EnvOf(a) == EnvironmentOf[a[1]]
AttemptServer(a) == ServerOf[a[1]]

VARIABLES
    serverActive,     \* servers.status = 'active' (with its active credential)
    jobState,         \* agent_jobs.state
    attemptCount,     \* agent_jobs.attempt_count
    cancelRequested,  \* agent_jobs.cancel_requested_at IS NOT NULL
    deployment,       \* deployments.status
    attemptState,     \* agent_job_attempts.state
    attemptFence,     \* agent_job_attempts.fence
    slotFence,        \* environment_slots.fence
    current,          \* environment_slots.current_attempt_id
    pending,          \* environment_slots.reconciliation_attempt_id
    lapsed,           \* the occupant's authority_expires_at <= clock_timestamp()
    release,          \* releases.state
    operation,        \* release_operations.state, kind = 'activate'
    expectedRevision, \* release_operations.expected_route_revision
    expectedActive,   \* release_operations.expected_active_release_id
    headExists,       \* the environment has a route_heads row
    routeRevision,    \* route_heads.route_revision
    activeRelease,    \* route_heads.active_release_id
    headFlagged,      \* route_heads.reconciliation_required
    reconciled,       \* attempts with a 'reconciled' job event
    recorded,         \* reports release_operations.outcome_summary accounts for
    contradicted      \* attempts with a late-report event after 'reconciled'

jobVars == <<jobState, attemptCount, cancelRequested, deployment>>
attemptVars == <<attemptState, attemptFence>>
slotVars == <<slotFence, current, pending, lapsed>>
operationVars == <<operation, expectedRevision, expectedActive>>
headVars == <<headExists, routeRevision, activeRelease, headFlagged>>
evidenceVars == <<reconciled, recorded, contradicted>>
vars == <<serverActive, jobVars, attemptVars, slotVars, release,
          operationVars, headVars, evidenceVars>>

-----------------------------------------------------------------------------
(* Package deployment: the status machine.                                 *)

Status == {"queued", "assigned", "fetching", "building", "starting",
           "health_checking", "activating", "healthy", "failed",
           "cancelled", "superseded", "rolled_back"}

AgentReportablePhase == {"fetching", "building", "starting", "health_checking"}

\* The linear execution path; a status off the path has no order.
ExecutionOrder ==
    [s \in Status \ {"failed", "cancelled", "superseded", "rolled_back"} |->
        CASE s = "queued" -> 0
          [] s = "assigned" -> 1
          [] s = "fetching" -> 2
          [] s = "building" -> 3
          [] s = "starting" -> 4
          [] s = "health_checking" -> 5
          [] s = "activating" -> 6
          [] s = "healthy" -> 7]

\* Mutant: a candidate under health check can no longer be cancelled.
canTransitionNoLateCancel(from, to) ==
    \/ from = "queued" /\ to \in {"assigned", "cancelled", "superseded"}
    \/ from = "assigned" /\ to \in {"fetching", "cancelled", "failed"}
    \/ from = "fetching" /\ to \in {"building", "cancelled", "failed"}
    \/ from = "building" /\ to \in {"starting", "cancelled", "failed"}
    \/ from = "starting" /\ to \in {"health_checking", "cancelled", "failed"}
    \/ from = "health_checking" /\ to \in {"activating", "failed"}
    \/ from = "activating" /\ to \in {"healthy", "failed"}
    \/ from = "healthy" /\ to = "rolled_back"

canTransition(from, to) ==
    \/ from = "queued" /\ to \in {"assigned", "cancelled", "superseded"}
    \/ from = "assigned" /\ to \in {"fetching", "cancelled", "failed"}
    \/ from = "fetching" /\ to \in {"building", "cancelled", "failed"}
    \/ from = "building" /\ to \in {"starting", "cancelled", "failed"}
    \/ from = "starting" /\ to \in {"health_checking", "cancelled", "failed"}
    \/ from = "health_checking" /\ to \in {"activating", "cancelled", "failed"}
    \/ from = "activating" /\ to \in {"healthy", "failed"}
    \/ from = "healthy" /\ to = "rolled_back"

\* Deployment.Transition: repeating the status is a no-op, anything
\* canTransition refuses is an error that rolls the whole transaction back.
Transition(from, to) == from = to \/ canTransition(from, to)

-----------------------------------------------------------------------------
(* Package queue.                                                          *)

JobState == {"absent", "queued", "leased", "retry_wait",
             "succeeded", "failed", "cancelled", "dead"}
TerminalJob == {"succeeded", "failed", "cancelled", "dead"}
AttemptState == {"absent", "leased", "succeeded", "failed", "expired", "cancelled"}

\* The failure classes of a completion: one is retryable, the other five
\* (authorization, invalid_input, cancelled, corrupt_state,
\* permanent_configuration) are treated alike.
FailureClass == {"transient", "permanent"}
Retryable(class) == class = "transient"

-----------------------------------------------------------------------------
(* Activation state and agent reports.                                     *)

ReleaseState == {"absent", "candidate", "ready", "active", "retained"}
OperationState == {"absent", "switch_authorized", "reconciliation_required",
                   "succeeded", "failed"}

\* Stated over the terminal states; an attempt without an operation has no
\* row to be unresolved.
activationTerminalStates == {"succeeded", "failed"}
unresolvedActivation(state) == state \notin activationTerminalStates \cup {"absent"}
Unresolved(a) == unresolvedActivation(operation[a])
EnvironmentUnresolved(e) == \E a \in Attempt : EnvOf(a) = e /\ Unresolved(a)

\* An activation-result report: a success whose digest is the authorized
\* one, a success with another digest, or a failure.
Report == {"success", "mismatch", "failure"}

TypeOK ==
    /\ serverActive \in [Server -> BOOLEAN]
    /\ jobState \in [Job -> JobState]
    /\ attemptCount \in [Job -> 0 .. MaxAttempts]
    /\ cancelRequested \in [Job -> BOOLEAN]
    /\ deployment \in [Job -> Status \cup {"absent"}]
    /\ attemptState \in [Attempt -> AttemptState]
    /\ attemptFence \in [Attempt -> Nat]
    /\ slotFence \in [Env -> Nat]
    /\ current \in [Env -> Attempt \cup {None}]
    /\ pending \in [Env -> Attempt \cup {None}]
    /\ lapsed \in [Env -> BOOLEAN]
    /\ release \in [Job -> ReleaseState]
    /\ operation \in [Attempt -> OperationState]
    /\ expectedRevision \in [Attempt -> Nat]
    /\ expectedActive \in [Attempt -> Job \cup {None}]
    /\ headExists \in [Env -> BOOLEAN]
    /\ routeRevision \in [Env -> Nat]
    /\ activeRelease \in [Env -> Job \cup {None}]
    /\ headFlagged \in [Env -> BOOLEAN]
    /\ reconciled \in SUBSET Attempt
    /\ recorded \in [Attempt -> SUBSET Report]
    /\ contradicted \in SUBSET Attempt

Init ==
    /\ serverActive = [s \in Server |-> TRUE]
    /\ jobState = [j \in Job |-> "absent"]
    /\ attemptCount = [j \in Job |-> 0]
    /\ cancelRequested = [j \in Job |-> FALSE]
    /\ deployment = [j \in Job |-> "absent"]
    /\ attemptState = [a \in Attempt |-> "absent"]
    /\ attemptFence = [a \in Attempt |-> 0]
    /\ slotFence = [e \in Env |-> 0]
    /\ current = [e \in Env |-> None]
    /\ pending = [e \in Env |-> None]
    /\ lapsed = [e \in Env |-> FALSE]
    /\ release = [j \in Job |-> "absent"]
    /\ operation = [a \in Attempt |-> "absent"]
    /\ expectedRevision = [a \in Attempt |-> 0]
    /\ expectedActive = [a \in Attempt |-> None]
    /\ headExists = [e \in Env |-> FALSE]
    /\ routeRevision = [e \in Env |-> 0]
    /\ activeRelease = [e \in Env |-> None]
    /\ headFlagged = [e \in Env |-> FALSE]
    /\ reconciled = {}
    /\ recorded = [a \in Attempt |-> {}]
    /\ contradicted = {}
=============================================================================
