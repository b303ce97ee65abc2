# autoDeploy: TLA+ specification and proofs

This directory specifies the parts of autoDeploy where concurrency, failures and
restarts decide correctness. TLC checks small instances of every module; TLAPS
proves most of the safety properties for every number of environments, jobs,
requests, repositories, servers and administrators.

## The system

The control plane keeps its state in PostgreSQL. Agents only call out: they
enrol, poll for a lease, check out the source, report progress, ask for authority
to switch traffic, report what happened, and complete. Every call may be lost,
repeated or late. An environment has one *slot* row with a monotonic *fence*; a
claim puts an attempt into the slot, gives it the next fence, valid until a
deadline that renewals move, and freezes the configuration it will run with.
GitHub webhooks create the jobs, as far as installations, repositories and
bindings authorize it. On the host, two privileged helpers give a checkout its
workspace under a disk quota and run Git in it. Operators log in, edit
configurations, cancel jobs, revoke servers and declare the outcome of
activations nobody could observe. A sweeper closes lapsed leases.

| Part | State | Operations | Module |
|---|---|---|---|
| Lease repository (`agent_lease_repository.go`, `agent_lease_materialize.go`) | jobs, attempts, slots | Claim, Renew, ReportProgress, Complete, RequestCancellation, AcknowledgeCancellation, Reconcile, MarkReconciled | `LeaseLifecycle` |
| Fenced activation (same file, `activation_late_report.go`, `activation_state.go`) | release operations, releases, route heads, evidence | Activate, ReportActivationResult | `Activation` |
| Declared resolution (`activation_resolution.go`), route heads (`route_head_repository.go`) | the same rows, hostname revision | ResolveActivation, ReconcileActivation, AssignRouteHostname | `Activation` |
| Sweeper and revocation (`agent_lease_sweeper.go`, `server_repository.go`) | the same rows, server status | ExpireBatch / expireOne, RevokeServer | `ControlPlane` |
| Deployment and queue domain (`internal/deployment`, `internal/queue`) | status, failure class | Transition, Retryable | `StoreState` |
| Agent fence files (`agent/state/state.go`) | a file per environment, the index | Load, Save | `FenceStore` |
| Agent loop (`agent/client/run.go`) | the lease in hand, the fence files | claim, accept or refuse, renew, drain, report | `AgentLoop`, over `FencedEnvironment` |
| GitHub authority (`github_repository.go`) | installations, repositories, bindings | CompleteHandoff, BindRepository, DisableInstallation, ReconcileInstallation | `GitHubAuthority` |
| Webhooks (`github/http/handler.go`, `webhook_job_repository.go`) | receipts, intents | ProcessPush, ProcessLifecycle, Reject | `Webhooks`, over `GitHubAuthority` |
| Checkout credentials (`githubapp/checkout.go`, `agent/http/checkout.go`) | reservations, registry, leases, tokens | begin, start, close, invalidation | `Checkout`, over `GitHubAuthority` |
| Quota service (`internal/checkoutquota`) | the ledger on disk and in memory, directories, kernel limits | allocate, acknowledge, release, query, reconcile | `QuotaLedger` |
| Checkout on the host (`internal/gitcheckout`, `cmd/checkout-exec`, `agent/executor/checkout.go`) | a checkout, its connections, its Git child | allocate, run Git, keep or retire the workspace | `GitWorkspace`, over `QuotaLedger` |
| Login throttle (`auth_repository.go`) | buckets, backoff rows, key rings | ReserveThrottle, rotation, clean-up | `LoginThrottle` |
| Administrator login (`web.go`, `auth_repository.go`, `internal/admincli`) | account, sessions | Bootstrap, login, touch, logout, password reset | `AdminLogin`, over `LoginThrottle` |
| Server registry (`server_repository.go`, `agent/client/enroll.go`, `credential.go`) | servers, tokens, credential versions, the host's file | register, issue, enrol, rotate, heartbeat, revoke | `ServerRegistry` |
| Runtime configuration, secrets, freeze, materialization (`environment_runtime_config_repository.go`, `secret_repository.go`, `agent_lease_execution.go`, `agent/http/materialize.go`) | configuration, bindings, versions, frozen attempts | edit, bind, replace, claim-time freeze, materialize | `RuntimeConfig` |

`PROJECT.json` lists every part of the repository with its status and, for those
left out or modelled in part, the reason; it also maps each definition to the
lines it translates. Each `MC` module instantiates one of the modules for TLC,
each `Proofs` module holds theorems about one or about a few that belong together.

## How the model corresponds to the code

*Atomicity.* A step of the model is what the code does under one lock or in one
transaction. A repository method of the lease core is one short READ COMMITTED
transaction. All that touch an environment lock its `environment_slots` row first
(`Claim` and the sweeper with `SKIP LOCKED`) and hold it to the commit, so one
call is one action. Reads made before the lock are repeated under it. The one
method that uses two transactions, a report whose first transaction aborts
deterministically, is two actions (`ReportAborts`,
`recordBlockInFreshTransaction`) with `aborted` holding what is still to be
recorded. `AssignRouteHostname` does not take the slot lock; it locks the route
head, which `Activate` and the finalization also lock to their commit. Where a
handler holds no lock between its calls (checkouts, logins, enrolments, the
freeze, the quota service between two system calls), it is as many steps as it
has calls.

*Refused calls.* A call that returns an error or answers from a stored row
changes nothing and is not an action. Late and duplicated calls are the same
action taken again; its guard has to refuse them.

*Time.* `lapsed[e]` says that the occupant's `authority_expires_at` has passed.
It turns true at any moment (`AuthorityLapses`): the agent may or may not have
renewed. Retry delays only postpone a claim and are left out. `AdminLogin` has a
clock, because windows, delays and session lives are compared with each other;
elsewhere a deadline is a flag that turns.

*Data.* A job stands for its deployment and its release, an attempt is the pair
of job and number, an attempt's activate operation is a field of the attempt.
Digests are reduced to whether a report's digest is the authorized one. The five
non-retryable failure classes behave alike and are one value. `recorded` is the
set of reports that `outcome_summary` accounts for; the byte limit of that column
(`activation_late_report.go:122`) is left out, as are the window of five
candidates a claim discovers, the cap on renewals and the hostname that a replay
compares. Random values are model values or numbers drawn from a counter.

*The agent* sees the control plane as `FencedEnvironment`, which the lease core
is proved to implement, plus the lapse, renewal and cancellation of its lease.
Its client has no activation call (`httpclient.go:27-38`), so a sweep or a
revocation finds nothing unresolved here. The executor need not ever return.
`Save` is two atomic file writes, so it is two steps, and the agent may stop
between them. `MaxDamage` bounds files lost or damaged from outside: the index
and the files vouch for each other, so one loss is what they can detect and two
(a file and its entry) are indistinguishable from an environment never met.

*Webhooks.* A request is one transaction and one action, and its answer is kept
in `answer`. A request whose transaction fails leaves no trace but a missing
answer. The signature, the headers and the parsing decide only whether a body is
malformed. `Nonce` makes bodies that say the same differ, as timestamps do.
`consent` is a history variable: the projects that an administrator has bound and
whose repository has not lost its authority since.

*Checkouts.* A request is several steps, because `handleCheckoutStart` and
`handleCheckoutClose` hold no lock between their transactions, the calls of
GitHub and the accesses of the registry. Any of these may fail, and so may the
clean-up after a failure. A restart forgets the registry, the leases and the
requests in progress and keeps the reservations and the tokens. `broken` and
`minted` are history variables for the properties. Attempts come and go as the
lease core lets them, one per environment.

*Workspaces.* The service holds one mutex per call, but it may be killed between
any two of its system calls, and a write of the ledger may report an error before
or after the rename took effect; memory follows the file only on success, so the
two may differ until the next restart. A connection carries one request; the
caller may give up while the service goes on. The spawn service appears as the
party that starts the Git child and reaps it; a child may outlive its checkout
and hold files open. At a restart every look at a directory may fail as well. For
an active record that means (`quota_linux.go:1145-1172`): left alone, when its
identity cannot be read; marked as releasing without being taken back, when it
cannot be opened; taken back and marked, when only its health cannot be read; or
no start at all, when it cannot be taken back. `misread` is a history variable
that holds the workspaces a restart could not look at or take back.

*Logins.* The password is verified outside any transaction, between the throttle
reservation and `CompleteLogin`. One throttle reservation is one function of the
two tables, under the advisory lock. A rotation of either key ring is a restart
with the new ring. Not modelled: replicas whose configurations differ, rehashing,
the user's status, malformed usernames, CSRF tokens. `CleanupThrottle`,
`CleanupSessions`, `FinalizeThrottle` and `CreateSession` have no caller outside
tests; the clean-ups are actions that need never happen, the other two are left
out.

*Registry.* A console request validates its session twice, in the handler and in
the transaction, so it is two steps. Each try of the enrol command's retry loop is
a request of its own, which the control plane may still handle after the client
gave up. The operator's clean-up of a leftover file follows the advice in
`credential.go:31-44` and happens when none of the host's requests is on its way.
`RotateCredential` has no console form (`web.go:1714-1725`) and is an action all
the same. `leased` holds the servers with a lease that has no unresolved activation,
`switching` those with one that has: a revocation closes the former and leaves the
latter in place, flagged (`divertUnresolvedActivation`), until the activation is
reported or declared. What happens to the environment is the subject of
`ControlPlane`.

*Runtime configuration.* A claim holds the configuration row `FOR SHARE` from its
first statement and reads the bindings with plain SELECTs, each of which sees its
own moment. A form may be refused for its values before any revision is compared;
the page then keeps what was typed and takes over the stored revision. The
digest of a release is taken as free of collisions. Secret
creation and replacement have no production caller yet; they are actions, because
the freeze and the materialization are written against them. Rotation of
key-encryption keys rewraps versions without changing what a reader gets and is
left out.

## Runs

| Run | Instance | What it checks |
|---|---|---|
| `leases` | two jobs, one environment, two attempts each | types, one live lease per slot, unique fences, unresolved activations keep their environment, the rows of job, deployment, release and route agree, recovery is never refused, closed stays closed, refinement of `FencedEnvironment` |
| `evidence` | one job, all three reports, two hostname edits, fair sweeper | no activation after an accepted cancellation, every flag has a way out, outcomes are declared once, the route moves under the fence, evidence is never lost, a lapsed lease is eventually closed or visibly blocked |
| `agent_loop` | two environments, two attempts, one damage, fair clock and sweeper | `Load` never answers with less than was accepted, only lost leases are given up; whatever the agent loses or refuses and wherever it hangs, only a running executor that nobody has asked to stop keeps an environment |
| `webhooks` | one repository, two commits, two deliveries, any bodies | active bindings have authority, nothing is silently reauthorized, one intent per commit, an accepted push is queued, a redelivery has no effect |
| `checkout` | two repositories, one reservation, two concurrent requests | one token per reservation, tokens are for the job's frozen repository, starts need unbroken authority, a running checkout is ended by its own close only |
| `workspace` | one client, two workspaces, two faults | the ledger on disk is enough to recover from after any step, files count against a limit until they are gone, a workspace in use stays usable through restarts of the service unless one could not look at it, every checkout ends or comes to the build of its image |
| `login` | two requests, clients and names, a reset, a rotation | no stale session, the limits on sessions, rows and attempts hold together, a delay is kept |
| `registry` | one server, two hosts, two mishaps | one active credential per server and none for a revoked one, which keeps no lease but one whose activation is unresolved; an enrolled host keeps the credential that was accepted |
| `runtime` | two administrators, one job with a retry, two variables | retries repeat the first attempt, secrets are delivered whole, the frozen configuration is current, a fresh edit replaces what it showed, a condemned version is never read |
| `cancellation`, `login_backoff`, `checkout_close` | as small as the case allows | expected violations, see below |

The following configurations are not part of the regular runs; they are kept for
the questions they answer, and are run the same way (`tlc -config X.cfg MC...`).
`Apart.cfg` (two environments on one server, revoked in one transaction) and
`CheckoutAgain.cfg` (two attempts, two reservations: `OneOpenToken`) pass.
`AgentAuthority`, `AgentUnblock`, `WebhookRedelivery`, `EnrollmentLost`,
`ConfigResubmit`, `LoginRecovery`, `WorkspaceOrphan`, `WorkspaceRestart` and
`WorkspaceUnproven` end in the violations described under "Other disagreements". The modules also define type invariants
(`CheckoutTypeOK`, `RuntimeTypeOK` and so on) that hold and can be added to any
configuration.

### Bounds

*Queue.* Two attempts make every first-attempt and retry path and the dead letter
reachable; the code's five repeats the middle ones. Two jobs are what one
environment needs for a predecessor release, for competing claims and for a stale
attempt next to a live one. `MaxRevision` caps hostname edits; one edit between
authorization and report is the interesting case, `evidence` allows two.
`AgentReport` limits the reports of the larger runs to successes, because every
kind is covered by `evidence`. A combined instance (two jobs, one hostname edit,
success and failure reports, all safety properties) has 1.9 million states and was also
checked. Jobs are interchangeable where they share an environment and a server,
so `leases` uses symmetry, as do the other runs without liveness where rows are
interchangeable; the runs with liveness do not.

*GitHub.* `MaxRevisions` bounds the sum of the authorization revisions: seven,
with one repository, lets an authority be lost, set up and bound again, and six,
with two, lets a project be bound elsewhere and back; two deliveries and two
nonces give every redelivery, replay and second delivery of a commit. Two
requests are a start racing a close or another start.

*Host.* `MaxProject` = 3 leaves two identifiers, one to be used after the other
and then none. Two faults are a failing step and a kill during the recovery from
it. Of the eight Git operations of a checkout two tell the first from the others.
The agent runs one checkout at a time, so one client, whose abandoned requests
overtake its later ones, is enough.

*Login.* The limits are scaled (one attempt per pair, a delay from the second
failure, windows of two ticks, eight rows of which four are for overflow), so that
every limit is met within the bounds on time, rotations and events. `MaxEvents`
bounds the sum of all of them.

*Registry and configuration.* Two tries are a request and its retry; three random
values are a token, a credential and its successor. Three versions of a secret
are two replacements racing each other; two revisions and two changes of bindings
let an edit fall before, between and after the statements of a claim.

Deadlock is checked where the system always has a step (webhooks, checkouts,
workspaces) and not where it really may stop: a finished queue, an agent whose
leases are used up, a clock or counter at its bound.

### Fairness

`FairSpec` of `ControlPlane` assumes weak fairness of `expireOne` and nothing else:
the sweeper ticks as long as the control plane runs, orders candidates by deadline
and excludes the ones it could not act on. Neither agents nor operators are
assumed to do anything. `CancelFairSpec` adds that a cancelled lease's authority
lapses, because its deadlines are capped for good. `AgentFairSpec` assumes nothing
of the agent, only the sweeper as above and that the clock passes the deadline of a
lease that no renewal can move: renewals are sent while an executor runs
(`run.go:173-204`) and cannot go past a cancellation.
`FairSpec` of `GitWorkspace` assumes that the service, once started, goes on with
the call it has begun, that the client goes on until its checkout has ended (each
Git operation has a deadline; the build of the image has none and is not assumed
to end), and strong fairness of a waiting request getting the mutex, which `sync.Mutex` hands
to a starving waiter; kills are bounded by `MaxFaults`.

### What the violations show

* `cancellation`: ADR 0004 says cancellations are not retried and that a cancelled
  lease ends through acknowledgement or expiry. `Complete` does not look at
  `cancel_requested_at`: when the agent reports a transient failure before it
  notices the cancellation, the job returns to `retry_wait` with the request still
  recorded. It can never be claimed again (`tryClaim` skips cancelled jobs) nor
  cancelled again (the trigger refuses to move `cancel_requested_at`), and it
  stays there.
* `checkout_close`: a close that read the registry before the start set its lease
  there, and reaches the store after the start did, closes the reservation and
  reports success. The token that the start delivers is not revoked, and further
  closes return at once.
* `login_backoff`: the throttle keeps one variable for how long an attempt is
  blocked, over the pair, the username and the address. An allowed username
  reservation past the tenth failure returns the delay of the *next* attempt in
  it, and the address of the same attempt is then refused
  (`auth_repository.go:345`). From the tenth failure on nobody is admitted to that
  username until fifteen quiet minutes have passed, where ADR 0006 (185-186) asks
  for a delay that starts at 30 seconds.

### Other disagreements the models contain

Each of the first nine is shown by the configuration in parentheses.

* (`AgentAuthority`) The agent reads no deadline. ADR 0004 (231-232) has it stop
  work by the authority it was given; renewals without an answer do not stop the
  executor (`run.go:173`). The fence at the control plane still refuses what it
  reports.
* (`AgentUnblock`) Nothing clears the agent's own reconciliation flag
  (`run.go:231`), which `state.go:31-33` says the reconcile call clears: an
  environment that was reconciled is refused by its host for ever.
* (`WebhookRedelivery`) The second delivery for a commit is processed against the
  intent of the first; its exact redelivery looks for an intent of its own and
  gets 400 (`webhook_job_repository.go:574`, against the comment at 265).
* (`EnrollmentLost`) When an enrolment was committed and its answer lost, the
  retry is refused, because the token is consumed, and the command deletes the
  credential that was just accepted (`enroll.go:60`). `credential.go:97-98` says
  that what it discards was never accepted.
* (`ConfigResubmit`) After a conflict the form keeps the values the refused
  administrator typed and takes over the new revision (`web.go:992`), so
  resubmitting it replaces an edit that was never shown; the message says the
  values were refreshed (`web.go:1060`). A form refused for its values, before
  any revision is compared, takes the new revision over in the same way
  (`web.go:1037-1042`), and its message does not mention another edit at all.
* (`LoginRecovery`) ADR 0006 (59) has a reset clear the throttle state needed for
  recovery. It clears by user, and the handler reserves without one
  (`web.go:393`, `auth_repository.go:72-73`), so the pair's rows stay.
* (`WorkspaceOrphan`) The runner hands a workspace it could not release to its
  caller, who "must retry `Result.Close`" (`gitcheckout/checkout.go:119-120`, and
  "never orphan it" at 227-228). The executor keeps only the error
  (`executor/checkout.go:62-68`) and ignores the error of its own close
  (`executor.go:173-180`), so the workspace stays active with no owner; its files
  stay under their limit.
* (`WorkspaceRestart`) "Healthy active records are deliberately left alone so a
  helper restart is survivable" (`quota_linux.go:1122-1123`). When reading its
  quota or metadata fails once, a healthy record counts as unhealthy, and the
  workspace is taken back while Git or a build works in it.
* (`WorkspaceUnproven`) "Records that cannot be proven safe remain inaccessible"
  (`quota_linux.go:1121-1122`). When an active workspace cannot be opened, its
  record becomes releasing and the directory stays with the checkout user, under
  quota.
* A build that hangs keeps its lease: it runs without a time limit
  (`internal/runtime/docker/build.go:514-520`; the plan in `tasks/todo.md:141`
  lists one) and is renewed as long as it runs, until somebody cancels it.
  `NoLeaseIsKeptForever` excepts it.
* After a hostname edit during a blocked first activation only `not_activated` is
  accepted, even if traffic did switch (`route_head_repository.go:267`).
  `FlagResolvable` asks only that some declaration is.
* A crash between the two writes of `Save` leaves a fence file that the index
  does not list; a comment in `Load` rules that out for an ordinary crash. In the
  very first `Save` the index is then missing, and every environment of the host
  is refused until an operator steps in.
* A body that comes again under another delivery ID breaks a unique index, which
  rolls back the record of it as well. ADR 0002 has it rejected and audited.
* Reservations that are running never expire, while the registry forgets them
  after thirty minutes (and in a restart). Nothing can then close one, and its
  project gets no further checkout until the installation is disabled or
  reconciled.
* The bindings of a freeze may be read at different moments
  (`agent_lease_execution.go:170`, against the "one provable snapshot" of the
  comment at 224-226): adding and removing bindings takes no lock that a claim
  holds, so a claim may freeze secrets from before a change and literals from after
  it. A change that falls between a count and its SELECT is noticed if it changes
  the count.

## Proofs

The theorems hold for all values of the constants under the named assumptions of
the modules. These say that bounds are natural numbers, that each job has an
environment and a server (`ConstantsAssumption`, `ActivationAssumption`), that
limits are positive (`LoginAssumption`, `ThrottleAssumption`,
`OperationsAssumption`, `MaxProjectAssumption`, `MaxFaultsAssumption`), and that
`None`, `Missing` and `Garbage` are none of the rows they stand beside
(`AuthorityAssumption`, `ReceiptAssumption`, `CheckoutAssumption`,
`RuntimeAssumption`, `LoopAssumption`, `StoreAssumption`). Sets of environments,
jobs, requests, repositories, clients and so on may be infinite. One theorem has a
hypothesis of its own, `MaxDamage <= 1`. Of the 40 properties the passing runs
check, 35 are proved.

* `ControlPlaneProofs` first reduces the steps of `Next` to a small set of
  *effects* on rows (`StepEffect`): a claim, a close of a set of leases, a block,
  a switch of the route and so on. Every invariant is then proved once per
  effect instead of once per action. It proves `TypeCorrect` and `OneLiveLease`
  (`LeaseOwnsSlot`, inductive with types), and `ActivationOwnsEnvironment` and
  `FlagsResolvable`. Neither of the last two is inductive alone. The
  strengthening, `ActivationInv`, adds that a slot's flag names an attempt of its
  own environment in one of two shapes (`FlagShape`): the blocked activation of the
  occupant or, in a free slot, an attempt that recovery has closed; and that an
  unresolved activation has a route head (`HeadKnown`).
* `OutcomeProofs` proves `FencesAreUnique` from the numbering of attempts (an
  attempt exists exactly up to its job's count), and
  `SlotsRefineFencedEnvironment`: every effect is a grant, a pass or a stutter of
  `FencedEnvironment`. It then ties the tables together. `OutcomeInv` adds to
  `RowsAgree` where on the execution path a deployment may be for each state of its
  job (`JobPath`), that an activation with an outcome belongs to an ended job
  (`OutcomeEnds`), and when evidence may exist (`EvidenceShape`). From it follow
  `TablesAgree`, `CancellationWins` (a cancelled job never activates) and
  `RecoveryIsAccepted` (the status machine refuses nothing that the sweeper or a
  revocation asks), and the action properties `ClosedIsFinal`, `DeclaredOnce`,
  `EvidenceIsKept` and `RouteFollowsFence`.
* `AgentProofs` proves `AgentRemembers`: for `MaxDamage <= 1`, a crash at any write
  of `Save` and any order of answers, `Load` never answers with less than was acted
  on. The invariant is a disjunction (`StoreInv`): one loss leaves the files whole
  or the index whole, and a store that lost either refuses to answer.
  `GivenUpIsLost` needs that the agent's sequence is the control plane's or one
  behind it (`InStep`).
* `GitHubProofs` proves, with `AuthorityInv` (rows of their types, active
  repositories have active installations, and every active binding was consented
  to, `Consented`), that active bindings have authority and that none is silently
  reauthorized; and with `ReceiptInv` (every intent was made
  by the push its delivery's receipt holds) that intents are unique, that
  redeliveries have no effect and that accepted pushes are queued. For checkouts, a
  start is exclusive (`StartExclusive`: the request in it holds the claim of the
  entry, or the entry is gone and cannot be claimed again, and there is none once
  the reservation runs), a reservation never returns to "reserved" (`MintedOnce`),
  and a reservation at its binding's current revision was never without authority
  (`Unbroken`, because every change of a binding raises its revision). Hence
  `TokensAreMintedOnce`, `TokensFollowTheJob`, `StartsAreAuthorized` and
  `RunningIsClosedByRequest`. Each step is reduced to what it does to one request
  and one reservation (`RequestMoves`) or is quiet for all of them (`QuietStep`).
* `WorkspaceProofs` proves what the ledger's invariant, `LedgerInv`, needs of each
  step. It says, for each identifier, what a record on disk and in memory tells
  about the directory, its project and its limits (`Row`), that the file is never
  behind the copy in memory (`Ahead`), and what the call that holds the mutex has
  done so far (`CallInv`). What a record promises about access is conditional on no
  restart having failed to look at the workspace (`misread`); what it promises
  about quota is not. Either outcome of a failing write keeps it, which is why
  a crash between any two system calls does no harm.
* `WorkspaceClientProofs` adds the clients (`ClientInv`): identifiers are known to
  one client at most, a client waits for the one call that it made and did not give
  up, an offer waits for one decision at most, a release is the work of a client
  that gave its workspace up, and nobody decides about a workspace that has an
  owner. The conjunction is inductive (`WorkspaceInvariant`), and `LedgerIsEnough`,
  `NothingIsUncounted` and `HolderIsSafe` follow from it, the first and the last with
  the same exception.
* `LoginProofs` proves `SessionsAreFresh`: no unrevoked session carries an old
  revision or an old password, because `CompleteLogin` compares the revision read
  before the password was verified and a reset revokes with its new revision. The
  strengthening says the same of the requests on their way. `SessionsAreBounded`
  proves the session part of `LimitsHold` by counting: an account never has more
  unrevoked sessions than the limit, and a login never finds more than one to
  revoke, the condition on which it would fail.
* `AdminProofs` proves `OneCredential` from the tie between a server's token and
  its versions (there is a version exactly when the token is consumed), and
  `EnrolledKeeps` by following one host: an awaited request on the wire is the one
  the command just sent, and an affirmative answer speaks of the host's file. Of
  the runtime configuration it proves `RetriesRepeat`, `DeliveriesAreWhole` and
  `FreezeSeesCurrentConfig`, from the lock that a claim keeps on the configuration
  row and from what an attempt copies of its predecessor;
  `FreshEditsReplaceWhatTheyShowed`, because a page filled at the stored revision
  shows the stored settings (`PageInv`); and `CondemnedIsNeverRead`, because a
  condemned version is revoked and never again the newest (`CondemnedInv`).

The strengthened invariants of the registry (2.6 million states) and of the
checkouts were also checked with TLC.

Only model-checked: the three liveness properties (`LapsedLeaseRecovered`,
`NoLeaseIsKeptForever`, `CheckoutEnds`), since liveness under fairness is beyond
the proof system; and `DelayIsKept` and the throttle part of `LimitsHold`, which
rest on a fold over the throttle's scopes and on counts of rows, and what a fold
computes can only be shown by an induction over data that the provers cannot make.
The three expected violations are counterexamples and have nothing to prove.

## Not modelled

* *Docker and Traefik.* Building, running and switching drive the container engine
  and the route file through operating-system calls; their outcome reaches the
  control plane as the report that `Activation` takes as an input, any report at
  any time.
* *cgroups, namespaces and seccomp* of the spawn service: a spawn service that is
  killed leaves its socket and refuses to start again (`main_linux.go:154`), which
  is a matter of deployment.
* *Cryptography, redaction, and the rotation of key-encryption keys*: functions on
  bytes, which change nothing a reader of a secret can tell.
* *GitHub setup before `CompleteHandoff`*: states and callbacks are single-use rows
  that nothing else reads; any snapshot may come out of them.
* *Clocks and discovery in the queue*: a claim takes any due job and a sweep any
  lapsed lease, so the order of candidates, the window of five and the jittered
  delay are abstracted by the choice of any.
* *HTTP decoding, pages, commands, migrations and start-up*: they hold no state of
  their own; the routes and pages whose calls interleave with others are part of
  the modules above.

Worth adding next: the append algorithm of late evidence with its byte budget, the
ordered discovery windows of claim and sweep with a fairness argument for old jobs,
and the route file's observation and restore composed with activation.
