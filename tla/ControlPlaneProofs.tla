------------------------- MODULE ControlPlaneProofs -------------------------
(***************************************************************************)
(* Machine-checked proofs about ControlPlane, for every set of jobs,       *)
(* environments and servers and every MaxAttempts: types, leases and open  *)
(* activations.  Fences and outcomes are in OutcomeProofs.                 *)
(***************************************************************************)
EXTENDS ControlPlane, TLAPS

-----------------------------------------------------------------------------
(* An attempt is a job and a number; its environment and server are its    *)
(* job's.                                                                  *)

\* The parts of an attempt have the types of the columns they stand for.
LEMMA AttemptParts ==
    ASSUME NEW a \in Attempt
    PROVE  /\ JobOf(a) \in Job
           /\ NumberOf(a) \in 1 .. MaxAttempts
           /\ EnvOf(a) \in Env
           /\ EnvOf(a) = EnvironmentOf[JobOf(a)]
           /\ AttemptServer(a) \in Server
           /\ a = <<JobOf(a), NumberOf(a)>>
           /\ a # None
  BY ConstantsAssumption DEF Attempt, JobOf, NumberOf, EnvOf, AttemptServer

\* A job and a number in range make an attempt, of that job and number.
LEMMA AttemptMade ==
    ASSUME NEW j \in Job, NEW n \in 1 .. MaxAttempts
    PROVE  /\ <<j, n>> \in Attempt
           /\ JobOf(<<j, n>>) = j
           /\ NumberOf(<<j, n>>) = n
           /\ EnvOf(<<j, n>>) = EnvironmentOf[j]
           /\ EnvironmentOf[j] \in Env
  BY Zenon, ConstantsAssumption DEF Attempt, JobOf, NumberOf, EnvOf

\* A claim numbers its attempt within the limit, and the attempt is the job's.
LEMMA ClaimInRange ==
    ASSUME TypeOK, NEW j \in Job, Claim(j)
    PROVE  LET n == <<j, attemptCount[j] + 1>> IN
           /\ n \in Attempt
           /\ JobOf(n) = j
           /\ NumberOf(n) = attemptCount[j] + 1
           /\ EnvOf(n) = EnvironmentOf[j]
           /\ EnvironmentOf[j] \in Env
  <1>1. attemptCount[j] \in 0 .. MaxAttempts /\ attemptCount[j] < MaxAttempts
    BY Zenon DEF TypeOK, Claim, Claimable
  <1>2. attemptCount[j] + 1 \in 1 .. MaxAttempts
    BY <1>1, ConstantsAssumption
  <1> QED
    BY Zenon, <1>2, AttemptMade

-----------------------------------------------------------------------------
(* What a step does to the rows, whoever asked for it.  Several calls have *)
(* the same effect; the invariants are proved once per effect.             *)

PlainClear(e) ==
    /\ pending[e] # None
    /\ \/ ~EnvironmentUnresolved(e)
       \/ ~Unresolved(pending[e]) /\ EnvOf(pending[e]) = e
    /\ clearPlainReconciliation(e)

Block(a) ==
    /\ leasedOccupant(a)
    /\ \E report \in Report : blockActivationForReconciliation(a, report)

Switch(a) ==
    /\ Unresolved(a)
    /\ finalizeActivationSucceeded(a)
    /\ \/ operation[a] = "switch_authorized" /\ reconciled' = reconciled
       \/ reconciled' = reconciled \cup {a}

LateEvidence(a, report) ==
    /\ operation[a] = "reconciliation_required"
    /\ writeLateEvidence(a, report)

NotActivated(a) ==
    /\ pending[EnvOf(a)] = a
    /\ BlockedShape(a)
    /\ resolveNotActivated(a)
    /\ reconciled' = reconciled \cup {a}

Close(S) ==
    /\ \A a \in S : attemptState[a] = "leased" /\ current[EnvOf(a)] = a
    /\ closeExpiredOrRevokedAttempts(S)
    /\ serverActive' \in [Server -> BOOLEAN]

JobEffect ==
    \/ \E j \in Job : Enqueue(j) \/ Claim(j) \/ CancelIdle(j) \/ CancelLeased(j)
    \/ \E a \in Attempt :
          \/ \E phase \in AgentReportablePhase : ReportProgress(a, phase)
          \/ \E outcome \in CompletionOutcome : Complete(a, outcome)
          \/ AcknowledgeCancellation(a)

SlotEffect ==
    \/ \E e \in Env : AuthorityLapses(e) \/ PlainClear(e) \/ AssignRouteHostname(e)
    \/ \E a \in Attempt :
          \/ Activate(a)
          \/ Block(a)
          \/ Switch(a)
          \/ NotActivated(a)
          \/ \E report \in Report : LateEvidence(a, report)
          \/ traceDeclaredContradiction(a)
    \/ \E S \in SUBSET Attempt : Close(S)

Effect == JobEffect \/ SlotEffect \/ UNCHANGED vars

\* Every step of the control plane has one of these effects.
LEMMA StepEffect == TypeInvariant /\ [Next]_allVars => Effect
  <1> SUFFICES ASSUME TypeInvariant, [Next]_allVars PROVE Effect
    BY Zenon
  <1>1. CASE LeaseStep
    <2>1. ASSUME NEW a \in Attempt, Reconcile(a) PROVE Effect
      <3>1. EnvOf(a) \in Env /\ a # None
        BY Zenon, AttemptParts
      <3>2. PlainClear(EnvOf(a))
        BY Zenon, <2>1, <3>1 DEF Reconcile, PlainClear
      <3> QED
        BY Zenon, <3>1, <3>2 DEF Effect, SlotEffect
    <2>2. ASSUME NEW e \in Env, MarkReconciled(e) PROVE Effect
      BY Zenon, <2>2 DEF MarkReconciled, PlainClear, Effect, SlotEffect
    <2> QED
      BY Zenon, <1>1, <2>1, <2>2 DEF LeaseStep, RequestCancellation, Effect, JobEffect,
         SlotEffect
  <1>2. CASE ActivationStep
    <2> USE ActivationAssumption
    <2>1. ASSUME NEW a \in Attempt, ReportSuccess(a) PROVE Switch(a)
      BY Zenon, <2>1 DEF ReportSuccess, Switch, Unresolved, unresolvedActivation,
         activationTerminalStates
    <2>2. ASSUME NEW a \in Attempt, NEW report \in AgentReport, ReportBlocked(a, report)
          PROVE  Block(a)
      BY Zenon, <2>2 DEF ReportBlocked, Block
    <2>3. ASSUME NEW a \in Attempt, NEW report \in AgentReport,
                 recordBlockInFreshTransaction(a, report)
          PROVE  Block(a) \/ LateEvidence(a, report) \/ UNCHANGED vars
      BY Zenon, <2>3 DEF recordBlockInFreshTransaction, Block, LateEvidence
    <2>4. ASSUME NEW a \in Attempt, NEW outcome, pending[EnvOf(a)] = a,
                 resolveDeclared(a, outcome)
          PROVE  Switch(a) \/ NotActivated(a) \/ PlainClear(EnvOf(a))
      <3>1. a # None
        BY Zenon, AttemptParts
      <3>2. CASE EnvironmentUnresolved(EnvOf(a))
        BY Zenon, <2>4, <3>2 DEF resolveDeclared, Switch, NotActivated, BlockedShape,
           Unresolved,
           unresolvedActivation, activationTerminalStates
      <3>3. CASE ~EnvironmentUnresolved(EnvOf(a))
        BY Zenon, <2>4, <3>1, <3>3 DEF resolveDeclared, PlainClear
      <3> QED
        BY Zenon, <3>2, <3>3
    <2>5. ASSUME NEW a \in Attempt PROVE EnvOf(a) \in Env
      BY Zenon, AttemptParts
    <2> QED
      BY Zenon, <1>2, <2>1, <2>2, <2>3, <2>4, <2>5
      DEF ActivationStep, ResolveActivation, ReconcileActivation, ReportAborts, ReportLate,
          ReportContradicts, LateEvidence, Effect, SlotEffect
  <1>3. CASE RecoveryStep
    <2>1. ASSUME NEW a \in Attempt, expireOne(a) PROVE Close({a})
      BY Zenon, <2>1 DEF expireOne, Expirable, Close, TypeInvariant, TypeOK
    <2>2. ASSUME NEW s \in Server, RevokeServer(s) PROVE Close(InFlight(s))
      BY Zenon, <2>2 DEF RevokeServer, InFlight, Close, TypeInvariant, TypeOK
    <2>3. \A s \in Server : InFlight(s) \in SUBSET Attempt
      BY Zenon DEF InFlight
    <2> QED
      BY <1>3, <2>1, <2>2, <2>3, Zenon DEF RecoveryStep, Effect, SlotEffect
  <1>4. CASE UNCHANGED allVars
    BY Zenon, <1>4 DEF allVars, Effect
  <1> QED
    BY Zenon, <1>1, <1>2, <1>3, <1>4 DEF Next

-----------------------------------------------------------------------------
(* Types.                                                                  *)

\* The initial rows are well typed.
LEMMA TypeInit == CPInit => TypeInvariant
  BY ConstantsAssumption
  DEF CPInit, Init, TypeInvariant, TypeOK, JobState, AttemptState, ReleaseState,
      OperationState

\* An effect on a job keeps the rows well typed.
LEMMA JobEffectTypes == TypeOK /\ JobEffect => TypeOK'
  <1> SUFFICES ASSUME TypeOK, JobEffect PROVE TypeOK'
    BY Zenon
  <1> USE ConstantsAssumption
  <1>1. ASSUME NEW j \in Job, Enqueue(j) PROVE TypeOK'
    BY Zenon, <1>1 DEF Enqueue, attemptVars, slotVars, operationVars, headVars,
       evidenceVars, JobState, Status, TypeOK
  <1>2. ASSUME NEW j \in Job, Claim(j) PROVE TypeOK'
    <2>1. <<j, attemptCount[j] + 1>> \in Attempt /\ EnvironmentOf[j] \in Env
      BY Zenon, <1>2, ClaimInRange
    <2>2. attemptCount' \in [Job -> 0 .. MaxAttempts]
      BY <1>2 DEF Claim, Claimable, TypeOK
    <2>3. jobState' \in [Job -> JobState] /\ attemptState' \in [Attempt -> AttemptState]
      BY Zenon, <1>2, <2>1 DEF Claim, JobState, AttemptState, TypeOK
    <2>4. slotFence' \in [Env -> Nat] /\ attemptFence' \in [Attempt -> Nat]
      BY <1>2, <2>1 DEF Claim, NextFence, TypeOK
    <2>5. current' \in [Env -> Attempt \cup {None}] /\ lapsed' \in [Env -> BOOLEAN]
      BY Zenon, <1>2, <2>1 DEF Claim, TypeOK
    <2>6. deployment' \in [Job -> Status \cup {"absent"}]
      BY Zenon, <1>2 DEF Claim, MoveDeployment, Status, TypeOK
    <2>7. release' \in [Job -> ReleaseState]
      BY Zenon, <1>2 DEF Claim, ensureRelease, ReleaseState, TypeOK
    <2> QED
      BY Zenon, <1>2, <2>2, <2>3, <2>4, <2>5, <2>6, <2>7
      DEF Claim, operationVars, headVars, evidenceVars, TypeOK
  <1>3. ASSUME NEW j \in Job, CancelIdle(j) PROVE TypeOK'
    BY Zenon, <1>3 DEF CancelIdle, MoveDeployment, attemptVars, slotVars, operationVars,
       headVars, evidenceVars, JobState, Status, TypeOK
  <1>4. ASSUME NEW j \in Job, CancelLeased(j) PROVE TypeOK'
    BY Zenon, <1>4 DEF CancelLeased, attemptVars, slotVars, operationVars, headVars,
       evidenceVars, TypeOK
  <1>5. ASSUME NEW a \in Attempt, NEW phase \in AgentReportablePhase, ReportProgress(a, phase)
        PROVE  TypeOK'
    BY Zenon, <1>5, AttemptParts DEF ReportProgress, MoveDeployment, attemptVars, slotVars,
       operationVars, headVars, evidenceVars, AgentReportablePhase, Status, TypeOK
  <1>6. ASSUME NEW a \in Attempt, NEW outcome \in CompletionOutcome, Complete(a, outcome)
        PROVE  TypeOK'
    <2>1. JobOf(a) \in Job /\ EnvOf(a) \in Env
      BY Zenon, AttemptParts
    <2>2. JobAfterCompletion(a, outcome) \in JobState
      BY Zenon DEF JobAfterCompletion, JobState
    <2>3. jobState' \in [Job -> JobState] /\ attemptState' \in [Attempt -> AttemptState]
      BY Zenon, <1>6, <2>1, <2>2 DEF Complete, AttemptState, TypeOK
    <2>4. deployment' \in [Job -> Status \cup {"absent"}]
      BY Zenon, <1>6, <2>1 DEF Complete, MoveDeployment, Status, TypeOK
    <2>5. current' \in [Env -> Attempt \cup {None}] /\ UNCHANGED <<slotFence, pending, lapsed>>
      BY Zenon, <1>6, <2>1 DEF Complete, FreeSlot, TypeOK
    <2> QED
      BY Zenon, <1>6, <2>3, <2>4, <2>5 DEF Complete, operationVars, headVars, evidenceVars,
         TypeOK
  <1>7. ASSUME NEW a \in Attempt, AcknowledgeCancellation(a) PROVE TypeOK'
    BY Zenon, <1>7, AttemptParts DEF AcknowledgeCancellation, FreeSlot, MoveDeployment,
       operationVars, headVars, evidenceVars, JobState, AttemptState, Status, TypeOK
  <1> QED
    BY <1>1, <1>2, <1>3, <1>4, <1>5, <1>6, <1>7, Zenon DEF JobEffect

\* An effect on a slot, a head or an activation keeps the rows well typed.
LEMMA SlotEffectTypes == TypeOK /\ SlotEffect => TypeOK'
  <1> SUFFICES ASSUME TypeOK, SlotEffect PROVE TypeOK'
    BY Zenon
  <1> USE ConstantsAssumption
  <1>1. ASSUME NEW e \in Env, AuthorityLapses(e) PROVE TypeOK'
    BY Zenon, <1>1 DEF AuthorityLapses, jobVars, attemptVars, operationVars, headVars,
       evidenceVars, TypeOK
  <1>2. ASSUME NEW e \in Env, PlainClear(e) PROVE TypeOK'
    BY Zenon, <1>2 DEF PlainClear, clearPlainReconciliation, jobVars, attemptVars,
       operationVars,
       headVars, TypeOK
  <1>3. ASSUME NEW e \in Env, AssignRouteHostname(e) PROVE TypeOK'
    <2>1. headExists' \in [Env -> BOOLEAN]
      <3>1. headExists' = headExists \/ headExists' = [headExists EXCEPT ![e] = TRUE]
        BY Zenon, <1>3 DEF AssignRouteHostname
      <3> QED
        BY ZenonT(60), <3>1 DEF TypeOK
    <2>2. routeRevision' \in [Env -> Nat]
      <3>1. \/ routeRevision' = routeRevision
            \/ routeRevision' = [routeRevision EXCEPT ![e] = routeRevision[e] + 1]
        BY Zenon, <1>3 DEF AssignRouteHostname
      <3> QED
        BY <3>1 DEF TypeOK
    <2> QED
      BY Zenon, <1>3, <2>1, <2>2 DEF AssignRouteHostname, jobVars, attemptVars, slotVars,
         operationVars,
         evidenceVars, TypeOK
  <1>4. ASSUME NEW a \in Attempt, Activate(a) PROVE TypeOK'
    BY Zenon, <1>4, AttemptParts DEF Activate, MoveDeployment, attemptVars, slotVars, headVars,
       evidenceVars, Status, ReleaseState, OperationState, TypeOK
  <1>5. ASSUME NEW a \in Attempt, Block(a) PROVE TypeOK'
    BY <1>5, AttemptParts, SMTT(30) DEF Block, blockActivationForReconciliation, jobVars,
       attemptVars,
       OperationState, TypeOK
  <1>6. ASSUME NEW a \in Attempt, Switch(a) PROVE TypeOK'
    <2>1. JobOf(a) \in Job /\ EnvOf(a) \in Env
      BY Zenon, AttemptParts
    <2>2. /\ release' \in [Job -> ReleaseState]
          /\ deployment' \in [Job -> Status \cup {"absent"}]
          /\ jobState' \in [Job -> JobState]
      BY Zenon, <1>6, <2>1 DEF Switch, finalizeActivationSucceeded, MoveDeployment,
         ReleasesAfterSwitch, ReleaseState, Status, JobState, TypeOK
    <2>3. /\ operation' \in [Attempt -> OperationState]
          /\ attemptState' \in [Attempt -> AttemptState]
      BY Zenon, <1>6, <2>1 DEF Switch, finalizeActivationSucceeded, OperationState,
         AttemptState, TypeOK
    <2>4. /\ activeRelease' \in [Env -> Job \cup {None}]
          /\ routeRevision' \in [Env -> Nat]
          /\ headFlagged' \in [Env -> BOOLEAN]
          /\ current' \in [Env -> Attempt \cup {None}]
          /\ pending' \in [Env -> Attempt \cup {None}]
      BY <1>6, <2>1, SMTT(30) DEF Switch, finalizeActivationSucceeded, TypeOK
    <2> QED
      BY Zenon, <1>6, <2>2, <2>3, <2>4 DEF Switch, finalizeActivationSucceeded, TypeOK
  <1>7. ASSUME NEW a \in Attempt, NotActivated(a) PROVE TypeOK'
    BY <1>7, AttemptParts DEF NotActivated, resolveNotActivated, MoveDeployment, Status,
       JobState, OperationState, AttemptState, TypeOK
  <1>8. ASSUME NEW a \in Attempt, NEW report \in Report, LateEvidence(a, report)
        PROVE  TypeOK'
    BY ZenonT(60), <1>8 DEF LateEvidence, writeLateEvidence, jobVars, attemptVars, slotVars,
       operationVars, headVars, TypeOK
  <1>9. ASSUME NEW a \in Attempt, traceDeclaredContradiction(a) PROVE TypeOK'
    BY Zenon, <1>9 DEF traceDeclaredContradiction, jobVars, attemptVars, slotVars,
       operationVars,
       headVars, TypeOK
  <1>10. ASSUME NEW S \in SUBSET Attempt, Close(S) PROVE TypeOK'
    <2> DEFINE C == ClosedOrdinary(S)
    <2>1. \A j \in Job : LatestAttempt(j) \in C => JobOf(LatestAttempt(j)) = j
      BY Zenon DEF LatestAttempt, JobOf
    <2>2. /\ jobState' \in [Job -> JobState]
          /\ deployment' \in [Job -> Status \cup {"absent"}]
      BY <1>10, <2>1, SMTT(30) DEF Close, closeExpiredOrRevokedAttempts, JobAfterClose,
         DeploymentAfterClose, JobState, Status, TypeOK
    <2>3. attemptState' \in [Attempt -> AttemptState]
      BY Zenon, <1>10 DEF Close, closeExpiredOrRevokedAttempts, AttemptState, TypeOK
    <2>4. /\ slotFence' \in [Env -> Nat]
          /\ current' \in [Env -> Attempt \cup {None}]
          /\ pending' \in [Env -> Attempt \cup {None}]
      BY <1>10, SMTT(30) DEF Close, closeExpiredOrRevokedAttempts, TypeOK
    <2>5. /\ operation' \in [Attempt -> OperationState]
          /\ headFlagged' \in [Env -> BOOLEAN]
          /\ recorded' \in [Attempt -> SUBSET Report]
      BY Zenon, <1>10 DEF Close, closeExpiredOrRevokedAttempts, OperationState, TypeOK
    <2> QED
      BY Zenon, <1>10, <2>2, <2>3, <2>4, <2>5 DEF Close, closeExpiredOrRevokedAttempts, TypeOK
  <1> QED
    BY <1>1, <1>2, <1>3, <1>4, <1>5, <1>6, <1>7, <1>8, <1>9, <1>10, Zenon DEF SlotEffect

\* Every step keeps the rows, and the reports awaiting a fresh transaction,
\* well typed.
LEMMA TypeStep == TypeInvariant /\ [Next]_allVars => TypeInvariant'
  <1> SUFFICES ASSUME TypeInvariant, [Next]_allVars PROVE TypeInvariant'
    BY Zenon
  <1>1. TypeOK'
    <2>1. CASE UNCHANGED vars
      BY Zenon, <2>1 DEF TypeInvariant, TypeOK, vars, jobVars, attemptVars, slotVars,
         operationVars,
         headVars, evidenceVars
    <2> QED
      BY Zenon, <2>1, StepEffect, JobEffectTypes, SlotEffectTypes DEF Effect, TypeInvariant
  <1>2. aborted' \in SUBSET (Attempt \X Report)
    <2>1. CASE LeaseStep \/ UNCHANGED allVars
      BY Zenon, <2>1 DEF LeaseStep, allVars, TypeInvariant
    <2>2. CASE ActivationStep
      <3>1. ASSUME NEW a \in Attempt, NEW report \in AgentReport,
                   ReportAborts(a, report) \/ recordBlockInFreshTransaction(a, report)
            PROVE  aborted' \in SUBSET (Attempt \X Report)
        <4>1. <<a, report>> \in Attempt \X Report
          BY Zenon, ActivationAssumption
        <4>2. aborted' = aborted \cup {<<a, report>>} \/ aborted' = aborted \ {<<a, report>>}
          BY <3>1, Zenon DEF ReportAborts, recordBlockInFreshTransaction
        <4> QED
          BY Zenon, <4>1, <4>2 DEF TypeInvariant
      <3>2. CASE UNCHANGED aborted
        BY Zenon, <3>2 DEF TypeInvariant
      <3> QED
        BY <2>2, <3>1, <3>2, Zenon DEF ActivationStep, Activate, ReportSuccess, ReportBlocked,
           ReportLate, ReportContradicts, ResolveActivation, ReconcileActivation,
           AssignRouteHostname
    <2>3. CASE RecoveryStep
      BY <2>3, ZenonT(60) DEF RecoveryStep, expireOne, RevokeServer,
         closeExpiredOrRevokedAttempts,
         TypeInvariant
    <2> QED
      BY Zenon, <2>1, <2>2, <2>3 DEF Next
  <1> QED
    BY Zenon, <1>1, <1>2 DEF TypeInvariant

\* The database rows keep their column types in every reachable state.
THEOREM TypeCorrect == Spec => []TypeInvariant
  BY TypeInit, TypeStep, PTL DEF Spec

-----------------------------------------------------------------------------
(* One live lease per environment.                                         *)

leaseRows == <<attemptState, attemptFence, current, slotFence, jobState, attemptCount>>

\* The effects that leave the lease rows alone.
LEMMA LeaseRowsKept ==
    ASSUME \/ \E j \in Job : CancelLeased(j)
           \/ \E a \in Attempt : \E phase \in AgentReportablePhase : ReportProgress(a, phase)
           \/ \E e \in Env : AuthorityLapses(e) \/ PlainClear(e) \/ AssignRouteHostname(e)
           \/ \E a \in Attempt :
                 \/ Activate(a) \/ Block(a) \/ traceDeclaredContradiction(a)
                 \/ \E report \in Report : LateEvidence(a, report)
           \/ UNCHANGED vars
    PROVE  UNCHANGED leaseRows
  BY ZenonT(60) DEF leaseRows, CancelLeased, ReportProgress, AuthorityLapses, PlainClear,
     clearPlainReconciliation, AssignRouteHostname, Activate, Block,
     blockActivationForReconciliation, traceDeclaredContradiction, LateEvidence,
     writeLateEvidence,
     vars, jobVars, attemptVars, slotVars

\* Freeing the slot of a leased occupant and moving its job on keeps leases
\* and slots in agreement.
LEMMA LeaseFreed ==
    ASSUME TypeOK, LeaseOwnsSlot, NEW a \in Attempt, NEW s \in AttemptState \ {"leased"},
           NEW t \in JobState \ {"leased"}, current[EnvOf(a)] = a,
           attemptState' = [attemptState EXCEPT ![a] = s],
           current' = [current EXCEPT ![EnvOf(a)] = None],
           jobState' = [jobState EXCEPT ![JobOf(a)] = t],
           UNCHANGED <<attemptFence, slotFence, attemptCount>>
    PROVE  LeaseOwnsSlot'
  <1>1. /\ JobOf(a) \in Job /\ EnvOf(a) \in Env /\ a # None
        /\ attemptState[a] = "leased"
        /\ LatestAttempt(JobOf(a)) = a
    BY AttemptParts DEF LeaseOwnsSlot, LatestAttempt
  <1>2. \A b \in Attempt : attemptState'[b] = "leased" <=> current'[EnvOf(b)] = b
    <2> TAKE b \in Attempt
    <2>1. EnvOf(b) \in Env /\ b # None
      BY Zenon, AttemptParts
    <2> QED
      BY <1>1, <2>1 DEF LeaseOwnsSlot, TypeOK
  <1>3. ASSUME NEW e \in Env, current'[e] # None
        PROVE  /\ EnvOf(current'[e]) = e
               /\ attemptFence'[current'[e]] = slotFence'[e]
               /\ jobState'[JobOf(current'[e])] = "leased"
               /\ NumberOf(current'[e]) = attemptCount'[JobOf(current'[e])]
    <2>1. e # EnvOf(a) /\ current'[e] = current[e] /\ current[e] \in Attempt
      BY Zenon, <1>1, <1>3 DEF TypeOK
    <2>2. JobOf(current[e]) \in Job /\ JobOf(current[e]) # JobOf(a)
      BY <2>1, AttemptParts, <1>1, <1>3, SMTT(30) DEF LeaseOwnsSlot
    <2> QED
      BY <1>1, <1>3, <2>1, <2>2 DEF LeaseOwnsSlot
  <1>4. ASSUME NEW j \in Job, jobState'[j] = "leased"
        PROVE  /\ <<j, attemptCount'[j]>> \in Attempt
               /\ attemptState'[<<j, attemptCount'[j]>>] = "leased"
    <2>1. j # JobOf(a) /\ jobState[j] = "leased"
      BY Zenon, <1>1, <1>4 DEF TypeOK
    <2>2. <<j, attemptCount[j]>> # a
      BY <2>1, SMTT(30) DEF JobOf
    <2>3. <<j, attemptCount[j]>> \in Attempt /\ attemptState[<<j, attemptCount[j]>>] = "leased"
      BY Zenon, <2>1 DEF LeaseOwnsSlot, LatestAttempt
    <2> QED
      BY <2>2, <2>3
  <1> QED
    BY Zenon, <1>2, <1>3, <1>4 DEF LeaseOwnsSlot, LatestAttempt

\* Claim keeps leases and slots in agreement.
LEMMA LeaseClaimed ==
    ASSUME TypeOK, LeaseOwnsSlot, NEW j \in Job, Claim(j)
    PROVE  LeaseOwnsSlot'
  <1> DEFINE a == <<j, attemptCount[j] + 1>>
             f == EnvironmentOf[j]
  <1>1. /\ a \in Attempt /\ JobOf(a) = j /\ EnvOf(a) = f /\ f \in Env
        /\ NumberOf(a) = attemptCount[j] + 1 /\ a # None
    BY ZenonT(60), ClaimInRange, AttemptParts
  <1>2. /\ attemptState' = [attemptState EXCEPT ![a] = "leased"]
        /\ attemptFence' = [attemptFence EXCEPT ![a] = slotFence[f] + 1]
        /\ slotFence' = [slotFence EXCEPT ![f] = slotFence[f] + 1]
        /\ current' = [current EXCEPT ![f] = a]
        /\ jobState' = [jobState EXCEPT ![j] = "leased"]
        /\ attemptCount' = [attemptCount EXCEPT ![j] = attemptCount[j] + 1]
        /\ current[f] = None
    BY Zenon DEF Claim, Claimable, NextFence
  <1> HIDE DEF a, f
  <1>3. \A b \in Attempt : attemptState'[b] = "leased" <=> current'[EnvOf(b)] = b
    <2> TAKE b \in Attempt
    <2>1. EnvOf(b) \in Env /\ b # None
      BY Zenon, AttemptParts
    <2> QED
      BY <1>1, <1>2, <2>1 DEF LeaseOwnsSlot, TypeOK
  <1>4. ASSUME NEW e \in Env, current'[e] # None
        PROVE  /\ EnvOf(current'[e]) = e
               /\ attemptFence'[current'[e]] = slotFence'[e]
               /\ jobState'[JobOf(current'[e])] = "leased"
               /\ NumberOf(current'[e]) = attemptCount'[JobOf(current'[e])]
    <2>1. CASE e = f
      BY Zenon, <1>1, <1>2, <2>1 DEF TypeOK
    <2>2. CASE e # f
      <3>1. current'[e] = current[e] /\ current[e] \in Attempt /\ EnvOf(current[e]) = e
        BY <1>2, <1>4, <2>2 DEF LeaseOwnsSlot, TypeOK
      <3>2. JobOf(current[e]) \in Job /\ JobOf(current[e]) # j /\ current[e] # a
        BY Zenon, <3>1, <2>2, <1>1, AttemptParts
      <3> QED
        BY <1>2, <1>4, <2>2, <3>1, <3>2, SMTT(30) DEF LeaseOwnsSlot
    <2> QED
      BY ZenonT(60), <2>1, <2>2
  <1>5. ASSUME NEW k \in Job, jobState'[k] = "leased"
        PROVE  /\ <<k, attemptCount'[k]>> \in Attempt
               /\ attemptState'[<<k, attemptCount'[k]>>] = "leased"
    <2>1. CASE k = j
      <3>1. <<k, attemptCount'[k]>> = a
        BY Zenon, <1>2, <2>1 DEF a, TypeOK
      <3> QED
        BY ZenonT(60), <1>1, <1>2, <3>1 DEF TypeOK
    <2>2. CASE k # j
      <3>1. <<k, attemptCount[k]>> \in Attempt /\ attemptState[<<k, attemptCount[k]>>] = "leased"
        BY <1>2, <1>5, <2>2 DEF LeaseOwnsSlot, LatestAttempt
      <3>2. <<k, attemptCount[k]>> # a
        BY Zenon, <2>2 DEF a
      <3> QED
        BY <1>2, <2>2, <3>1, <3>2
    <2> QED
      BY Zenon, <2>1, <2>2
  <1> QED
    BY <1>3, <1>4, <1>5, ZenonT(60) DEF LeaseOwnsSlot, LatestAttempt

\* So does closing any set of leased occupants at once.
LEMMA LeasesClosed ==
    ASSUME TypeOK, LeaseOwnsSlot, NEW S \in SUBSET Attempt, Close(S)
    PROVE  LeaseOwnsSlot'
  <1> DEFINE C == ClosedOrdinary(S)
  <1>1. /\ attemptState' = [a \in Attempt |->
             IF a \in C THEN IF cancelRequested[JobOf(a)] THEN "cancelled" ELSE "expired"
             ELSE attemptState[a]]
        /\ slotFence' = [e \in Env |->
             IF current[e] \in C THEN slotFence[e] + 1 ELSE slotFence[e]]
        /\ current' = [e \in Env |-> IF current[e] \in C THEN None ELSE current[e]]
        /\ jobState' = [j \in Job |-> IF LatestAttempt(j) \in C
             THEN JobAfterClose(LatestAttempt(j)) ELSE jobState[j]]
        /\ UNCHANGED <<attemptCount, attemptFence>>
    BY Zenon DEF Close, closeExpiredOrRevokedAttempts
  <1>2. C \subseteq Attempt /\ \A a \in C : current[EnvOf(a)] = a
    BY Zenon DEF Close, ClosedOrdinary
  <1>3. \A a : JobAfterClose(a) # "leased"
    BY Zenon  DEF JobAfterClose
  <1> HIDE DEF C
  <1>4. \A b \in Attempt : attemptState'[b] = "leased" <=> current'[EnvOf(b)] = b
    <2> TAKE b \in Attempt
    <2>1. EnvOf(b) \in Env /\ b # None
      BY Zenon, AttemptParts
    <2> QED
      BY Zenon, <1>1, <1>2, <2>1 DEF LeaseOwnsSlot
  <1>5. ASSUME NEW e \in Env, current'[e] # None
        PROVE  /\ EnvOf(current'[e]) = e
               /\ attemptFence'[current'[e]] = slotFence'[e]
               /\ jobState'[JobOf(current'[e])] = "leased"
               /\ NumberOf(current'[e]) = attemptCount'[JobOf(current'[e])]
    <2>1. current'[e] = current[e] /\ current[e] \notin C /\ current[e] \in Attempt
      BY Zenon, <1>1, <1>5 DEF TypeOK
    <2>2. LatestAttempt(JobOf(current[e])) = current[e] /\ JobOf(current[e]) \in Job
      BY Zenon, <2>1, <1>5, AttemptParts DEF LeaseOwnsSlot, LatestAttempt
    <2> QED
      BY Zenon, <1>1, <1>5, <2>1, <2>2 DEF LeaseOwnsSlot
  <1>6. ASSUME NEW j \in Job, jobState'[j] = "leased"
        PROVE  /\ <<j, attemptCount'[j]>> \in Attempt
               /\ attemptState'[<<j, attemptCount'[j]>>] = "leased"
    <2>1. LatestAttempt(j) \notin C /\ jobState[j] = "leased"
      BY Zenon, <1>1, <1>3, <1>6
    <2>2. attemptState[LatestAttempt(j)] = "leased"
      BY Zenon, <2>1 DEF LeaseOwnsSlot
    <2>3. LatestAttempt(j) \in Attempt
      BY Zenon, <2>1 DEF LeaseOwnsSlot
    <2> QED
      BY Zenon, <1>1, <2>1, <2>2, <2>3 DEF LatestAttempt
  <1> QED
    BY <1>4, <1>5, <1>6, ZenonT(60) DEF LeaseOwnsSlot, LatestAttempt

\* Every effect keeps leases and slots in agreement.
LEMMA LeaseOwnsSlotStep == TypeOK /\ LeaseOwnsSlot /\ Effect => LeaseOwnsSlot'
  <1> SUFFICES ASSUME TypeOK, LeaseOwnsSlot, Effect PROVE LeaseOwnsSlot'
    BY Zenon
  <1>1. CASE UNCHANGED leaseRows
    BY Zenon, <1>1 DEF leaseRows, LeaseOwnsSlot, LatestAttempt
  <1>2. ASSUME NEW j \in Job, Enqueue(j) \/ CancelIdle(j) PROVE LeaseOwnsSlot'
    <2>1. /\ jobState[j] # "leased"
          /\ \E t \in JobState \ {"leased"} : jobState' = [jobState EXCEPT ![j] = t]
          /\ UNCHANGED <<attemptState, attemptFence, current, slotFence, attemptCount>>
      BY Zenon, <1>2 DEF Enqueue, CancelIdle, attemptVars, slotVars, JobState
    <2>2. \A e \in Env : current[e] # None => JobOf(current[e]) \in Job \ {j}
      BY <2>1, AttemptParts DEF LeaseOwnsSlot, TypeOK
    <2>3. \A k \in Job \ {j} : jobState'[k] = jobState[k]
      BY Zenon, <2>1 DEF TypeOK
    <2>4. jobState'[j] # "leased"
      BY Zenon, <2>1 DEF TypeOK
    <2> QED
      BY Zenon, <2>1, <2>2, <2>3, <2>4 DEF LeaseOwnsSlot, LatestAttempt
  <1>3. ASSUME NEW a \in Attempt, NEW outcome \in CompletionOutcome, Complete(a, outcome)
        PROVE  LeaseOwnsSlot'
    <2>1. JobAfterCompletion(a, outcome) \in JobState \ {"leased"}
      BY Zenon DEF JobAfterCompletion, JobState
    <2>2. \E s \in AttemptState \ {"leased"} : attemptState' = [attemptState EXCEPT ![a] = s]
      BY <1>3, Zenon DEF Complete, AttemptState
    <2> QED
      BY <1>3, <2>1, <2>2, LeaseFreed, Zenon DEF Complete, FreeSlot, Authority, leasedOccupant
  <1>4. ASSUME NEW a \in Attempt, AcknowledgeCancellation(a) PROVE LeaseOwnsSlot'
    <2>1. "cancelled" \in AttemptState \ {"leased"} /\ "cancelled" \in JobState \ {"leased"}
      BY Zenon DEF AttemptState, JobState
    <2> QED
      BY <1>4, <2>1, LeaseFreed, Zenon DEF AcknowledgeCancellation, FreeSlot, Authority,
         leasedOccupant
  <1>5. ASSUME NEW a \in Attempt, Switch(a) \/ NotActivated(a) PROVE LeaseOwnsSlot'
    <2>1. \E s \in AttemptState \ {"leased"}, t \in JobState \ {"leased"} :
             /\ attemptState' = [attemptState EXCEPT ![a] = s]
             /\ jobState' = [jobState EXCEPT ![JobOf(a)] = t]
      BY <1>5, ZenonT(60) DEF Switch, finalizeActivationSucceeded, NotActivated,
         resolveNotActivated,
         AttemptState, JobState
    <2>2. /\ current[EnvOf(a)] = a
          /\ current' = [current EXCEPT ![EnvOf(a)] = None]
          /\ UNCHANGED <<attemptFence, slotFence, attemptCount>>
      BY <1>5, Zenon DEF Switch, finalizeActivationSucceeded, MayFinalize, NotActivated,
         resolveNotActivated, BlockedShape
    <2> QED
      BY Zenon, <2>1, <2>2, LeaseFreed
  <1> QED
    BY Zenon, <1>1, <1>2, <1>3, <1>4, <1>5, LeaseRowsKept, LeaseClaimed, LeasesClosed
    DEF Effect, JobEffect, SlotEffect

\* An environment never has two live leases: in every reachable state the
\* leased attempts are exactly the slots' occupants, each at its slot's
\* fence, each the latest attempt of a leased job.
THEOREM OneLiveLease == Spec => []LeaseOwnsSlot
  <1>1. CPInit => LeaseOwnsSlot
    BY AttemptParts DEF CPInit, Init, LeaseOwnsSlot
  <1>2. TypeInvariant /\ LeaseOwnsSlot /\ [Next]_allVars => LeaseOwnsSlot'
    BY Zenon, StepEffect, LeaseOwnsSlotStep DEF TypeInvariant
  <1> QED
    BY <1>1, <1>2, TypeCorrect, PTL DEF Spec

-----------------------------------------------------------------------------
(* An unresolved activation owns its environment until its outcome is      *)
(* finalized or declared.  UnresolvedOwnsEnvironment and FlagResolvable are *)
(* proved together, from an inductive strengthening that ties the slot's   *)
(* flag to the slot's occupant.                                            *)

\* An activation is only ever authorized on an environment with a head.
HeadKnown == \A a \in Attempt : Unresolved(a) => headExists[EnvOf(a)]

\* A flag names an attempt of its own environment: the blocked activation of
\* the occupant, or, in a free slot, an attempt recovery has closed.
FlagShape ==
    \A e \in Env : pending[e] # None =>
       /\ EnvOf(pending[e]) = e
       /\ IF current[e] # None
          THEN pending[e] = current[e] /\ operation[current[e]] = "reconciliation_required"
          ELSE attemptState[pending[e]] \in {"expired", "cancelled"}

ActivationInv == UnresolvedOwnsEnvironment /\ HeadKnown /\ FlagShape

\* What the invariants say of the job of an unresolved activation.
LEMMA UnresolvedJob ==
    ASSUME TypeOK, LeaseOwnsSlot, ActivationInv, NEW a \in Attempt, Unresolved(a)
    PROVE  /\ current[EnvOf(a)] = a
           /\ jobState[JobOf(a)] = "leased"
           /\ deployment[JobOf(a)] = "activating"
           /\ release[JobOf(a)] = "ready"
  <1>1. EnvOf(a) \in Env /\ a # None
    BY Zenon, AttemptParts
  <1> QED
    BY <1>1 DEF ActivationInv, UnresolvedOwnsEnvironment, leasedOccupant, LeaseOwnsSlot

\* A step that leaves the operations, the flags and the rows of every
\* unresolved or flagged attempt alone keeps the invariant.
LEMMA ActivationRowsKept ==
    ASSUME TypeOK, ActivationInv, UNCHANGED <<operation, pending, headFlagged>>,
           \A e \in Env : headExists[e] => headExists'[e],
           \A a \in Attempt : Unresolved(a) =>
              /\ attemptState'[a] = attemptState[a]
              /\ attemptFence'[a] = attemptFence[a]
              /\ slotFence'[EnvOf(a)] = slotFence[EnvOf(a)]
              /\ current'[EnvOf(a)] = current[EnvOf(a)]
              /\ deployment'[JobOf(a)] = deployment[JobOf(a)]
              /\ release'[JobOf(a)] = release[JobOf(a)],
           \A e \in Env : pending[e] # None =>
              /\ current'[e] = current[e]
              /\ attemptState'[pending[e]] = attemptState[pending[e]]
    PROVE  ActivationInv'
  <1>1. UnresolvedOwnsEnvironment'
    BY DEF ActivationInv, UnresolvedOwnsEnvironment, leasedOccupant, Unresolved
  <1>2. HeadKnown'
    BY Zenon, AttemptParts DEF ActivationInv, HeadKnown, Unresolved
  <1>3. FlagShape'
    BY DEF ActivationInv, FlagShape
  <1> QED
    BY Zenon, <1>1, <1>2, <1>3 DEF ActivationInv

\* The invariant survives every effect on a job.
LEMMA JobEffectActivation ==
    ASSUME TypeOK, LeaseOwnsSlot, ActivationInv, JobEffect
    PROVE  ActivationInv'
  <1>1. ASSUME NEW j \in Job, Enqueue(j) PROVE ActivationInv'
    <2>1. \A a \in Attempt : Unresolved(a) => JobOf(a) \in Job \ {j}
      BY ZenonT(60), <1>1, UnresolvedJob, AttemptParts DEF Enqueue
    <2> QED
      BY <1>1, <2>1, ActivationRowsKept
      DEF Enqueue, attemptVars, slotVars, operationVars, headVars
  <1>2. ASSUME NEW j \in Job, Claim(j) PROVE ActivationInv'
    <2> DEFINE n == <<j, attemptCount[j] + 1>>
               f == EnvironmentOf[j]
    <2>1. n \in Attempt /\ EnvOf(n) = f /\ JobOf(n) = j /\ f \in Env
      BY Zenon, <1>2, ClaimInRange
    <2>2. current[f] = None /\ pending[f] = None
      BY Zenon, <1>2 DEF Claim, Claimable
    <2>3. \A a \in Attempt : Unresolved(a) =>
             a # n /\ EnvOf(a) \in Env \ {f} /\ JobOf(a) \in Job \ {j}
      BY <2>1, <2>2, UnresolvedJob, AttemptParts
    <2>4. \A e \in Env : pending[e] # None => e # f /\ pending[e] \in Attempt \ {n}
      BY Zenon, <2>1, <2>2 DEF ActivationInv, FlagShape, TypeOK
    <2>5. /\ attemptState' = [attemptState EXCEPT ![n] = "leased"]
          /\ \E x : attemptFence' = [attemptFence EXCEPT ![n] = x]
          /\ \E x : slotFence' = [slotFence EXCEPT ![f] = x]
          /\ current' = [current EXCEPT ![f] = n]
          /\ deployment' = deployment \/ deployment' = [deployment EXCEPT ![j] = "assigned"]
          /\ \E x : release' = [release EXCEPT ![j] = x]
          /\ UNCHANGED <<operation, pending, headExists, headFlagged>>
      BY <1>2, ZenonT(60) DEF Claim, MoveDeployment, ensureRelease, operationVars, headVars
    <2> HIDE DEF n, f
    <2> QED
      BY <2>3, <2>4, <2>5, ActivationRowsKept DEF TypeOK
  <1>3. ASSUME NEW j \in Job, CancelIdle(j) PROVE ActivationInv'
    <2>1. \A a \in Attempt : Unresolved(a) => JobOf(a) \in Job \ {j}
      BY Zenon, <1>3, UnresolvedJob, AttemptParts DEF CancelIdle
    <2> QED
      BY <1>3, <2>1, ActivationRowsKept
      DEF CancelIdle, MoveDeployment, attemptVars, slotVars, operationVars, headVars
  <1>4. ASSUME NEW j \in Job, CancelLeased(j) PROVE ActivationInv'
    BY Zenon, <1>4, ActivationRowsKept DEF CancelLeased, attemptVars, slotVars, operationVars,
       headVars
  <1>5. ASSUME NEW a \in Attempt, NEW phase \in AgentReportablePhase, ReportProgress(a, phase)
        PROVE  ActivationInv'
    <2>1. deployment[JobOf(a)] # "activating"
      BY <1>5 DEF ReportProgress, ExecutionOrder, AgentReportablePhase, Status
    <2>2. \A b \in Attempt : Unresolved(b) => JobOf(b) # JobOf(a)
      BY <2>1, UnresolvedJob
    <2> QED
      BY Zenon, <1>5, <2>2, AttemptParts, ActivationRowsKept
      DEF ReportProgress, MoveDeployment, attemptVars, slotVars, operationVars, headVars, TypeOK
  <1>6. ASSUME NEW a \in Attempt, Authority(a), ~Unresolved(a), FreeSlot(a),
               \E s : attemptState' = [attemptState EXCEPT ![a] = s],
               deployment' = deployment \/ \E d : deployment' = [deployment EXCEPT ![JobOf(a)] = d],
               UNCHANGED <<attemptFence, release, operationVars, headVars>>
        PROVE  ActivationInv'
    <2>1. EnvOf(a) \in Env /\ a # None /\ current[EnvOf(a)] = a /\ JobOf(a) \in Job
      BY Zenon, <1>6, AttemptParts DEF Authority, leasedOccupant
    <2>2. pending[EnvOf(a)] = None
      BY Zenon, <1>6, <2>1 DEF ActivationInv, FlagShape, Unresolved, unresolvedActivation,
         activationTerminalStates
    <2>3. \A b \in Attempt : Unresolved(b) =>
             b # a /\ EnvOf(b) \in Env \ {EnvOf(a)} /\ JobOf(b) \in Job \ {JobOf(a)}
      BY SMTT(30), <1>6, <2>1, UnresolvedJob, AttemptParts
    <2>4. \A e \in Env : pending[e] # None => e # EnvOf(a) /\ pending[e] \in Attempt \ {a}
      BY ZenonT(60), <2>2 DEF ActivationInv, FlagShape, TypeOK
    <2> QED
      BY ZenonT(60), <1>6, <2>3, <2>4, ActivationRowsKept
         DEF FreeSlot, operationVars, headVars, TypeOK
  <1>7. ASSUME NEW a \in Attempt, NEW outcome \in CompletionOutcome, Complete(a, outcome)
        PROVE  ActivationInv'
    BY <1>6, <1>7, Zenon DEF Complete, MoveDeployment
  <1>8. ASSUME NEW a \in Attempt, AcknowledgeCancellation(a) PROVE ActivationInv'
    <2>1. deployment[JobOf(a)] # "activating"
      BY Zenon, <1>8 DEF AcknowledgeCancellation, MoveDeployment, Transition, canTransition
    <2>2. ~Unresolved(a)
      BY Zenon, <2>1, UnresolvedJob
    <2> QED
      BY <1>6, <1>8, <2>2, ZenonT(60) DEF AcknowledgeCancellation, MoveDeployment
  <1> QED
    BY Zenon, <1>1, <1>2, <1>3, <1>4, <1>5, <1>7, <1>8 DEF JobEffect

\* The invariant survives every effect on a slot, a head or an activation.
LEMMA SlotEffectActivation ==
    ASSUME TypeOK, LeaseOwnsSlot, ActivationInv, SlotEffect
    PROVE  ActivationInv'
  <1>1. ASSUME NEW e \in Env, AuthorityLapses(e) PROVE ActivationInv'
    BY Zenon, <1>1, ActivationRowsKept DEF AuthorityLapses, jobVars, attemptVars,
       operationVars, headVars
  <1>2. ASSUME NEW e \in Env, PlainClear(e) PROVE ActivationInv'
    <2>1. \A a \in Attempt : Unresolved(a) => EnvOf(a) # e
      <3> SUFFICES ASSUME NEW a \in Attempt, Unresolved(a), EnvOf(a) = e PROVE FALSE
        BY Zenon
      <3>1. EnvironmentUnresolved(e)
        BY Zenon DEF EnvironmentUnresolved
      <3>2. pending[e] = a
        BY Zenon, <1>2 DEF PlainClear, ActivationInv, UnresolvedOwnsEnvironment
      <3> QED
        BY Zenon, <1>2, <3>1, <3>2 DEF PlainClear
    <2>2. /\ pending' = [pending EXCEPT ![e] = None]
          /\ UNCHANGED <<operation, attemptState, attemptFence, slotFence, current,
                         deployment, release, headExists, headFlagged>>
      BY Zenon, <1>2 DEF PlainClear, clearPlainReconciliation, jobVars, attemptVars,
         operationVars,
         headVars
    <2>3. UnresolvedOwnsEnvironment'
      BY <2>1, <2>2, AttemptParts DEF ActivationInv, UnresolvedOwnsEnvironment, leasedOccupant,
         Unresolved
    <2>4. HeadKnown' /\ FlagShape'
      BY Zenon, <2>2 DEF ActivationInv, HeadKnown, FlagShape, Unresolved, TypeOK
    <2> QED
      BY Zenon, <2>3, <2>4 DEF ActivationInv
  <1>3. ASSUME NEW e \in Env, AssignRouteHostname(e) PROVE ActivationInv'
    <2>1. \A f \in Env : headExists[f] => headExists'[f]
      <3>1. headExists' = headExists \/ headExists' = [headExists EXCEPT ![e] = TRUE]
        BY Zenon, <1>3 DEF AssignRouteHostname
      <3> QED
        BY Zenon, <3>1 DEF TypeOK
    <2> QED
      BY Zenon, <1>3, <2>1, ActivationRowsKept DEF AssignRouteHostname, jobVars, attemptVars,
         slotVars,
         operationVars
  <1>4. ASSUME NEW a \in Attempt, Activate(a) PROVE ActivationInv'
    <2> DEFINE f == EnvOf(a)
    <2>1. f \in Env /\ JobOf(a) \in Job /\ a # None
      BY Zenon, AttemptParts
    <2>2. /\ leasedOccupant(a) /\ ~EnvironmentUnresolved(f) /\ headExists[f] /\ ~headFlagged[f]
          /\ operation[a] = "absent"
      BY Zenon, <1>4 DEF Activate, MayActivate, Authority
    <2>3. pending[f] = None
      BY Zenon, <2>1, <2>2 DEF ActivationInv, FlagShape, leasedOccupant
    <2>4. /\ operation' = [operation EXCEPT ![a] = "switch_authorized"]
          /\ deployment' = [deployment EXCEPT ![JobOf(a)] = "activating"]
          /\ release' = [release EXCEPT ![JobOf(a)] = "ready"]
          /\ UNCHANGED <<attemptState, attemptFence, slotFence, current, pending, headExists,
                         headFlagged>>
      BY Zenon, <1>4 DEF Activate, MoveDeployment, attemptVars, slotVars, headVars
    <2>5. \A b \in Attempt : b # a /\ Unresolved(b) => EnvOf(b) # f /\ JobOf(b) # JobOf(a)
      BY Zenon, <2>2, AttemptParts DEF EnvironmentUnresolved
    <2>6. \A b \in Attempt : Unresolved(b)' <=> b = a \/ Unresolved(b)
      BY Zenon, <2>4 DEF Unresolved, unresolvedActivation, activationTerminalStates, TypeOK
    <2>7. UnresolvedOwnsEnvironment'
      <3> SUFFICES ASSUME NEW b \in Attempt, Unresolved(b)'
                   PROVE  /\ leasedOccupant(b)'
                          /\ deployment'[JobOf(b)] = "activating"
                          /\ release'[JobOf(b)] = "ready"
                          /\ IF operation'[b] = "reconciliation_required"
                             THEN pending'[EnvOf(b)] = b /\ headFlagged'[EnvOf(b)]
                             ELSE pending'[EnvOf(b)] = None /\ ~headFlagged'[EnvOf(b)]
        BY Zenon DEF UnresolvedOwnsEnvironment
      <3>1. CASE b = a
        BY Zenon, <2>1, <2>2, <2>3, <2>4, <3>1 DEF leasedOccupant, TypeOK
      <3>2. CASE b # a
        BY <2>4, <2>5, <2>6, <3>2, AttemptParts DEF ActivationInv, UnresolvedOwnsEnvironment,
           leasedOccupant, TypeOK
      <3> QED
        BY Zenon, <3>1, <3>2
    <2>8. HeadKnown'
      BY Zenon, <2>2, <2>4, <2>6 DEF ActivationInv, HeadKnown
    <2>9. FlagShape'
      BY <2>2, <2>4 DEF ActivationInv, FlagShape
    <2> QED
      BY Zenon, <2>7, <2>8, <2>9 DEF ActivationInv
  <1>5. ASSUME NEW a \in Attempt, Block(a) PROVE ActivationInv'
    <2> DEFINE f == EnvOf(a)
    <2>1. f \in Env /\ a # None
      BY Zenon, AttemptParts
    <2>2. /\ leasedOccupant(a) /\ operation[a] = "switch_authorized" /\ Unresolved(a)
      BY Zenon, <1>5 DEF Block, blockActivationForReconciliation, Blockable, Unresolved,
         unresolvedActivation, activationTerminalStates
    <2>3. headExists[f]
      BY Zenon, <2>2 DEF ActivationInv, HeadKnown
    <2>4. /\ operation' = [operation EXCEPT ![a] = "reconciliation_required"]
          /\ headFlagged' = [headFlagged EXCEPT ![f] = TRUE]
          /\ pending' = [pending EXCEPT ![f] = a]
          /\ UNCHANGED <<attemptState, attemptFence, slotFence, current, deployment, release,
                         headExists>>
      BY <1>5, <2>1, <2>3, ZenonT(60) DEF Block, blockActivationForReconciliation, jobVars,
         attemptVars
    <2>5. \A b \in Attempt : b # a /\ Unresolved(b) => EnvOf(b) # f
      BY <2>1, <2>2, UnresolvedJob
    <2>6. \A b \in Attempt : Unresolved(b)' <=> Unresolved(b)
      BY SMTT(30), <2>2, <2>4 DEF Unresolved, unresolvedActivation, activationTerminalStates
    <2>7. UnresolvedOwnsEnvironment'
      <3> SUFFICES ASSUME NEW b \in Attempt, Unresolved(b)'
                   PROVE  /\ leasedOccupant(b)'
                          /\ deployment'[JobOf(b)] = "activating"
                          /\ release'[JobOf(b)] = "ready"
                          /\ IF operation'[b] = "reconciliation_required"
                             THEN pending'[EnvOf(b)] = b /\ headFlagged'[EnvOf(b)]
                             ELSE pending'[EnvOf(b)] = None /\ ~headFlagged'[EnvOf(b)]
        BY Zenon DEF UnresolvedOwnsEnvironment
      <3>1. CASE b = a
        BY <2>1, <2>2, <2>4, <3>1 DEF leasedOccupant, ActivationInv, UnresolvedOwnsEnvironment,
           TypeOK
      <3>2. CASE b # a
        BY <2>4, <2>5, <2>6, <3>2, AttemptParts DEF ActivationInv, UnresolvedOwnsEnvironment,
           leasedOccupant, TypeOK
      <3> QED
        BY Zenon, <3>1, <3>2
    <2>8. HeadKnown'
      BY Zenon, <2>4, <2>6 DEF ActivationInv, HeadKnown
    <2>9. FlagShape'
      <3> SUFFICES ASSUME NEW e \in Env, pending'[e] # None
                   PROVE  /\ EnvOf(pending'[e]) = e
                          /\ IF current'[e] # None
                             THEN /\ pending'[e] = current'[e]
                                  /\ operation'[current'[e]] = "reconciliation_required"
                             ELSE attemptState'[pending'[e]] \in {"expired", "cancelled"}
        BY Zenon DEF FlagShape
      <3>1. CASE e = f
        BY ZenonT(60), <2>1, <2>2, <2>4, <3>1 DEF leasedOccupant, TypeOK
      <3>2. CASE e # f
        BY <2>4, <3>2 DEF ActivationInv, FlagShape
      <3> QED
        BY Zenon, <3>1, <3>2
    <2> QED
      BY Zenon, <2>7, <2>8, <2>9 DEF ActivationInv
  <1>6. ASSUME NEW a \in Attempt, Switch(a) \/ NotActivated(a) PROVE ActivationInv'
    <2> DEFINE f == EnvOf(a)
    <2>1. f \in Env /\ a # None /\ JobOf(a) \in Job
      BY Zenon, AttemptParts
    <2>2. Unresolved(a)
      BY Zenon, <1>6 DEF Switch, NotActivated, BlockedShape, Unresolved, unresolvedActivation,
         activationTerminalStates
    <2>3. /\ \E o \in {"succeeded", "failed"} : operation' = [operation EXCEPT ![a] = o]
          /\ \E s : attemptState' = [attemptState EXCEPT ![a] = s]
          /\ \E d : deployment' = [deployment EXCEPT ![JobOf(a)] = d]
          /\ headFlagged' = [headFlagged EXCEPT ![f] = FALSE]
          /\ current' = [current EXCEPT ![f] = None]
          /\ pending' = [pending EXCEPT ![f] = None]
          /\ UNCHANGED <<attemptFence, slotFence, headExists>>
      BY <1>6, Zenon DEF Switch, finalizeActivationSucceeded, NotActivated, resolveNotActivated,
         MoveDeployment
    <2>4. \A b \in Attempt : b # a /\ Unresolved(b) =>
             EnvOf(b) \in Env \ {f} /\ JobOf(b) \in Job \ {JobOf(a)}
      BY SMTT(30), <2>1, <2>2, UnresolvedJob, AttemptParts
    <2>5. \A b \in Attempt : Unresolved(b)' <=> b # a /\ Unresolved(b)
      BY Zenon, <2>3 DEF Unresolved, unresolvedActivation, activationTerminalStates, TypeOK
    <2>6. \A b \in Attempt : Unresolved(b)' => release'[JobOf(b)] = "ready"
      <3> SUFFICES ASSUME NEW b \in Attempt, b # a, Unresolved(b)
                   PROVE  release'[JobOf(b)] = "ready"
        BY Zenon, <2>5
      <3>1. release[JobOf(b)] = "ready" /\ JobOf(b) \in Job \ {JobOf(a)} /\ JobOf(b) # None
        BY ZenonT(60), <2>4, UnresolvedJob, ConstantsAssumption
      <3>2. CASE Switch(a)
        BY Zenon, <3>1, <3>2 DEF Switch, finalizeActivationSucceeded, MayFinalize,
           ReleasesAfterSwitch
      <3>3. CASE NotActivated(a)
        BY Zenon, <3>1, <3>3 DEF NotActivated, resolveNotActivated
      <3> QED
        BY Zenon, <1>6, <3>2, <3>3
    <2>7. UnresolvedOwnsEnvironment'
      <3> SUFFICES ASSUME NEW b \in Attempt, Unresolved(b)'
                   PROVE  /\ leasedOccupant(b)'
                          /\ deployment'[JobOf(b)] = "activating"
                          /\ release'[JobOf(b)] = "ready"
                          /\ IF operation'[b] = "reconciliation_required"
                             THEN pending'[EnvOf(b)] = b /\ headFlagged'[EnvOf(b)]
                             ELSE pending'[EnvOf(b)] = None /\ ~headFlagged'[EnvOf(b)]
        BY Zenon DEF UnresolvedOwnsEnvironment
      <3>1. b # a /\ Unresolved(b)
        BY Zenon, <2>5
      <3> QED
        BY <2>3, <2>4, <2>6, <3>1, SMTT(30) DEF ActivationInv, UnresolvedOwnsEnvironment,
           leasedOccupant, TypeOK
    <2>8. HeadKnown'
      BY Zenon, <2>3, <2>5 DEF ActivationInv, HeadKnown
    <2>9. FlagShape'
      <3> SUFFICES ASSUME NEW e \in Env, pending'[e] # None
                   PROVE  /\ EnvOf(pending'[e]) = e
                          /\ IF current'[e] # None
                             THEN /\ pending'[e] = current'[e]
                                  /\ operation'[current'[e]] = "reconciliation_required"
                             ELSE attemptState'[pending'[e]] \in {"expired", "cancelled"}
        BY Zenon DEF FlagShape
      <3>1. e # f /\ pending'[e] = pending[e] /\ current'[e] = current[e]
        BY Zenon, <2>3 DEF TypeOK
      <3>2. EnvOf(pending[e]) = e /\ pending[e] \in Attempt \ {a}
        BY Zenon, <3>1 DEF ActivationInv, FlagShape, TypeOK
      <3> QED
        BY <2>3, <3>1, <3>2, SMTT(30) DEF ActivationInv, FlagShape
    <2> QED
      BY Zenon, <2>7, <2>8, <2>9 DEF ActivationInv
  <1>7. ASSUME NEW a \in Attempt, NEW report \in Report, LateEvidence(a, report)
        PROVE  ActivationInv'
    BY Zenon, <1>7, ActivationRowsKept DEF LateEvidence, writeLateEvidence, jobVars,
       attemptVars, slotVars,
       operationVars, headVars
  <1>8. ASSUME NEW a \in Attempt, traceDeclaredContradiction(a) PROVE ActivationInv'
    BY Zenon, <1>8, ActivationRowsKept DEF traceDeclaredContradiction, jobVars, attemptVars,
       slotVars,
       operationVars, headVars
  <1>9. ASSUME NEW S \in SUBSET Attempt, Close(S) PROVE ActivationInv'
    <2> DEFINE C == ClosedOrdinary(S)
               B == NewlyBlocked(S)
    <2>1. /\ attemptState' = [a \in Attempt |->
               IF a \in C THEN IF cancelRequested[JobOf(a)] THEN "cancelled" ELSE "expired"
               ELSE attemptState[a]]
          /\ slotFence' = [e \in Env |->
               IF current[e] \in C THEN slotFence[e] + 1 ELSE slotFence[e]]
          /\ current' = [e \in Env |-> IF current[e] \in C THEN None ELSE current[e]]
          /\ pending' = [e \in Env |-> IF current[e] \in C \cup B THEN current[e] ELSE pending[e]]
          /\ operation' = [a \in Attempt |->
               IF a \in B THEN "reconciliation_required" ELSE operation[a]]
          /\ headFlagged' = [e \in Env |->
               IF current[e] \in B THEN headFlagged[e] \/ headExists[e] ELSE headFlagged[e]]
          /\ UNCHANGED <<attemptFence, release, headExists>>
      BY Zenon, <1>9 DEF Close, closeExpiredOrRevokedAttempts, TypeOK
    <2>2. deployment' = [j \in Job |-> IF LatestAttempt(j) \in C
               THEN DeploymentAfterClose(LatestAttempt(j)) ELSE deployment[j]]
      BY Zenon, <1>9 DEF Close, closeExpiredOrRevokedAttempts
    <2>3. /\ C \subseteq Attempt /\ B \subseteq Attempt
          /\ \A a \in C : current[EnvOf(a)] = a /\ ~Unresolved(a)
          /\ \A a \in B : current[EnvOf(a)] = a /\ operation[a] = "switch_authorized"
      BY Zenon, <1>9 DEF Close, ClosedOrdinary, Diverted, NewlyBlocked
    <2> HIDE DEF C, B
    <2>4. \A b \in Attempt : Unresolved(b)' <=> Unresolved(b)
      BY ZenonT(60), <2>1, <2>3 DEF Unresolved, unresolvedActivation, activationTerminalStates
    <2>5. \A b \in Attempt : Unresolved(b) =>
             /\ EnvOf(b) \in Env /\ current[EnvOf(b)] = b /\ b \notin C
             /\ JobOf(b) \in Job /\ LatestAttempt(JobOf(b)) = b
      BY <2>3, UnresolvedJob, AttemptParts, SMTT(30) DEF LeaseOwnsSlot, LatestAttempt, TypeOK
    <2>6. UnresolvedOwnsEnvironment'
      <3> SUFFICES ASSUME NEW b \in Attempt, Unresolved(b)
                   PROVE  /\ leasedOccupant(b)'
                          /\ deployment'[JobOf(b)] = "activating"
                          /\ release'[JobOf(b)] = "ready"
                          /\ IF operation'[b] = "reconciliation_required"
                             THEN pending'[EnvOf(b)] = b /\ headFlagged'[EnvOf(b)]
                             ELSE pending'[EnvOf(b)] = None /\ ~headFlagged'[EnvOf(b)]
        BY <2>4, ZenonT(60) DEF UnresolvedOwnsEnvironment
      <3>1. leasedOccupant(b)' /\ release'[JobOf(b)] = "ready"
        BY <2>1, <2>5 DEF ActivationInv, UnresolvedOwnsEnvironment, leasedOccupant
      <3>2. deployment'[JobOf(b)] = "activating"
        BY Zenon, <2>2, <2>5 DEF ActivationInv, UnresolvedOwnsEnvironment
      <3>3. CASE b \in B
        BY <2>1, <2>3, <2>5, <3>1, <3>2, <3>3, ZenonT(60) DEF ActivationInv, HeadKnown
      <3>4. CASE b \notin B
        BY <2>1, <2>5, <3>1, <3>2, <3>4, ZenonT(60) DEF ActivationInv, UnresolvedOwnsEnvironment
      <3> QED
        BY Zenon, <3>3, <3>4 DEF TypeOK
    <2>7. HeadKnown'
      BY Zenon, <2>1, <2>4 DEF ActivationInv, HeadKnown, TypeOK
    <2>8. FlagShape'
      <3> SUFFICES ASSUME NEW e \in Env, pending'[e] # None
                   PROVE  /\ EnvOf(pending'[e]) = e
                          /\ IF current'[e] # None
                             THEN /\ pending'[e] = current'[e]
                                  /\ operation'[current'[e]] = "reconciliation_required"
                             ELSE attemptState'[pending'[e]] \in {"expired", "cancelled"}
        BY Zenon  DEF FlagShape
      <3>1. current[e] # None => EnvOf(current[e]) = e /\ current[e] \in Attempt
        BY SMTT(30) DEF LeaseOwnsSlot, TypeOK
      <3>2. CASE current[e] \in C
        BY ZenonT(60), <2>1, <2>3, <3>1, <3>2, AttemptParts
      <3>3. CASE current[e] \in B /\ current[e] \notin C
        BY ZenonT(60), <2>1, <2>3, <3>1, <3>3, AttemptParts
      <3>4. CASE current[e] \notin C \cup B
        <4>1. pending[e] # None /\ pending'[e] = pending[e] /\ current'[e] = current[e]
          BY Zenon, <2>1, <3>4
        <4>2. pending[e] \notin C
          BY Zenon, <2>3, <3>4, <4>1 DEF ActivationInv, FlagShape
        <4> QED
          BY Zenon, <2>1, <3>1, <3>4, <4>1, <4>2 DEF ActivationInv, FlagShape, TypeOK
      <3> QED
        BY Zenon, <3>2, <3>3, <3>4 DEF TypeOK
    <2> QED
      BY Zenon, <2>6, <2>7, <2>8 DEF ActivationInv
  <1> QED
    BY Zenon, <1>1, <1>2, <1>3, <1>4, <1>5, <1>6, <1>7, <1>8, <1>9 DEF SlotEffect

\* The strengthened invariant holds initially and is kept by every step.
THEOREM ActivationInvariant == Spec => []ActivationInv
  <1>1. CPInit => ActivationInv
    BY DEF CPInit, Init, ActivationInv, UnresolvedOwnsEnvironment, HeadKnown, FlagShape,
       Unresolved, unresolvedActivation, activationTerminalStates
  <1>2. TypeInvariant /\ LeaseOwnsSlot /\ ActivationInv /\ [Next]_allVars => ActivationInv'
    <2> SUFFICES ASSUME TypeInvariant, LeaseOwnsSlot, ActivationInv, Effect
                 PROVE  ActivationInv'
      BY Zenon, StepEffect
    <2>1. CASE UNCHANGED vars
      BY <2>1 DEF vars, attemptVars, jobVars, slotVars, operationVars, headVars, ActivationInv,
         UnresolvedOwnsEnvironment, HeadKnown, FlagShape, Unresolved, leasedOccupant
    <2> QED
      BY Zenon, <2>1, JobEffectActivation, SlotEffectActivation DEF Effect, TypeInvariant
  <1> QED
    BY <1>1, <1>2, TypeCorrect, OneLiveLease, PTL DEF Spec

\* An unresolved activation keeps its attempt leased, in the slot and at the
\* slot's fence with its deployment activating, and the flags of slot and
\* head say exactly whether it is blocked.
THEOREM ActivationOwnsEnvironment == Spec => []UnresolvedOwnsEnvironment
  BY ActivationInvariant, PTL DEF ActivationInv

\* Every environment flagged for reconciliation has a way out.
THEOREM FlagsResolvable == Spec => []FlagResolvable
  <1>1. TypeInvariant /\ LeaseOwnsSlot /\ ActivationInv => FlagResolvable
    <2> SUFFICES ASSUME TypeOK, LeaseOwnsSlot, ActivationInv, NEW e \in Env, pending[e] # None
                 PROVE  IF EnvironmentUnresolved(e) THEN BlockedShape(pending[e])
                        ELSE /\ attemptState[pending[e]] \in {"expired", "cancelled"}
                             /\ current[e] = None
      BY Zenon DEF FlagResolvable, TypeInvariant
    <2>1. pending[e] \in Attempt /\ EnvOf(pending[e]) = e
      BY SMTT(30) DEF TypeOK, ActivationInv, FlagShape
    <2>2. CASE EnvironmentUnresolved(e)
      <3>1. PICK a \in Attempt : EnvOf(a) = e /\ Unresolved(a)
        BY Zenon, <2>2 DEF EnvironmentUnresolved
      <3>2. current[e] = a /\ a # None
        BY Zenon, <3>1, UnresolvedJob, AttemptParts
      <3>3. pending[e] = a /\ operation[a] = "reconciliation_required"
        BY Zenon, <3>2 DEF ActivationInv, FlagShape
      <3> QED
        BY <2>2, <3>1, <3>2, <3>3, UnresolvedJob
        DEF BlockedShape, ActivationInv, UnresolvedOwnsEnvironment, leasedOccupant, TypeOK
    <2>3. CASE ~EnvironmentUnresolved(e)
      BY Zenon, <2>1, <2>3 DEF ActivationInv, FlagShape, EnvironmentUnresolved, Unresolved,
         unresolvedActivation, activationTerminalStates
    <2> QED
      BY Zenon, <2>2, <2>3
  <1> QED
    BY <1>1, TypeCorrect, OneLiveLease, ActivationInvariant, PTL
=============================================================================
