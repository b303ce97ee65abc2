---------------------------- MODULE OutcomeProofs ---------------------------
(***************************************************************************)
(* More about ControlPlane.  Fences: no two attempts of an environment     *)
(* share one, and the slots implement FencedEnvironment.  Outcomes: the    *)
(* rows of job, deployment, release and route agree, recovery is never     *)
(* refused, an accepted cancellation is never overtaken by an activation,  *)
(* and what was closed, declared or recorded stays so.                     *)
(***************************************************************************)
EXTENDS ControlPlaneProofs

\* A job's attempts are the first attempt_count ones, and only those have a
\* fence.
AttemptsNumbered ==
    \A a \in Attempt :
       /\ attemptState[a] = "absent" <=> NumberOf(a) > attemptCount[JobOf(a)]
       /\ attemptState[a] = "absent" => attemptFence[a] = 0

\* What every effect but a claim does to the fences.
FencesKept ==
    /\ UNCHANGED <<attemptFence, attemptCount>>
    /\ \A a \in Attempt : attemptState'[a] = "absent" <=> attemptState[a] = "absent"
    /\ \A e \in Env : slotFence'[e] \in Nat /\ slotFence'[e] >= slotFence[e]

\* Every effect is a claim or keeps the fences of all attempts.
LEMMA EffectOnFences ==
    ASSUME TypeOK, Effect
    PROVE  FencesKept \/ \E j \in Job : Claim(j)
  <1> USE DEF TypeOK
  <1>1. ASSUME UNCHANGED <<attemptState, attemptFence, attemptCount, slotFence>>
        PROVE  FencesKept
    BY <1>1 DEF FencesKept
  <1>2. ASSUME NEW a \in Attempt, attemptState[a] = "leased",
               \E s \in AttemptState \ {"absent"} : attemptState' = [attemptState EXCEPT ![a] = s],
               UNCHANGED <<attemptFence, attemptCount, slotFence>>
        PROVE  FencesKept
    BY <1>2 DEF FencesKept
  <1>3. ASSUME NEW a \in Attempt, NEW outcome \in CompletionOutcome, Complete(a, outcome)
        PROVE  FencesKept
    BY <1>2, <1>3, Zenon DEF Complete, Authority, leasedOccupant, FreeSlot, AttemptState
  <1>4. ASSUME NEW a \in Attempt, AcknowledgeCancellation(a) PROVE FencesKept
    BY <1>2, <1>4, Zenon DEF AcknowledgeCancellation, Authority, leasedOccupant, FreeSlot,
       AttemptState
  <1>5. ASSUME NEW a \in Attempt, Switch(a) PROVE FencesKept
    BY <1>2, <1>5, Zenon DEF Switch, finalizeActivationSucceeded, MayFinalize, AttemptState
  <1>6. ASSUME NEW a \in Attempt, NotActivated(a) PROVE FencesKept
    BY <1>2, <1>6, Zenon DEF NotActivated, BlockedShape, resolveNotActivated, AttemptState
  <1>7. ASSUME NEW S \in SUBSET Attempt, Close(S) PROVE FencesKept
    <2>1. \A a \in ClosedOrdinary(S) : attemptState[a] = "leased"
      BY Zenon, <1>7 DEF Close, ClosedOrdinary
    <2>2. \A a \in Attempt : attemptState'[a] = "absent" <=> attemptState[a] = "absent"
      BY Zenon, <1>7, <2>1 DEF Close, closeExpiredOrRevokedAttempts
    <2>3. \A e \in Env : slotFence'[e] \in Nat /\ slotFence'[e] >= slotFence[e]
      BY <1>7 DEF Close, closeExpiredOrRevokedAttempts
    <2> QED
      BY Zenon, <1>7, <2>2, <2>3 DEF FencesKept, Close, closeExpiredOrRevokedAttempts
  <1>8. ASSUME NEW j \in Job, Enqueue(j) \/ CancelIdle(j) PROVE FencesKept
    BY Zenon, <1>1, <1>8 DEF Enqueue, CancelIdle, attemptVars, slotVars
  <1> QED
    BY Zenon, <1>1, <1>3, <1>4, <1>5, <1>6, <1>7, <1>8, LeaseRowsKept
    DEF leaseRows, Effect, JobEffect, SlotEffect

\* The rows a claim writes.
LEMMA ClaimRows ==
    ASSUME TypeOK, NEW j \in Job, Claim(j)
    PROVE  \E n \in Attempt :
             LET f == EnvironmentOf[j] IN
             /\ n = <<j, attemptCount[j] + 1>>
             /\ JobOf(n) = j /\ NumberOf(n) = attemptCount[j] + 1 /\ EnvOf(n) = f /\ f \in Env
             /\ attemptState' = [attemptState EXCEPT ![n] = "leased"]
             /\ attemptFence' = [attemptFence EXCEPT ![n] = slotFence[f] + 1]
             /\ slotFence' = [slotFence EXCEPT ![f] = slotFence[f] + 1]
             /\ attemptCount' = [attemptCount EXCEPT ![j] = attemptCount[j] + 1]
             /\ current' = [current EXCEPT ![f] = n]
             /\ current[f] = None /\ pending[f] = None
             /\ UNCHANGED pending
  BY ClaimInRange, Zenon DEF Claim, Claimable, NextFence

\* Attempts stay numbered.
THEOREM Numbering == Spec => []AttemptsNumbered
  <1>1. CPInit => AttemptsNumbered
    BY AttemptParts, ConstantsAssumption DEF CPInit, Init, AttemptsNumbered
  <1>2. TypeInvariant /\ AttemptsNumbered /\ [Next]_allVars => AttemptsNumbered'
    <2> SUFFICES ASSUME TypeOK, AttemptsNumbered, Effect PROVE AttemptsNumbered'
      BY Zenon, StepEffect DEF TypeInvariant
    <2>1. CASE FencesKept
      BY Zenon, <2>1 DEF FencesKept, AttemptsNumbered
    <2>2. ASSUME NEW j \in Job, Claim(j) PROVE AttemptsNumbered'
      <3>1. PICK n \in Attempt :
               /\ JobOf(n) = j /\ NumberOf(n) = attemptCount[j] + 1
               /\ attemptState' = [attemptState EXCEPT ![n] = "leased"]
               /\ \E x : attemptFence' = [attemptFence EXCEPT ![n] = x]
               /\ attemptCount' = [attemptCount EXCEPT ![j] = attemptCount[j] + 1]
        BY Zenon, <2>2, ClaimRows
      <3> SUFFICES ASSUME NEW a \in Attempt
                   PROVE  /\ attemptState'[a] = "absent" <=> NumberOf(a) > attemptCount'[JobOf(a)]
                          /\ attemptState'[a] = "absent" => attemptFence'[a] = 0
        BY Zenon DEF AttemptsNumbered
      <3>2. CASE a = n
        BY <3>1, <3>2 DEF TypeOK
      <3>3. CASE a # n /\ JobOf(a) = j
        <4>1. NumberOf(a) # NumberOf(n) /\ NumberOf(a) \in Int
          BY <3>1, <3>3, AttemptParts
        <4> QED
          BY <3>1, <3>3, <4>1 DEF AttemptsNumbered, TypeOK
      <3>4. CASE JobOf(a) # j
        BY Zenon, <3>1, <3>4, AttemptParts DEF AttemptsNumbered, TypeOK
      <3> QED
        BY Zenon, <3>2, <3>3, <3>4
    <2> QED
      BY Zenon, <2>1, <2>2, EffectOnFences
  <1> QED
    BY <1>1, <1>2, TypeCorrect, PTL DEF Spec

\* Two attempts of one environment never hold the same fence, and none holds
\* a fence its slot has not reached.
THEOREM FencesAreUnique == Spec => []FencesUnique
  <1>1. CPInit => FencesUnique
    BY DEF CPInit, Init, FencesUnique
  <1>2. TypeInvariant /\ FencesUnique /\ [Next]_allVars => FencesUnique'
    <2> SUFFICES ASSUME TypeOK, FencesUnique, Effect PROVE FencesUnique'
      BY Zenon, StepEffect DEF TypeInvariant
    <2>1. CASE FencesKept
      BY <2>1, AttemptParts DEF FencesKept, FencesUnique, TypeOK
    <2>2. ASSUME NEW j \in Job, Claim(j) PROVE FencesUnique'
      <3>1. PICK n \in Attempt :
               LET f == EnvironmentOf[j] IN
               /\ EnvOf(n) = f /\ f \in Env
               /\ attemptState' = [attemptState EXCEPT ![n] = "leased"]
               /\ attemptFence' = [attemptFence EXCEPT ![n] = slotFence[f] + 1]
               /\ slotFence' = [slotFence EXCEPT ![f] = slotFence[f] + 1]
        BY Zenon, <2>2, ClaimRows
      <3>2. ASSUME NEW a \in Attempt, attemptState'[a] # "absent"
            PROVE  attemptFence'[a] \in 1 .. slotFence'[EnvOf(a)]
        BY <3>1, <3>2, AttemptParts DEF FencesUnique, TypeOK
      <3>3. ASSUME NEW a \in Attempt, NEW b \in Attempt, a # b, EnvOf(a) = EnvOf(b),
                   attemptState'[a] # "absent", attemptState'[b] # "absent"
            PROVE  attemptFence'[a] # attemptFence'[b]
        BY <3>1, <3>3, AttemptParts DEF FencesUnique, TypeOK
      <3> QED
        BY Zenon, <3>2, <3>3 DEF FencesUnique
    <2> QED
      BY Zenon, <2>1, <2>2, EffectOnFences
  <1> QED
    BY <1>1, <1>2, TypeCorrect, PTL DEF Spec

-----------------------------------------------------------------------------
(* The slots implement FencedEnvironment.                                  *)

\* The flag of an occupied slot is set exactly when the occupant's
\* activation is blocked.
LEMMA OccupiedFlag ==
    ASSUME TypeOK, LeaseOwnsSlot, ActivationInv, NEW e \in Env, current[e] # None
    PROVE  /\ current[e] \in Attempt /\ EnvOf(current[e]) = e
           /\ operation[current[e]] = "reconciliation_required" => pending[e] = current[e]
           /\ operation[current[e]] # "reconciliation_required" => pending[e] = None
  BY DEF TypeOK, LeaseOwnsSlot, ActivationInv, UnresolvedOwnsEnvironment, FlagShape,
     Unresolved, unresolvedActivation, activationTerminalStates

\* A step that lets the occupant a go, keeping the fence, is a pass.
LEMMA LettingGoPasses ==
    ASSUME TypeOK, LeaseOwnsSlot, ActivationInv, NEW a \in Attempt, current[EnvOf(a)] = a,
           current' = [current EXCEPT ![EnvOf(a)] = None],
           pending' = [pending EXCEPT ![EnvOf(a)] = None],
           UNCHANGED <<slotFence, attemptFence>>
    PROVE  Fenced!Pass
  <1>1. EnvOf(a) \in Env /\ a # None
    BY Zenon, AttemptParts
  <1>2. pending[EnvOf(a)] = None \/ pending[EnvOf(a)] = current[EnvOf(a)]
    BY Zenon, <1>1, OccupiedFlag
  <1>3. Fenced!Passes(EnvOf(a))
    BY Zenon, <1>1, <1>2 DEF Fenced!Passes, Fenced!Stays, TypeOK
  <1>4. ASSUME NEW e \in Env, e # EnvOf(a)
        PROVE  Fenced!Stays(e, current[e], slotFence[e], pending[e])
    BY Zenon, <1>4 DEF Fenced!Stays, TypeOK
  <1> QED
    BY Zenon, <1>3, <1>4 DEF Fenced!Pass

\* Every effect on the rows is a step of FencedEnvironment or a stutter.
LEMMA EffectRefines ==
    ASSUME TypeOK, LeaseOwnsSlot, ActivationInv, AttemptsNumbered, Effect
    PROVE  Fenced!FencedNext \/ UNCHANGED <<current, slotFence, pending, attemptFence>>
  <1> DEFINE Goal == Fenced!FencedNext \/ UNCHANGED <<current, slotFence, pending, attemptFence>>
  <1> USE DEF Fenced!FencedNext
  <1>1. ASSUME NEW j \in Job, Claim(j) PROVE Goal
    <2>1. PICK n \in Attempt :
             LET f == EnvironmentOf[j] IN
             /\ JobOf(n) = j /\ NumberOf(n) = attemptCount[j] + 1 /\ EnvOf(n) = f /\ f \in Env
             /\ attemptFence' = [attemptFence EXCEPT ![n] = slotFence[f] + 1]
             /\ slotFence' = [slotFence EXCEPT ![f] = slotFence[f] + 1]
             /\ current' = [current EXCEPT ![f] = n]
             /\ current[f] = None /\ pending[f] = None
             /\ UNCHANGED pending
      BY Zenon, <1>1, ClaimRows
    <2>2. attemptFence[n] = 0
      BY <2>1, SMTT(30) DEF AttemptsNumbered, TypeOK
    <2>3. Fenced!Grant(EnvironmentOf[j], n)
      BY Zenon, <2>1, <2>2 DEF Fenced!Grant
    <2> QED
      BY Zenon, <2>1, <2>3
  <1>2. ASSUME NEW j \in Job, Enqueue(j) \/ CancelIdle(j) \/ CancelLeased(j) PROVE Goal
    BY Zenon, <1>2 DEF Enqueue, CancelIdle, CancelLeased, attemptVars, slotVars
  <1>3. ASSUME NEW a \in Attempt, NEW phase \in AgentReportablePhase, ReportProgress(a, phase)
        PROVE  Goal
    BY Zenon, <1>3 DEF ReportProgress, attemptVars, slotVars
  <1>4. ASSUME NEW a \in Attempt, Authority(a), ~Unresolved(a), FreeSlot(a), UNCHANGED attemptFence
        PROVE  Goal
    <2>1. EnvOf(a) \in Env /\ a # None /\ current[EnvOf(a)] = a
      BY Zenon, <1>4, AttemptParts DEF Authority, leasedOccupant
    <2>2. pending[EnvOf(a)] = None
      BY Zenon, <1>4, <2>1, OccupiedFlag DEF Unresolved, unresolvedActivation,
         activationTerminalStates
    <2>3. pending' = [pending EXCEPT ![EnvOf(a)] = None]
      BY Zenon, <1>4, <2>1, <2>2 DEF FreeSlot, TypeOK
    <2> QED
      BY <1>4, <2>1, <2>3, LettingGoPasses, Zenon DEF FreeSlot
  <1>5. ASSUME NEW a \in Attempt, NEW outcome \in CompletionOutcome, Complete(a, outcome)
        PROVE  Goal
    BY Zenon, <1>4, <1>5 DEF Complete
  <1>6. ASSUME NEW a \in Attempt, AcknowledgeCancellation(a) PROVE Goal
    <2>1. deployment[JobOf(a)] # "activating"
      BY Zenon, <1>6 DEF AcknowledgeCancellation, MoveDeployment, Transition, canTransition
    <2>2. ~Unresolved(a)
      BY Zenon, <2>1, UnresolvedJob
    <2> QED
      BY Zenon, <1>4, <1>6, <2>2 DEF AcknowledgeCancellation
  <1>7. ASSUME NEW e \in Env, AuthorityLapses(e) \/ AssignRouteHostname(e) PROVE Goal
    BY Zenon, <1>7 DEF AuthorityLapses, AssignRouteHostname, attemptVars, slotVars
  <1>8. ASSUME NEW e \in Env, PlainClear(e) PROVE Goal
    <2>1. /\ pending[e] # None
          /\ pending' = [pending EXCEPT ![e] = None]
          /\ UNCHANGED <<current, slotFence, attemptFence>>
      BY Zenon, <1>8 DEF PlainClear, clearPlainReconciliation, attemptVars
    <2>2. current[e] = None
      <3> SUFFICES ASSUME current[e] # None PROVE FALSE
        BY Zenon
      <3>1. /\ current[e] \in Attempt /\ EnvOf(current[e]) = e /\ pending[e] = current[e]
            /\ Unresolved(current[e])
        BY Zenon, <2>1, OccupiedFlag DEF Unresolved, unresolvedActivation,
           activationTerminalStates
      <3> QED
        BY Zenon, <1>8, <3>1 DEF PlainClear, EnvironmentUnresolved
    <2>3. Fenced!Passes(e)
      BY Zenon, <2>1, <2>2 DEF Fenced!Passes, Fenced!Stays, TypeOK
    <2>4. \A f \in Env \ {e} : Fenced!Stays(f, current[f], slotFence[f], pending[f])
      BY Zenon, <2>1 DEF Fenced!Stays, TypeOK
    <2> QED
      BY Zenon, <2>1, <2>3, <2>4 DEF Fenced!Pass
  <1>9. ASSUME NEW a \in Attempt, Activate(a) \/ traceDeclaredContradiction(a) PROVE Goal
    BY Zenon, <1>9 DEF Activate, traceDeclaredContradiction, attemptVars, slotVars
  <1>10. ASSUME NEW a \in Attempt, NEW report \in Report, LateEvidence(a, report)
         PROVE  Goal
    BY Zenon, <1>10 DEF LateEvidence, writeLateEvidence, attemptVars, slotVars
  <1>11. ASSUME NEW a \in Attempt, Block(a) PROVE Goal
    <2>1. /\ EnvOf(a) \in Env /\ a # None /\ current[EnvOf(a)] = a
          /\ operation[a] = "switch_authorized"
          /\ pending' = [pending EXCEPT ![EnvOf(a)] = a]
          /\ UNCHANGED <<current, slotFence, attemptFence>>
      BY <1>11, AttemptParts, ZenonT(60) DEF Block, blockActivationForReconciliation, Blockable,
         leasedOccupant, attemptVars
    <2>2. pending[EnvOf(a)] = None
      BY Zenon, <2>1, OccupiedFlag
    <2>3. Fenced!Passes(EnvOf(a))
      BY Zenon, <2>1, <2>2 DEF Fenced!Passes, Fenced!Stays, TypeOK
    <2>4. \A f \in Env \ {EnvOf(a)} : Fenced!Stays(f, current[f], slotFence[f], pending[f])
      BY Zenon, <2>1 DEF Fenced!Stays, TypeOK
    <2> QED
      BY Zenon, <2>1, <2>3, <2>4 DEF Fenced!Pass
  <1>12. ASSUME NEW a \in Attempt, Switch(a) \/ NotActivated(a) PROVE Goal
    <2>1. /\ current[EnvOf(a)] = a
          /\ current' = [current EXCEPT ![EnvOf(a)] = None]
          /\ pending' = [pending EXCEPT ![EnvOf(a)] = None]
          /\ UNCHANGED <<slotFence, attemptFence>>
      BY Zenon, <1>12 DEF Switch, finalizeActivationSucceeded, MayFinalize, NotActivated,
         BlockedShape, resolveNotActivated
    <2> QED
      BY Zenon, <2>1, LettingGoPasses
  <1>13. ASSUME NEW S \in SUBSET Attempt, Close(S) PROVE Goal
    <2> DEFINE C == ClosedOrdinary(S)
               B == NewlyBlocked(S)
    <2>1. /\ slotFence' = [e \in Env |->
               IF current[e] \in C THEN slotFence[e] + 1 ELSE slotFence[e]]
          /\ current' = [e \in Env |-> IF current[e] \in C THEN None ELSE current[e]]
          /\ pending' = [e \in Env |-> IF current[e] \in C \cup B THEN current[e] ELSE pending[e]]
          /\ UNCHANGED attemptFence
      BY Zenon, <1>13 DEF Close, closeExpiredOrRevokedAttempts
    <2>2. /\ C \subseteq Attempt /\ B \subseteq Attempt
          /\ \A a \in C \cup B : operation[a] # "reconciliation_required"
          /\ C \cap B = {}
      BY Zenon DEF ClosedOrdinary, Diverted, NewlyBlocked, Unresolved, unresolvedActivation,
         activationTerminalStates
    <2> HIDE DEF C, B
    <2> SUFFICES ASSUME NEW e \in Env
                 PROVE  Fenced!Passes(e) \/ Fenced!Stays(e, current[e], slotFence[e], pending[e])
      BY Zenon, <2>1 DEF Fenced!Pass
    <2>3. CASE current[e] \in C \cup B
      <3>1. current[e] # None /\ pending[e] = None
        BY Zenon, <2>2, <2>3, AttemptParts, OccupiedFlag
      <3> QED
        BY Zenon, <2>1, <2>2, <2>3, <3>1 DEF Fenced!Passes, Fenced!Stays
    <2>4. CASE current[e] \notin C \cup B
      BY Zenon, <2>1, <2>4 DEF Fenced!Stays
    <2> QED
      BY Zenon, <2>3, <2>4
  <1>14. CASE UNCHANGED vars
    BY Zenon, <1>14 DEF vars, attemptVars, slotVars
  <1> QED
    BY Zenon, <1>1, <1>2, <1>3, <1>5, <1>6, <1>7, <1>8, <1>9, <1>10, <1>11, <1>12, <1>13, <1>14
    DEF Effect, JobEffect, SlotEffect

\* The lease repository keeps the promise of FencedEnvironment: fresh tokens
\* only, never into an occupied or quarantined environment, and no
\* environment taken from a live holder without a quarantine.
THEOREM SlotsRefineFencedEnvironment == Spec => RefinesFencedEnvironment
  <1>1. CPInit => Fenced!FencedInit
    BY Zenon DEF CPInit, Init, Fenced!FencedInit
  <1>2. /\ TypeInvariant /\ LeaseOwnsSlot /\ ActivationInv /\ AttemptsNumbered
        /\ [Next]_allVars
        => [Fenced!FencedNext]_(Fenced!fencedVars)
    BY Zenon, StepEffect, EffectRefines DEF TypeInvariant, Fenced!fencedVars
  <1> QED
    BY <1>1, <1>2, TypeCorrect, OneLiveLease, ActivationInvariant, Numbering, PTL
    DEF Spec, RefinesFencedEnvironment, Fenced!FencedSpec

-----------------------------------------------------------------------------
(* What becomes of a job.                                                  *)

\* The statuses of a deployment whose job an agent holds, short of the switch.
Working == {"assigned"} \cup AgentReportablePhase

\* A job that was never claimed has a queued deployment, a leased one is on
\* the execution path, and an activating one has an open activation.
OnPath(j) ==
    /\ jobState[j] = "absent" <=> deployment[j] = "absent"
    /\ jobState[j] = "queued" => deployment[j] = "queued"
    /\ jobState[j] \in {"absent", "queued"} => attemptCount[j] = 0
    /\ jobState[j] = "leased" => deployment[j] \in Working \cup {"activating"}
    /\ deployment[j] = "activating" => Unresolved(LatestAttempt(j))

JobPath == \A j \in Job : OnPath(j)

\* The part of RowsAgree about one job.
JobRowsAgree(j) ==
    /\ release[j] = "active" <=> activeRelease[EnvironmentOf[j]] = j
    /\ release[j] \in {"active", "retained"} <=> deployment[j] = "healthy"
    /\ jobState[j] \in {"failed", "dead"} <=> deployment[j] = "failed"
    /\ jobState[j] = "cancelled" <=> deployment[j] = "cancelled"
    /\ jobState[j] = "retry_wait" => deployment[j] \in Working
    /\ deployment[j] = "activating" => jobState[j] = "leased"

\* An activation with an outcome belongs to a job that has ended.
OutcomeEnds ==
    \A a \in Attempt :
       operation[a] \in {"succeeded", "failed"} => jobState[JobOf(a)] \in TerminalJob

\* Evidence is only recorded once an activation is blocked, and only a closed
\* attempt is reconciled.
EvidenceShape ==
    /\ \A a \in Attempt : recorded[a] # {} => operation[a] \notin {"absent", "switch_authorized"}
    /\ \A a \in reconciled : attemptState[a] \notin {"absent", "leased"}

OutcomeInv ==
    RowsAgree /\ JobPath /\ OutcomeEnds /\ CancelledNeverActivates /\ EvidenceShape

\* The invariants of the other modules, which the steps below rest on.
CoreInv == TypeOK /\ LeaseOwnsSlot /\ ActivationInv /\ AttemptsNumbered

-----------------------------------------------------------------------------
(* Jobs, deployments, releases and routes.                                 *)

\* RowsAgree is a fact about routes and one about each job.
LEMMA RowsByJob ==
    RowsAgree <=> /\ \A e \in Env : activeRelease[e] # None =>
                        headExists[e] /\ EnvironmentOf[activeRelease[e]] = e
                  /\ \A j \in Job : JobRowsAgree(j)
  BY Zenon DEF RowsAgree, JobRowsAgree, Working

\* The rows of a job a step does not touch agree after it as before.
LEMMA OtherJob ==
    ASSUME NEW k \in Job, JobRowsAgree(k), OnPath(k),
           jobState'[k] = jobState[k], deployment'[k] = deployment[k],
           attemptCount'[k] = attemptCount[k],
           \/ release'[k] = release[k]
           \/ release[k] = "active" /\ release'[k] = "retained",
           release'[k] = "active" <=> activeRelease'[EnvironmentOf[k]] = k,
           operation'[LatestAttempt(k)] = operation[LatestAttempt(k)] \/ deployment[k] # "activating"
              \/ unresolvedActivation(operation'[LatestAttempt(k)])
    PROVE  JobRowsAgree(k)' /\ OnPath(k)'
  <1>1. LatestAttempt(k)' = LatestAttempt(k)
    BY Zenon DEF LatestAttempt
  <1>2. JobRowsAgree(k)'
    BY Zenon DEF JobRowsAgree
  <1>3. deployment'[k] = "activating" => Unresolved(LatestAttempt(k))'
    BY Zenon, <1>1 DEF OnPath, Unresolved
  <1> QED
    BY Zenon, <1>2, <1>3 DEF OnPath

\* A step on the rows of one job, which leaves operations and routes alone.
LEMMA OneJobMoves ==
    ASSUME TypeOK, RowsAgree, JobPath, NEW j \in Job,
           \A k \in Job \ {j} : /\ jobState'[k] = jobState[k] /\ deployment'[k] = deployment[k]
                                /\ release'[k] = release[k] /\ attemptCount'[k] = attemptCount[k],
           UNCHANGED <<operation, activeRelease, headExists>>,
           JobRowsAgree(j)', OnPath(j)'
    PROVE  RowsAgree' /\ JobPath'
  <1>1. ASSUME NEW k \in Job \ {j} PROVE JobRowsAgree(k)' /\ OnPath(k)'
    <2>1. JobRowsAgree(k) /\ OnPath(k)
      BY Zenon, RowsByJob DEF JobPath
    <2>2. release'[k] = "active" <=> activeRelease'[EnvironmentOf[k]] = k
      BY Zenon, <2>1 DEF JobRowsAgree
    <2> QED
      BY Zenon, <2>1, <2>2, OtherJob
  <1>2. \A k \in Job : JobRowsAgree(k)' /\ OnPath(k)'
    BY Zenon, <1>1
  <1>3. \A e \in Env : activeRelease'[e] # None =>
           headExists'[e] /\ EnvironmentOf[activeRelease'[e]] = e
    BY Zenon DEF RowsAgree
  <1> QED
    BY Zenon, <1>2, <1>3 DEF JobPath, RowsAgree, JobRowsAgree, Working

\* The occupant of a slot is the latest attempt of a leased job.
LEMMA OccupantJob ==
    ASSUME CoreInv, JobPath, NEW a \in Attempt, leasedOccupant(a)
    PROVE  /\ JobOf(a) \in Job
           /\ jobState[JobOf(a)] = "leased"
           /\ LatestAttempt(JobOf(a)) = a
           /\ deployment[JobOf(a)] \in Working \cup {"activating"}
           /\ ~Unresolved(a) => deployment[JobOf(a)] \in Working
  <1>1. /\ JobOf(a) \in Job /\ EnvOf(a) \in Env /\ a # None
        /\ a = <<JobOf(a), NumberOf(a)>>
    BY Zenon, AttemptParts
  <1>2. /\ jobState[JobOf(a)] = "leased"
        /\ NumberOf(a) = attemptCount[JobOf(a)]
    BY Zenon, <1>1 DEF CoreInv, LeaseOwnsSlot, leasedOccupant
  <1>3. LatestAttempt(JobOf(a)) = a
    BY Zenon, <1>1, <1>2 DEF LatestAttempt
  <1>4. OnPath(JobOf(a))
    BY Zenon, <1>1 DEF JobPath
  <1> QED
    BY Zenon, <1>1, <1>2, <1>3, <1>4 DEF OnPath

\* What a job's step writes, where it leaves operations and routes alone.
JobMoves(j) ==
    /\ \E s : jobState' = [jobState EXCEPT ![j] = s]
    /\ \E d : deployment' = [deployment EXCEPT ![j] = d]
    /\ \E r : release' = [release EXCEPT ![j] = r]
    /\ \E n : attemptCount' = [attemptCount EXCEPT ![j] = n]
    /\ UNCHANGED <<operation, activeRelease, headExists>>

\* The calls that move one job on keep the rows in agreement.
LEMMA JobEffectRows ==
    ASSUME CoreInv, RowsAgree, JobPath, JobEffect
    PROVE  RowsAgree' /\ JobPath'
  <1> USE DEF CoreInv, TypeOK
  <1>a. ASSUME NEW j \in Job, JobMoves(j), JobRowsAgree(j)', OnPath(j)'
        PROVE  RowsAgree' /\ JobPath'
    <2>1. \A k \in Job \ {j} : /\ jobState'[k] = jobState[k] /\ deployment'[k] = deployment[k]
                               /\ release'[k] = release[k] /\ attemptCount'[k] = attemptCount[k]
      BY Zenon, <1>a DEF JobMoves
    <2> QED
      BY Zenon, <1>a, <2>1, OneJobMoves DEF JobMoves
  <1>b. \A j \in Job : JobRowsAgree(j) /\ OnPath(j)
    BY Zenon, RowsByJob DEF JobPath
  <1>c. \A j \in Job : /\ jobState = [jobState EXCEPT ![j] = jobState[j]]
                      /\ deployment = [deployment EXCEPT ![j] = deployment[j]]
                      /\ release = [release EXCEPT ![j] = release[j]]
                      /\ attemptCount = [attemptCount EXCEPT ![j] = attemptCount[j]]
    BY SMTT(30)
  <1>1. ASSUME NEW j \in Job, Enqueue(j) PROVE RowsAgree' /\ JobPath'
    <2>1. /\ jobState[j] = "absent"
          /\ jobState' = [jobState EXCEPT ![j] = "queued"]
          /\ deployment' = [deployment EXCEPT ![j] = "queued"]
          /\ UNCHANGED <<release, activeRelease, attemptCount, operation, headExists>>
      BY Zenon, <1>1 DEF Enqueue, operationVars, headVars
    <2>2. JobMoves(j)
      BY Zenon, <1>c, <2>1 DEF JobMoves
    <2>3. JobRowsAgree(j)' /\ OnPath(j)'
      BY <1>b, <2>1 DEF JobRowsAgree, OnPath, Working
    <2> QED
      BY Zenon, <2>2, <2>3, <1>a
  <1>2. ASSUME NEW j \in Job, Claim(j) PROVE RowsAgree' /\ JobPath'
    <2>1. /\ jobState[j] \in {"queued", "retry_wait"}
          /\ jobState' = [jobState EXCEPT ![j] = "leased"]
          /\ attemptCount' = [attemptCount EXCEPT ![j] = attemptCount[j] + 1]
          /\ release' = [release EXCEPT ![j] = IF release[j] = "absent" THEN "candidate" ELSE release[j]]
          /\ UNCHANGED <<activeRelease, operation, headExists>>
      BY Zenon, <1>2 DEF Claim, Claimable, Candidate, ensureRelease, operationVars, headVars
    <2>2. \/ attemptCount[j] = 0 /\ deployment' = [deployment EXCEPT ![j] = "assigned"]
          \/ attemptCount[j] # 0 /\ UNCHANGED deployment
      BY Zenon, <1>2 DEF Claim, MoveDeployment
    <2>3. deployment'[j] \in Working
      BY <1>b, <2>1, <2>2 DEF Working, OnPath, JobRowsAgree
    <2>4. JobMoves(j)
      BY Zenon, <1>c, <2>1, <2>2 DEF JobMoves
    <2>5. JobRowsAgree(j)' /\ OnPath(j)'
      BY SMTT(30), <1>b, <2>1, <2>3 DEF JobRowsAgree, OnPath, Working, AgentReportablePhase
    <2> QED
      BY Zenon, <2>4, <2>5, <1>a
  <1>3. ASSUME NEW j \in Job, CancelIdle(j) PROVE RowsAgree' /\ JobPath'
    <2>1. /\ jobState[j] \in {"queued", "retry_wait"}
          /\ jobState' = [jobState EXCEPT ![j] = "cancelled"]
          /\ deployment' = [deployment EXCEPT ![j] = "cancelled"]
          /\ UNCHANGED <<release, activeRelease, attemptCount, operation, headExists>>
      BY Zenon, <1>3 DEF CancelIdle, MoveDeployment, operationVars, headVars
    <2>2. JobMoves(j)
      BY Zenon, <1>c, <2>1 DEF JobMoves
    <2>3. JobRowsAgree(j)' /\ OnPath(j)'
      BY <1>b, <2>1 DEF JobRowsAgree, OnPath, Working, AgentReportablePhase
    <2> QED
      BY Zenon, <2>2, <2>3, <1>a
  <1>4. ASSUME NEW j \in Job, CancelLeased(j) PROVE RowsAgree' /\ JobPath'
    <2>1. UNCHANGED <<jobState, deployment, release, activeRelease, attemptCount, operation, headExists>>
      BY Zenon, <1>4 DEF CancelLeased, operationVars, headVars
    <2> QED
      BY <2>1 DEF RowsAgree, JobPath, OnPath, Unresolved, LatestAttempt
  <1>5. ASSUME NEW a \in Attempt, NEW phase \in AgentReportablePhase, ReportProgress(a, phase)
        PROVE  RowsAgree' /\ JobPath'
    <2>1. /\ leasedOccupant(a)
          /\ deployment' = [deployment EXCEPT ![JobOf(a)] = phase]
          /\ UNCHANGED <<jobState, release, activeRelease, attemptCount, operation, headExists>>
      BY Zenon, <1>5 DEF ReportProgress, MoveDeployment, Authority, operationVars, headVars
    <2>2. JobOf(a) \in Job /\ jobState[JobOf(a)] = "leased"
          /\ deployment[JobOf(a)] \in Working \cup {"activating"}
      BY Zenon, <2>1, OccupantJob
    <2>3. JobMoves(JobOf(a))
      BY Zenon, <1>c, <2>1, <2>2 DEF JobMoves
    <2>4. JobRowsAgree(JobOf(a))' /\ OnPath(JobOf(a))'
      BY <1>b, <2>1, <2>2 DEF JobRowsAgree, OnPath, Working, AgentReportablePhase
    <2> QED
      BY Zenon, <2>2, <2>3, <2>4, <1>a
  <1>6. ASSUME NEW a \in Attempt, NEW outcome \in CompletionOutcome, Complete(a, outcome)
        PROVE  RowsAgree' /\ JobPath'
    <2>1. /\ leasedOccupant(a) /\ ~Unresolved(a)
          /\ jobState' = [jobState EXCEPT ![JobOf(a)] = JobAfterCompletion(a, outcome)]
          /\ IF JobAfterCompletion(a, outcome) \in {"dead", "failed"}
             THEN deployment' = [deployment EXCEPT ![JobOf(a)] = "failed"]
             ELSE UNCHANGED deployment
          /\ UNCHANGED <<release, activeRelease, attemptCount, operation, headExists>>
      BY Zenon, <1>6 DEF Complete, MoveDeployment, Authority, operationVars, headVars
    <2>2. /\ JobOf(a) \in Job /\ jobState[JobOf(a)] = "leased"
          /\ deployment[JobOf(a)] \in Working
      BY Zenon, <2>1, OccupantJob
    <2>3. JobAfterCompletion(a, outcome) \in {"succeeded", "retry_wait", "dead", "failed"}
      BY Zenon DEF JobAfterCompletion
    <2>4. JobMoves(JobOf(a))
      <3>1. \E d : deployment' = [deployment EXCEPT ![JobOf(a)] = d]
        <4>1. CASE JobAfterCompletion(a, outcome) \in {"dead", "failed"}
          <5>1. deployment' = [deployment EXCEPT ![JobOf(a)] = "failed"]
            BY SMTT(30), <2>1, <4>1
          <5> QED
            BY Zenon, <5>1
        <4>2. CASE JobAfterCompletion(a, outcome) \notin {"dead", "failed"}
          <5>1. deployment' = deployment
            BY SMTT(30), <2>1, <4>2
          <5> QED
            BY Zenon, <1>c, <2>2, <5>1
        <4> QED
          BY Zenon, <4>1, <4>2
      <3>2. \E r : release' = [release EXCEPT ![JobOf(a)] = r]
        BY Zenon, <1>c, <2>1, <2>2
      <3>3. \E n : attemptCount' = [attemptCount EXCEPT ![JobOf(a)] = n]
        BY Zenon, <1>c, <2>1, <2>2
      <3> QED
        BY Zenon, <2>1, <3>1, <3>2, <3>3 DEF JobMoves
    <2>5. JobRowsAgree(JobOf(a))' /\ OnPath(JobOf(a))'
      BY <1>b, <2>1, <2>2, <2>3 DEF JobRowsAgree, OnPath, Working, AgentReportablePhase
    <2> QED
      BY Zenon, <2>2, <2>4, <2>5, <1>a
  <1>7. ASSUME NEW a \in Attempt, AcknowledgeCancellation(a) PROVE RowsAgree' /\ JobPath'
    <2>1. /\ leasedOccupant(a)
          /\ jobState' = [jobState EXCEPT ![JobOf(a)] = "cancelled"]
          /\ deployment' = [deployment EXCEPT ![JobOf(a)] = "cancelled"]
          /\ UNCHANGED <<release, activeRelease, attemptCount, operation, headExists>>
      BY Zenon, <1>7 DEF AcknowledgeCancellation, MoveDeployment, Authority, operationVars,
         headVars
    <2>2. /\ JobOf(a) \in Job /\ jobState[JobOf(a)] = "leased"
          /\ deployment[JobOf(a)] \in Working \cup {"activating"}
      BY Zenon, <2>1, OccupantJob
    <2>3. JobMoves(JobOf(a))
      BY Zenon, <1>c, <2>1, <2>2 DEF JobMoves
    <2>4. JobRowsAgree(JobOf(a))' /\ OnPath(JobOf(a))'
      BY <1>b, <2>1, <2>2 DEF JobRowsAgree, OnPath, Working, AgentReportablePhase
    <2> QED
      BY Zenon, <2>2, <2>3, <2>4, <1>a
  <1> QED
    BY Zenon, <1>1, <1>2, <1>3, <1>4, <1>5, <1>6, <1>7 DEF JobEffect

\* The operation of another job's latest attempt is another operation.
LEMMA OtherOperation ==
    ASSUME NEW a \in Attempt, NEW k \in Job, k # JobOf(a), NEW o,
           operation' = [operation EXCEPT ![a] = o]
    PROVE  operation'[LatestAttempt(k)] = operation[LatestAttempt(k)]
  <1>1. LatestAttempt(k) # a
    BY DEF LatestAttempt, JobOf
  <1> QED
    BY <1>1

\* Activations and their declared outcomes keep the rows in agreement.
LEMMA ActivationRows ==
    ASSUME CoreInv, RowsAgree, JobPath, NEW a \in Attempt,
           Activate(a) \/ Block(a) \/ Switch(a) \/ NotActivated(a)
    PROVE  RowsAgree' /\ JobPath'
  <1> USE DEF CoreInv, TypeOK
  <1> DEFINE j == JobOf(a)
             e == EnvOf(a)
  <1>a. \A k \in Job : JobRowsAgree(k) /\ OnPath(k)
    BY Zenon, RowsByJob DEF JobPath
  <1>b. j \in Job /\ e \in Env /\ e = EnvironmentOf[j] /\ a # None
    BY Zenon, AttemptParts
  <1>c. leasedOccupant(a)
    <2>1. CASE Switch(a) \/ NotActivated(a)
      <3>1. Unresolved(a)
        BY Zenon, <2>1 DEF Switch, NotActivated, BlockedShape, Unresolved, unresolvedActivation,
           activationTerminalStates
      <3> QED
        BY Zenon, <3>1 DEF ActivationInv, UnresolvedOwnsEnvironment
    <2> QED
      BY Zenon, <2>1 DEF Activate, MayActivate, Authority, Block
  <1>d. jobState[j] = "leased" /\ LatestAttempt(j) = a /\ deployment[j] \in Working \cup {"activating"}
    BY Zenon, <1>c, OccupantJob
  <1> HIDE DEF j, e
  <1>e. ASSUME \A k \in Job : JobRowsAgree(k)' /\ OnPath(k)',
               \A f \in Env : activeRelease'[f] # None =>
                  headExists'[f] /\ EnvironmentOf[activeRelease'[f]] = f
        PROVE  RowsAgree' /\ JobPath'
    BY Zenon, <1>e DEF RowsAgree, JobPath, JobRowsAgree, Working
  <1>f. ASSUME UNCHANGED <<activeRelease, headExists>>
        PROVE  \A f \in Env : activeRelease'[f] # None =>
                  headExists'[f] /\ EnvironmentOf[activeRelease'[f]] = f
    BY Zenon, <1>f DEF RowsAgree
  <1>g. ASSUME NEW k \in Job \ {j},
               UNCHANGED <<activeRelease, attemptCount>>,
               jobState'[k] = jobState[k], deployment'[k] = deployment[k], release'[k] = release[k],
               \E o : operation' = [operation EXCEPT ![a] = o]
        PROVE  JobRowsAgree(k)' /\ OnPath(k)'
    <2>1. operation'[LatestAttempt(k)] = operation[LatestAttempt(k)]
      BY Zenon, <1>g, OtherOperation DEF j
    <2>2. release'[k] = "active" <=> activeRelease'[EnvironmentOf[k]] = k
      BY <1>a, <1>g DEF JobRowsAgree
    <2> QED
      BY Zenon, <1>a, <1>g, <2>1, <2>2, OtherJob
  <1>1. CASE Activate(a)
    <2>1. /\ deployment' = [deployment EXCEPT ![j] = "activating"]
          /\ release[j] \in {"candidate", "ready"}
          /\ release' = [release EXCEPT ![j] = "ready"]
          /\ operation' = [operation EXCEPT ![a] = "switch_authorized"]
          /\ UNCHANGED <<jobState, attemptCount, activeRelease, headExists>>
      BY Zenon, <1>1 DEF Activate, MayActivate, MoveDeployment, headVars, j
    <2>2. \A k \in Job \ {j} : JobRowsAgree(k)' /\ OnPath(k)'
      BY Zenon, <2>1, <1>g
    <2>3. JobRowsAgree(j)'
      BY <1>a, <1>b, <1>d, <2>1 DEF JobRowsAgree
    <2>4. LatestAttempt(j)' = a /\ operation'[a] = "switch_authorized"
      BY Zenon, <1>d, <2>1 DEF LatestAttempt
    <2>5. Unresolved(LatestAttempt(j))'
      BY Zenon, <2>4 DEF Unresolved, unresolvedActivation, activationTerminalStates
    <2>6. OnPath(j)'
      BY Zenon, <1>b, <1>d, <2>1, <2>5 DEF OnPath
    <2> QED
      BY Zenon, <2>1, <2>2, <2>3, <2>6, <1>e, <1>f
  <1>2. CASE Block(a)
    <2>1. /\ operation[a] = "switch_authorized"
          /\ operation' = [operation EXCEPT ![a] = "reconciliation_required"]
          /\ UNCHANGED <<deployment, release, jobState, attemptCount, activeRelease, headExists>>
      BY Zenon, <1>2 DEF Block, blockActivationForReconciliation, Blockable, jobVars
    <2>2. \A k \in Job \ {j} : JobRowsAgree(k)' /\ OnPath(k)'
      BY Zenon, <2>1, <1>g
    <2>3. unresolvedActivation(operation'[a])
      BY Zenon, <2>1 DEF unresolvedActivation, activationTerminalStates
    <2>4. release'[j] = "active" <=> activeRelease'[EnvironmentOf[j]] = j
      BY Zenon, <1>a, <1>b, <2>1 DEF JobRowsAgree
    <2>5. JobRowsAgree(j)' /\ OnPath(j)'
      BY Zenon, <1>a, <1>b, <1>d, <2>1, <2>3, <2>4, OtherJob
    <2> QED
      BY Zenon, <2>1, <2>2, <2>5, <1>e, <1>f
  <1>3. CASE NotActivated(a)
    <2>1. /\ deployment' = [deployment EXCEPT ![j] = "failed"]
          /\ jobState' = [jobState EXCEPT ![j] = "failed"]
          /\ operation' = [operation EXCEPT ![a] = "failed"]
          /\ UNCHANGED <<release, attemptCount, activeRelease, headExists>>
      BY Zenon, <1>3 DEF NotActivated, resolveNotActivated, MoveDeployment, j
    <2>2. \A k \in Job \ {j} : JobRowsAgree(k)' /\ OnPath(k)'
      BY Zenon, <2>1, <1>g
    <2>3. JobRowsAgree(j)' /\ OnPath(j)'
      BY <1>a, <1>b, <1>d, <2>1 DEF JobRowsAgree, OnPath, Working, AgentReportablePhase
    <2> QED
      BY Zenon, <2>1, <2>2, <2>3, <1>e, <1>f
  <1>4. CASE Switch(a)
    <2> DEFINE p == expectedActive[a]
    <2>1. /\ deployment' = [deployment EXCEPT ![j] = "healthy"]
          /\ jobState' = [jobState EXCEPT ![j] = "succeeded"]
          /\ operation' = [operation EXCEPT ![a] = "succeeded"]
          /\ activeRelease' = [activeRelease EXCEPT ![e] = j]
          /\ release' = [k \in Job |-> IF k = j THEN "active"
                                       ELSE IF k = p THEN "retained" ELSE release[k]]
          /\ UNCHANGED <<attemptCount, headExists>>
      BY Zenon, <1>4 DEF Switch, finalizeActivationSucceeded, ReleasesAfterSwitch,
         MoveDeployment, j, e
    <2>2. /\ activeRelease[e] = p /\ headExists[e] /\ release[j] = "ready"
          /\ p # None => release[p] = "active"
      BY Zenon, <1>4 DEF Switch, finalizeActivationSucceeded, MayFinalize, RouteUnmoved, j, e
    <2> HIDE DEF p
    <2>3. \A f \in Env : activeRelease'[f] # None =>
             headExists'[f] /\ EnvironmentOf[activeRelease'[f]] = f
      BY <1>b, <2>1, <2>2 DEF RowsAgree
    <2>4. ASSUME NEW k \in Job \ {j} PROVE JobRowsAgree(k)' /\ OnPath(k)'
      <3>1. operation'[LatestAttempt(k)] = operation[LatestAttempt(k)]
        BY Zenon, <2>1, OtherOperation DEF j
      <3>2. /\ jobState'[k] = jobState[k] /\ deployment'[k] = deployment[k]
            /\ attemptCount'[k] = attemptCount[k]
        BY Zenon, <2>1
      <3>3. k # None /\ EnvironmentOf[k] \in Env
        BY Zenon, ConstantsAssumption
      <3>4. CASE k = p
        <4>1. EnvironmentOf[k] = e /\ release[k] = "active" /\ release'[k] = "retained"
          BY <1>b, <2>1, <2>2, <3>3, <3>4 DEF RowsAgree
        <4>2. activeRelease'[EnvironmentOf[k]] # k
          BY Zenon, <1>b, <2>1, <4>1
        <4> QED
          BY Zenon, <1>a, <3>1, <3>2, <4>1, <4>2, OtherJob
      <3>5. CASE k # p
        <4>1. release'[k] = release[k]
          BY Zenon, <2>1, <3>5
        <4>2. release[k] = "active" <=> activeRelease[EnvironmentOf[k]] = k
          BY Zenon, <1>a DEF JobRowsAgree
        <4>3. release'[k] = "active" <=> activeRelease'[EnvironmentOf[k]] = k
          BY Zenon, <1>b, <2>1, <2>2, <3>3, <3>5, <4>1, <4>2
        <4> QED
          BY Zenon, <1>a, <3>1, <3>2, <4>1, <4>3, OtherJob
      <3> QED
        BY Zenon, <3>4, <3>5
    <2>5. JobRowsAgree(j)' /\ OnPath(j)'
      BY Zenon, <1>b, <1>d, <2>1 DEF JobRowsAgree, OnPath, Working, AgentReportablePhase
    <2> QED
      BY Zenon, <2>3, <2>4, <2>5, <1>e
  <1> QED
    BY Zenon, <1>1, <1>2, <1>3, <1>4

\* So does recovery: a lease it closes has no open activation, and its job
\* either ends together with its deployment or is to run again.
LEMMA CloseRows ==
    ASSUME CoreInv, RowsAgree, JobPath, NEW S \in SUBSET Attempt, Close(S)
    PROVE  RowsAgree' /\ JobPath'
  <1> USE DEF CoreInv, TypeOK
  <1> DEFINE C == ClosedOrdinary(S)
             B == NewlyBlocked(S)
  <1>1. /\ jobState' = [j \in Job |->
               IF LatestAttempt(j) \in C THEN JobAfterClose(LatestAttempt(j)) ELSE jobState[j]]
        /\ deployment' = [j \in Job |->
               IF LatestAttempt(j) \in C THEN DeploymentAfterClose(LatestAttempt(j))
               ELSE deployment[j]]
        /\ operation' = [a \in Attempt |->
               IF a \in B THEN "reconciliation_required" ELSE operation[a]]
        /\ UNCHANGED <<attemptCount, release, headExists, activeRelease>>
    BY Zenon DEF Close, closeExpiredOrRevokedAttempts
  <1>2. /\ C \subseteq Attempt /\ B \subseteq Attempt
        /\ \A a \in C : attemptState[a] = "leased" /\ current[EnvOf(a)] = a /\ ~Unresolved(a)
        /\ \A a \in B : operation[a] = "switch_authorized"
    BY Zenon DEF Close, ClosedOrdinary, Diverted, NewlyBlocked
  <1> HIDE DEF C, B
  <1>3. \A k \in Job : JobRowsAgree(k) /\ OnPath(k)
    BY Zenon, RowsByJob DEF JobPath
  <1>4. ASSUME NEW k \in Job PROVE JobRowsAgree(k)' /\ OnPath(k)'
    <2>1. release'[k] = "active" <=> activeRelease'[EnvironmentOf[k]] = k
      BY Zenon, <1>1, <1>3 DEF JobRowsAgree
    <2>2. CASE LatestAttempt(k) \notin C
      <3>1. jobState'[k] = jobState[k] /\ deployment'[k] = deployment[k]
        BY Zenon, <1>1, <2>2
      <3>2. ASSUME deployment[k] = "activating"
            PROVE  unresolvedActivation(operation'[LatestAttempt(k)])
        <4>1. Unresolved(LatestAttempt(k)) /\ jobState[k] = "leased"
          BY Zenon, <1>3, <3>2 DEF OnPath, JobRowsAgree
        <4>2. LatestAttempt(k) \in Attempt
          BY Zenon, <4>1 DEF LeaseOwnsSlot
        <4> QED
          BY Zenon, <1>1, <4>1, <4>2 DEF Unresolved, unresolvedActivation,
             activationTerminalStates
      <3> QED
        BY Zenon, <1>1, <1>3, <2>1, <3>1, <3>2, OtherJob
    <2>3. CASE LatestAttempt(k) \in C
      <3> DEFINE a == LatestAttempt(k)
      <3>1. a \in Attempt /\ JobOf(a) = k
        BY Zenon, <1>2, <2>3 DEF LatestAttempt, JobOf
      <3>2. leasedOccupant(a)
        BY SMTT(30), <1>2, <2>3, <3>1, AttemptParts DEF leasedOccupant, LeaseOwnsSlot
      <3>3. jobState[k] = "leased" /\ deployment[k] \in Working
        BY <1>2, <2>3, <3>1, <3>2, OccupantJob
      <3>4. \/ jobState'[k] = "cancelled" /\ deployment'[k] = "cancelled"
            \/ jobState'[k] = "dead" /\ deployment'[k] = "failed"
            \/ jobState'[k] = "retry_wait" /\ deployment'[k] = deployment[k]
        BY Zenon, <1>1, <2>3, <3>1 DEF JobAfterClose, DeploymentAfterClose
      <3> QED
        BY Zenon, <1>1, <1>3, <2>1, <3>3, <3>4 DEF JobRowsAgree, OnPath, Working,
           AgentReportablePhase
    <2> QED
      BY Zenon, <2>2, <2>3
  <1> QED
    BY <1>1, <1>4 DEF RowsAgree, JobPath, JobRowsAgree, Working

\* Every effect keeps the rows in agreement.
LEMMA RowsStep ==
    ASSUME CoreInv, RowsAgree, JobPath, Effect
    PROVE  RowsAgree' /\ JobPath'
  <1>1. CASE UNCHANGED <<jobVars, release, operation, activeRelease, headExists>>
    BY <1>1 DEF jobVars, RowsAgree, JobPath, OnPath, Unresolved, LatestAttempt
  <1>2. ASSUME NEW e \in Env, AssignRouteHostname(e) PROVE RowsAgree' /\ JobPath'
    <2>1. /\ UNCHANGED <<jobVars, release, operation, activeRelease>>
          /\ \A f \in Env : headExists[f] => headExists'[f]
      BY Zenon, <1>2 DEF AssignRouteHostname, operationVars, CoreInv, TypeOK
    <2> QED
      BY <2>1 DEF jobVars, RowsAgree, JobPath, OnPath, Unresolved, LatestAttempt
  <1>3. ASSUME \/ \E e \in Env : AuthorityLapses(e) \/ PlainClear(e)
               \/ \E a \in Attempt : \/ traceDeclaredContradiction(a)
                                     \/ \E report \in Report : LateEvidence(a, report)
               \/ UNCHANGED vars
        PROVE  UNCHANGED <<jobVars, release, operation, activeRelease, headExists>>
    BY <1>3, Zenon DEF AuthorityLapses, PlainClear, clearPlainReconciliation,
       traceDeclaredContradiction, LateEvidence, writeLateEvidence, vars, operationVars,
       headVars
  <1> QED
    BY Zenon, <1>1, <1>2, <1>3, JobEffectRows, ActivationRows, CloseRows DEF Effect, SlotEffect

-----------------------------------------------------------------------------
(* What is closed stays closed.                                            *)

\* The part of ClosedStaysClosed about one step.
Final ==
    /\ \A a \in Attempt :
          attemptState[a] \notin {"absent", "leased"} => attemptState'[a] = attemptState[a]
    /\ \A j \in Job :
          /\ jobState[j] \in TerminalJob => jobState'[j] = jobState[j]
          /\ cancelRequested[j] => cancelRequested'[j]

\* A step on one attempt that was absent or leased, and on its job, which had
\* not ended.
LEMMA OneAttemptCloses ==
    ASSUME TypeOK, NEW a \in Attempt, NEW j \in Job,
           attemptState[a] \in {"absent", "leased"}, jobState[j] \notin TerminalJob,
           \E s : attemptState' = [attemptState EXCEPT ![a] = s],
           \E t : jobState' = [jobState EXCEPT ![j] = t],
           UNCHANGED cancelRequested
    PROVE  Final
  BY Zenon DEF Final, TypeOK

\* No effect changes a closed attempt, an ended job or a recorded cancellation.
LEMMA FinalStep == CoreInv /\ JobPath /\ Effect => Final
  <1> SUFFICES ASSUME CoreInv, JobPath, Effect PROVE Final
    BY Zenon
  <1> USE DEF CoreInv
  <1>1. CASE UNCHANGED <<attemptState, jobState, cancelRequested>>
    BY Zenon, <1>1 DEF Final
  <1>2. ASSUME NEW j \in Job, Enqueue(j) \/ CancelIdle(j) \/ CancelLeased(j) PROVE Final
    <2>1. /\ UNCHANGED attemptState
          /\ \/ UNCHANGED jobState
             \/ /\ jobState[j] \notin TerminalJob
                /\ \E t : jobState' = [jobState EXCEPT ![j] = t]
          /\ \/ UNCHANGED cancelRequested
             \/ cancelRequested' = [cancelRequested EXCEPT ![j] = TRUE]
      BY Zenon, <1>2 DEF Enqueue, CancelIdle, CancelLeased, attemptVars, TerminalJob
    <2> QED
      BY Zenon, <2>1 DEF Final, TypeOK
  <1>3. ASSUME NEW j \in Job, Claim(j) PROVE Final
    <2> DEFINE a == <<j, attemptCount[j] + 1>>
    <2>1. a \in Attempt /\ NumberOf(a) = attemptCount[j] + 1 /\ JobOf(a) = j
      BY Zenon, <1>3, ClaimInRange
    <2>2. attemptState[a] = "absent"
      BY <2>1 DEF AttemptsNumbered, TypeOK
    <2>3. /\ jobState[j] \notin TerminalJob
          /\ \E s : attemptState' = [attemptState EXCEPT ![a] = s]
          /\ \E t : jobState' = [jobState EXCEPT ![j] = t]
          /\ UNCHANGED cancelRequested
      BY Zenon, <1>3 DEF Claim, Claimable, Candidate, TerminalJob
    <2> QED
      BY Zenon, <2>1, <2>2, <2>3, OneAttemptCloses
  <1>4. ASSUME NEW a \in Attempt, Switch(a) \/ NotActivated(a) \/ AcknowledgeCancellation(a)
                  \/ \E outcome \in CompletionOutcome : Complete(a, outcome)
        PROVE  Final
    <2>1. JobOf(a) \in Job /\ EnvOf(a) \in Env /\ a # None
      BY Zenon, AttemptParts
    <2>2. current[EnvOf(a)] = a
      BY Zenon, <1>4 DEF Switch, finalizeActivationSucceeded, MayFinalize, NotActivated,
         BlockedShape,
         AcknowledgeCancellation, Complete, Authority, leasedOccupant
    <2>3. attemptState[a] = "leased" /\ jobState[JobOf(a)] = "leased"
      BY Zenon, <2>1, <2>2 DEF LeaseOwnsSlot
    <2>4. /\ \E s : attemptState' = [attemptState EXCEPT ![a] = s]
          /\ \E t : jobState' = [jobState EXCEPT ![JobOf(a)] = t]
          /\ UNCHANGED cancelRequested
      BY <1>4, Zenon DEF Switch, finalizeActivationSucceeded, NotActivated, resolveNotActivated,
         AcknowledgeCancellation, Complete
    <2> QED
      BY Zenon, <2>1, <2>3, <2>4, OneAttemptCloses DEF TerminalJob
  <1>5. ASSUME NEW S \in SUBSET Attempt, Close(S) PROVE Final
    <2> DEFINE C == ClosedOrdinary(S)
    <2>1. /\ attemptState' = [a \in Attempt |-> IF a \in C
                THEN IF cancelRequested[JobOf(a)] THEN "cancelled" ELSE "expired"
                ELSE attemptState[a]]
          /\ jobState' = [j \in Job |-> IF LatestAttempt(j) \in C
                THEN JobAfterClose(LatestAttempt(j)) ELSE jobState[j]]
          /\ UNCHANGED cancelRequested
      BY Zenon, <1>5 DEF Close, closeExpiredOrRevokedAttempts
    <2>2. \A a \in C : a \in Attempt /\ attemptState[a] = "leased" /\ current[EnvOf(a)] = a
      BY Zenon, <1>5 DEF Close, ClosedOrdinary
    <2> HIDE DEF C
    <2>3. ASSUME NEW j \in Job, LatestAttempt(j) \in C PROVE jobState[j] = "leased"
      <3>1. JobOf(LatestAttempt(j)) = j
        BY Zenon DEF JobOf, LatestAttempt
      <3> QED
        BY <2>2, <2>3, <3>1, AttemptParts DEF LeaseOwnsSlot
    <2> QED
      BY Zenon, <2>1, <2>2, <2>3 DEF Final, TerminalJob
  <1>6. ASSUME \/ \E e \in Env : AuthorityLapses(e) \/ PlainClear(e) \/ AssignRouteHostname(e)
               \/ \E a \in Attempt :
                     \/ \E phase \in AgentReportablePhase : ReportProgress(a, phase)
                     \/ Activate(a) \/ Block(a) \/ traceDeclaredContradiction(a)
                     \/ \E report \in Report : LateEvidence(a, report)
               \/ UNCHANGED vars
        PROVE  UNCHANGED <<attemptState, jobState, cancelRequested>>
    BY <1>6, ZenonT(60) DEF AuthorityLapses, PlainClear, clearPlainReconciliation,
       AssignRouteHostname, ReportProgress, Activate, Block, blockActivationForReconciliation,
       traceDeclaredContradiction, LateEvidence, writeLateEvidence, vars, jobVars, attemptVars
  <1> QED
    BY Zenon, <1>1, <1>2, <1>3, <1>4, <1>5, <1>6 DEF Effect, JobEffect, SlotEffect

-----------------------------------------------------------------------------
(* Operations, evidence and cancellations.                                 *)

\* What one step may do to an attempt's operation: authorize it, block it, or
\* give it an outcome, declared if it was blocked, that ends its job.
OperationMoves(a) ==
    \/ operation'[a] = operation[a]
    \/ operation[a] = "absent" /\ operation'[a] = "switch_authorized" /\ ~cancelRequested'[JobOf(a)]
    \/ operation[a] = "switch_authorized" /\ operation'[a] = "reconciliation_required"
    \/ /\ Unresolved(a)
       /\ operation'[a] \in {"succeeded", "failed"}
       /\ jobState'[JobOf(a)] \in TerminalJob
       /\ operation[a] = "reconciliation_required" => a \in reconciled'

\* Every effect moves every operation in one of these ways.
LEMMA OperationStep ==
    ASSUME CoreInv, Effect, NEW b \in Attempt
    PROVE  OperationMoves(b)
  <1> USE DEF CoreInv, TypeOK
  <1>1. CASE UNCHANGED operation
    BY Zenon, <1>1 DEF OperationMoves
  <1>2. ASSUME NEW a \in Attempt, Activate(a) PROVE OperationMoves(b)
    BY Zenon, <1>2 DEF Activate, MayActivate, OperationMoves
  <1>3. ASSUME NEW a \in Attempt, Block(a) PROVE OperationMoves(b)
    BY <1>3 DEF Block, blockActivationForReconciliation, Blockable, OperationMoves
  <1>4. ASSUME NEW a \in Attempt, Switch(a) \/ NotActivated(a) PROVE OperationMoves(b)
    <2>1. /\ \E o \in {"succeeded", "failed"} : operation' = [operation EXCEPT ![a] = o]
          /\ \E t \in TerminalJob : jobState' = [jobState EXCEPT ![JobOf(a)] = t]
          /\ JobOf(a) \in Job
      BY Zenon, <1>4, AttemptParts DEF Switch, finalizeActivationSucceeded, NotActivated,
         resolveNotActivated, TerminalJob
    <2>2. Unresolved(a)
      BY Zenon, <1>4 DEF Switch, NotActivated, BlockedShape, Unresolved, unresolvedActivation,
         activationTerminalStates
    <2>3. operation[a] = "reconciliation_required" => a \in reconciled'
      BY Zenon, <1>4 DEF Switch, NotActivated
    <2> QED
      BY <2>1, <2>2, <2>3 DEF OperationMoves
  <1>5. ASSUME NEW S \in SUBSET Attempt, Close(S) PROVE OperationMoves(b)
    BY Zenon, <1>5 DEF Close, closeExpiredOrRevokedAttempts, NewlyBlocked, OperationMoves
  <1>6. ASSUME \/ JobEffect
               \/ \E e \in Env : AuthorityLapses(e) \/ PlainClear(e) \/ AssignRouteHostname(e)
               \/ \E a \in Attempt : \/ traceDeclaredContradiction(a)
                                     \/ \E report \in Report : LateEvidence(a, report)
               \/ UNCHANGED vars
        PROVE  UNCHANGED operation
    BY <1>6, ZenonT(60) DEF JobEffect, Enqueue, Claim, CancelIdle, CancelLeased, ReportProgress,
       Complete, AcknowledgeCancellation, AuthorityLapses, PlainClear, clearPlainReconciliation,
       AssignRouteHostname, traceDeclaredContradiction, LateEvidence, writeLateEvidence, vars,
       operationVars
  <1> QED
    BY Zenon, <1>1, <1>2, <1>3, <1>4, <1>5, <1>6 DEF Effect, SlotEffect

\* Only a cancellation requests one, and not while an activation is open.
LEMMA RequestStep ==
    ASSUME CoreInv, Effect, NEW j \in Job, cancelRequested'[j]
    PROVE  cancelRequested[j] \/ CancelIdle(j) \/ CancelLeased(j)
  <1> USE DEF CoreInv, TypeOK
  <1>1. CASE UNCHANGED cancelRequested
    BY Zenon, <1>1
  <1>2. ASSUME NEW k \in Job, CancelIdle(k) \/ CancelLeased(k)
        PROVE  cancelRequested[j] \/ CancelIdle(j) \/ CancelLeased(j)
    <2>1. cancelRequested' = [cancelRequested EXCEPT ![k] = TRUE]
      BY <1>2, Zenon DEF CancelIdle, CancelLeased
    <2>2. CASE j = k
      BY Zenon, <1>2, <2>2
    <2>3. CASE j # k
      BY Zenon, <2>1, <2>3
    <2> QED
      BY Zenon, <2>2, <2>3
  <1>3. ASSUME \/ \E k \in Job : Enqueue(k) \/ Claim(k)
               \/ \E a \in Attempt :
                     \/ \E phase \in AgentReportablePhase : ReportProgress(a, phase)
                     \/ \E outcome \in CompletionOutcome : Complete(a, outcome)
                     \/ AcknowledgeCancellation(a)
               \/ SlotEffect
               \/ UNCHANGED vars
        PROVE  UNCHANGED cancelRequested
    BY <1>3, ZenonT(60) DEF Enqueue, Claim, ReportProgress, Complete, AcknowledgeCancellation,
       SlotEffect, AuthorityLapses, PlainClear, clearPlainReconciliation, AssignRouteHostname,
       Activate, Block, blockActivationForReconciliation, Switch, finalizeActivationSucceeded,
       NotActivated, resolveNotActivated, LateEvidence, writeLateEvidence,
       traceDeclaredContradiction, Close, closeExpiredOrRevokedAttempts, vars, jobVars
  <1> QED
    BY Zenon, <1>1, <1>2, <1>3 DEF Effect, JobEffect

\* What one step may do to the evidence about an attempt: block its activation
\* with a first record, add to what is recorded, or reconcile it as it closes.
EvidenceMoves(a) ==
    /\ \/ recorded'[a] = recorded[a]
       \/ operation[a] = "switch_authorized" /\ operation'[a] = "reconciliation_required"
       \/ /\ operation[a] = "reconciliation_required" /\ operation'[a] = operation[a]
          /\ recorded[a] \subseteq recorded'[a]
    /\ a \in reconciled' => a \in reconciled \/ attemptState'[a] \notin {"absent", "leased"}

\* Every effect moves the evidence of every attempt in one of these ways.
LEMMA EvidenceStep ==
    ASSUME CoreInv, Effect, NEW b \in Attempt
    PROVE  EvidenceMoves(b)
  <1> USE DEF CoreInv, TypeOK
  <1>1. CASE UNCHANGED <<recorded, reconciled>>
    BY Zenon, <1>1 DEF EvidenceMoves
  <1>2. ASSUME NEW a \in Attempt, Block(a) PROVE EvidenceMoves(b)
    BY <1>2 DEF Block, blockActivationForReconciliation, Blockable, EvidenceMoves
  <1>3. ASSUME NEW a \in Attempt, NEW report \in Report, LateEvidence(a, report)
        PROVE  EvidenceMoves(b)
    BY Zenon, <1>3 DEF LateEvidence, writeLateEvidence, operationVars, EvidenceMoves
  <1>4. ASSUME NEW a \in Attempt, Switch(a) \/ NotActivated(a) PROVE EvidenceMoves(b)
    <2>1. /\ \E s \in {"succeeded", "expired"} : attemptState' = [attemptState EXCEPT ![a] = s]
          /\ UNCHANGED recorded
          /\ reconciled' \subseteq reconciled \cup {a}
      BY Zenon, <1>4 DEF Switch, finalizeActivationSucceeded, NotActivated, resolveNotActivated
    <2> QED
      BY Zenon, <2>1 DEF EvidenceMoves
  <1>5. ASSUME NEW S \in SUBSET Attempt, Close(S) PROVE EvidenceMoves(b)
    BY Zenon, <1>5 DEF Close, closeExpiredOrRevokedAttempts, NewlyBlocked, EvidenceMoves
  <1>6. ASSUME NEW e \in Env, PlainClear(e) PROVE EvidenceMoves(b)
    <2>1. /\ UNCHANGED <<recorded, attemptState>>
          /\ reconciled' \subseteq reconciled \cup {pending[e]}
          /\ pending[e] \in Attempt /\ EnvOf(pending[e]) = e
      BY <1>6 DEF PlainClear, clearPlainReconciliation, attemptVars, ActivationInv, FlagShape
    <2>2. current[e] = None
      BY Zenon, <1>6, <2>1 DEF PlainClear, EnvironmentUnresolved, Unresolved,
         unresolvedActivation,
         activationTerminalStates, ActivationInv, FlagShape
    <2> QED
      BY Zenon, <1>6, <2>1, <2>2 DEF EvidenceMoves, PlainClear, ActivationInv, FlagShape
  <1>7. ASSUME \/ JobEffect
               \/ \E e \in Env : AuthorityLapses(e) \/ AssignRouteHostname(e)
               \/ \E a \in Attempt : Activate(a) \/ traceDeclaredContradiction(a)
               \/ UNCHANGED vars
        PROVE  UNCHANGED <<recorded, reconciled>>
    BY <1>7, ZenonT(60) DEF JobEffect, Enqueue, Claim, CancelIdle, CancelLeased, ReportProgress,
       Complete, AcknowledgeCancellation, AuthorityLapses, AssignRouteHostname, Activate,
       traceDeclaredContradiction, vars, evidenceVars
  <1> QED
    BY Zenon, <1>1, <1>2, <1>3, <1>4, <1>5, <1>6, <1>7 DEF Effect, SlotEffect

-----------------------------------------------------------------------------
(* The invariant, and what follows from it.                                *)

\* The initial rows satisfy the invariant.
LEMMA OutcomeInit == CPInit => OutcomeInv
  <1> SUFFICES ASSUME CPInit PROVE OutcomeInv
    BY Zenon
  <1> USE ConstantsAssumption DEF CPInit, Init
  <1>1. RowsAgree
    BY Zenon, AttemptParts DEF RowsAgree, AgentReportablePhase
  <1>2. JobPath
    BY Zenon DEF JobPath, OnPath
  <1>3. OutcomeEnds /\ CancelledNeverActivates /\ EvidenceShape
    BY Zenon, AttemptParts DEF OutcomeEnds, CancelledNeverActivates, EvidenceShape
  <1> QED
    BY Zenon, <1>1, <1>2, <1>3 DEF OutcomeInv

\* An attempt of a job that is idle, or leased short of activating, and not
\* ended, has no operation.
LEMMA NoOperationYet ==
    ASSUME CoreInv, OutcomeEnds, NEW a \in Attempt,
           \/ jobState[JobOf(a)] \in {"queued", "retry_wait"}
           \/ jobState[JobOf(a)] = "leased" /\ deployment[JobOf(a)] # "activating"
    PROVE  operation[a] = "absent"
  <1>1. ~Unresolved(a)
    BY Zenon, UnresolvedJob DEF CoreInv
  <1>2. operation[a] \notin {"succeeded", "failed"}
    BY Zenon DEF OutcomeEnds, TerminalJob
  <1>3. operation[a] \in OperationState
    BY Zenon DEF CoreInv, TypeOK
  <1> QED
    BY Zenon, <1>1, <1>2, <1>3
    DEF OperationState, Unresolved, unresolvedActivation, activationTerminalStates

\* Every effect keeps the invariant.
LEMMA OutcomeStep ==
    ASSUME CoreInv, OutcomeInv, Effect
    PROVE  OutcomeInv'
  <1> USE DEF OutcomeInv
  <1>1. RowsAgree' /\ JobPath'
    BY Zenon, RowsStep
  <1>2. Final
    BY Zenon, FinalStep
  <1>3. OutcomeEnds'
    <2> SUFFICES ASSUME NEW a \in Attempt, operation'[a] \in {"succeeded", "failed"}
                 PROVE  jobState'[JobOf(a)] \in TerminalJob
      BY Zenon DEF OutcomeEnds
    <2> QED
      BY Zenon, <1>2, OperationStep, AttemptParts DEF OperationMoves, OutcomeEnds, Final
  <1>4. CancelledNeverActivates'
    <2> SUFFICES ASSUME NEW a \in Attempt, cancelRequested'[JobOf(a)]
                 PROVE  operation'[a] = "absent"
      BY Zenon DEF CancelledNeverActivates
    <2>1. JobOf(a) \in Job
      BY Zenon, AttemptParts
    <2>2. operation[a] = "absent"
      <3>1. CASE cancelRequested[JobOf(a)]
        BY Zenon, <3>1 DEF CancelledNeverActivates
      <3>2. CASE CancelIdle(JobOf(a)) \/ CancelLeased(JobOf(a))
        BY Zenon, <3>2, NoOperationYet DEF CancelIdle, CancelLeased, LeaseCancellable
      <3> QED
        BY Zenon, <2>1, <3>1, <3>2, RequestStep
    <2> QED
      BY Zenon, <2>2, OperationStep DEF OperationMoves, Unresolved, unresolvedActivation
  <1>5. EvidenceShape'
    <2>1. ASSUME NEW a \in Attempt, recorded'[a] # {}
          PROVE  operation'[a] \notin {"absent", "switch_authorized"}
      <3>1. EvidenceMoves(a) /\ OperationMoves(a)
        BY Zenon, EvidenceStep, OperationStep
      <3> QED
        BY Zenon, <2>1, <3>1 DEF EvidenceMoves, OperationMoves, EvidenceShape
    <2>2. ASSUME NEW a \in reconciled' PROVE attemptState'[a] \notin {"absent", "leased"}
      <3>1. a \in Attempt
        BY Zenon, JobEffectTypes, SlotEffectTypes DEF CoreInv, Effect, vars, evidenceVars,
           TypeOK
      <3> QED
        BY Zenon, <1>2, <2>2, <3>1, EvidenceStep DEF EvidenceMoves, EvidenceShape, Final
    <2> QED
      BY Zenon, <2>1, <2>2 DEF EvidenceShape
  <1> QED
    BY Zenon, <1>1, <1>3, <1>4, <1>5

\* The invariants the theorems below rest on.
LEMMA Invariants == Spec => [](CoreInv /\ OutcomeInv)
  <1>1. TypeInvariant /\ LeaseOwnsSlot /\ ActivationInv /\ AttemptsNumbered => CoreInv
    BY Zenon DEF TypeInvariant, CoreInv
  <1>2. TypeInvariant /\ CoreInv /\ OutcomeInv /\ [Next]_allVars => OutcomeInv'
    BY Zenon, StepEffect, OutcomeStep
  <1> QED
    BY <1>1, <1>2, OutcomeInit, TypeCorrect, OneLiveLease, ActivationInvariant, Numbering, PTL
    DEF Spec

\* The tables agree: the head points at the one active release, a release
\* runs or has run exactly when its deployment is healthy, and a deployment
\* ends as its job does.
THEOREM TablesAgree == Spec => []RowsAgree
  BY Invariants, PTL DEF OutcomeInv

\* A job whose cancellation was accepted never gets an activation.
THEOREM CancellationWins == Spec => []CancelledNeverActivates
  BY Invariants, PTL DEF OutcomeInv

\* The deployment's status machine never refuses what the sweeper and a
\* server's revocation ask of it.
THEOREM RecoveryIsAccepted == Spec => []RecoveryNeverRefused
  <1>1. CoreInv /\ OutcomeInv => RecoveryNeverRefused
    <2> SUFFICES ASSUME CoreInv, OutcomeInv, NEW a \in Attempt, attemptState[a] = "leased",
                        ~Unresolved(a)
                 PROVE  Transition(deployment[JobOf(a)], DeploymentAfterClose(a))
      BY Zenon DEF RecoveryNeverRefused
    <2>1. leasedOccupant(a)
      BY Zenon, AttemptParts DEF CoreInv, LeaseOwnsSlot, leasedOccupant
    <2>2. deployment[JobOf(a)] \in Working
      BY Zenon, <2>1, OccupantJob DEF OutcomeInv
    <2>3. DeploymentAfterClose(a) \in {"cancelled", "failed", deployment[JobOf(a)]}
      BY Zenon DEF DeploymentAfterClose
    <2> QED
      BY Zenon, <2>2, <2>3 DEF Working, AgentReportablePhase, Transition, canTransition
  <1> QED
    BY <1>1, Invariants, PTL

\* A closed attempt, an ended job and an accepted cancellation are final.
THEOREM ClosedIsFinal == Spec => ClosedStaysClosed
  <1>1. TypeInvariant /\ CoreInv /\ OutcomeInv /\ [Next]_allVars => Final
    BY Zenon, StepEffect, FinalStep DEF OutcomeInv
  <1>2. TypeInvariant /\ CoreInv /\ OutcomeInv /\ [Next]_allVars =>
          [/\ \A a \in Attempt :
                 attemptState[a] \notin {"absent", "leased"} => attemptState'[a] = attemptState[a]
           /\ \A j \in Job :
                 /\ jobState[j] \in TerminalJob => jobState'[j] = jobState[j]
                 /\ cancelRequested[j] => cancelRequested'[j]]_allVars
    BY Zenon, <1>1 DEF Final
  <1> QED
    BY <1>2, Invariants, TypeCorrect, PTL DEF Spec, ClosedStaysClosed

\* A blocked activation ends only by a declaration, and no outcome is changed.
THEOREM DeclaredOnce == Spec => OutcomeIsDeclaredOnce
  <1>1. ASSUME CoreInv, OutcomeInv, Effect, NEW a \in Attempt
        PROVE  /\ operation[a] = "reconciliation_required" /\ operation'[a] # operation[a]
                  => a \in reconciled' \ reconciled
               /\ operation[a] \in {"succeeded", "failed"} => operation'[a] = operation[a]
    <2>1. OperationMoves(a)
      BY Zenon, <1>1, OperationStep
    <2>2. operation[a] = "reconciliation_required" => a \notin reconciled
      <3>1. ASSUME Unresolved(a) PROVE attemptState[a] = "leased"
        BY Zenon, <1>1, <3>1 DEF CoreInv, ActivationInv, UnresolvedOwnsEnvironment,
           leasedOccupant
      <3> QED
        BY Zenon, <1>1, <3>1 DEF OutcomeInv, EvidenceShape, Unresolved, unresolvedActivation,
           activationTerminalStates
    <2> QED
      BY Zenon, <2>1, <2>2 DEF OperationMoves, Unresolved, unresolvedActivation,
         activationTerminalStates
  <1>2. TypeInvariant /\ CoreInv /\ OutcomeInv /\ [Next]_allVars =>
          [\A a \in Attempt :
             /\ operation[a] = "reconciliation_required" /\ operation'[a] # operation[a]
                => a \in reconciled' \ reconciled
             /\ operation[a] \in {"succeeded", "failed"} => operation'[a] = operation[a]]_allVars
    BY Zenon, <1>1, StepEffect
  <1> QED
    BY <1>2, Invariants, TypeCorrect, PTL DEF Spec, OutcomeIsDeclaredOnce

\* What is recorded about an ambiguous activation is never overwritten.
THEOREM EvidenceIsKept == Spec => EvidenceNeverLost
  <1>1. ASSUME CoreInv, OutcomeInv, Effect, NEW a \in Attempt
        PROVE  recorded[a] \subseteq recorded'[a]
    BY Zenon, <1>1, EvidenceStep DEF EvidenceMoves, OutcomeInv, EvidenceShape
  <1>2. TypeInvariant /\ CoreInv /\ OutcomeInv /\ [Next]_allVars =>
          [\A a \in Attempt : recorded[a] \subseteq recorded'[a]]_allVars
    BY Zenon, <1>1, StepEffect
  <1> QED
    BY <1>2, Invariants, TypeCorrect, PTL DEF Spec, EvidenceNeverLost

\* The route's recorded owner moves only to the release of the attempt that
\* holds the slot at the current fence with an open activation.
THEOREM RouteFollowsFence == Spec => RouteMovesUnderFence
  <1> DEFINE FencedMove(e) ==
        /\ current[e] # None
        /\ activeRelease'[e] = JobOf(current[e])
        /\ attemptFence[current[e]] = slotFence[e]
        /\ Unresolved(current[e])
        /\ routeRevision'[e] = expectedRevision[current[e]] + 1
  <1>1. ASSUME CoreInv, Effect, NEW e \in Env, activeRelease'[e] # activeRelease[e]
        PROVE  FencedMove(e)
    <2> USE DEF CoreInv, TypeOK
    <2>1. PICK a \in Attempt : Switch(a)
      <3>1. ASSUME \/ JobEffect
                   \/ \E f \in Env : AuthorityLapses(f) \/ PlainClear(f) \/ AssignRouteHostname(f)
                   \/ \E a \in Attempt :
                         \/ Activate(a) \/ Block(a) \/ NotActivated(a)
                         \/ traceDeclaredContradiction(a)
                         \/ \E report \in Report : LateEvidence(a, report)
                   \/ \E S \in SUBSET Attempt : Close(S)
                   \/ UNCHANGED vars
            PROVE  UNCHANGED activeRelease
        BY <3>1, ZenonT(60) DEF JobEffect, Enqueue, Claim, CancelIdle, CancelLeased,
           ReportProgress, Complete, AcknowledgeCancellation, AuthorityLapses, PlainClear,
           clearPlainReconciliation, AssignRouteHostname, Activate, Block,
           blockActivationForReconciliation, NotActivated, resolveNotActivated,
           traceDeclaredContradiction, LateEvidence, writeLateEvidence, Close,
           closeExpiredOrRevokedAttempts, vars, headVars
      <3> QED
        BY Zenon, <1>1, <3>1 DEF Effect, SlotEffect
    <2>2. EnvOf(a) \in Env /\ a # None
      BY Zenon, AttemptParts
    <2>3. /\ current[EnvOf(a)] = a /\ Unresolved(a)
          /\ routeRevision[EnvOf(a)] = expectedRevision[a]
          /\ activeRelease' = [activeRelease EXCEPT ![EnvOf(a)] = JobOf(a)]
          /\ routeRevision' = [routeRevision EXCEPT ![EnvOf(a)] = @ + 1]
      BY Zenon, <2>1 DEF Switch, finalizeActivationSucceeded, MayFinalize, RouteUnmoved
    <2>4. e = EnvOf(a)
      BY Zenon, <1>1, <2>2, <2>3
    <2>5. attemptFence[a] = slotFence[e]
      BY Zenon, <1>1, <2>2, <2>3, <2>4 DEF LeaseOwnsSlot
    <2> QED
      BY Zenon, <1>1, <2>2, <2>3, <2>4, <2>5
  <1>2. TypeInvariant /\ CoreInv /\ OutcomeInv /\ [Next]_allVars =>
          [\A e \in Env : activeRelease'[e] # activeRelease[e] => FencedMove(e)]_allVars
    BY Zenon, <1>1, StepEffect
  <1> QED
    BY <1>2, Invariants, TypeCorrect, PTL DEF Spec, RouteMovesUnderFence
=============================================================================
