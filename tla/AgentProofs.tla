----------------------------- MODULE AgentProofs ----------------------------
(***************************************************************************)
(* Proofs about AgentLoop, for any environments, attempts and renewals and *)
(* any interleaving of the agent's steps with crashes, lost answers and    *)
(* the control plane.                                                      *)
(*                                                                         *)
(* What the agent must not forget is kept twice, in a file and in the      *)
(* index.  Damage to one leaves the other whole, and a store that lost     *)
(* either refuses to answer: this is why LoadRemembers survives one loss.  *)
(***************************************************************************)
EXTENDS AgentLoop, TLAPS

Record == [highestAcceptedFence : Nat, reconciliationRequired : BOOLEAN]

\* Types of the state that AgentTypeOK leaves open.
AgentRows ==
    /\ AgentTypeOK
    /\ damage \in 0 .. MaxDamage
    /\ holder \in [Env -> Holder \cup {None}]
    /\ fence \in [Env -> Nat]
    /\ token \in [Holder -> Nat]
    /\ renewals \in [Holder -> Nat]
    /\ acted \in [Env -> Nat]
    /\ DOMAIN lapsed = Env

\* The agent's sequence is the control plane's or one behind it, and an
\* attempt that was never granted was never renewed.
InStep ==
    /\ pc = "idle" => sequence = 0
    /\ pc # "idle" => /\ token[lease.attempt] > 0
                      /\ renewals[lease.attempt] \in {sequence, sequence + 1}
    /\ \A h \in Holder : token[h] = 0 => renewals[h] = 0

Readable(e) == file[e] \notin {Missing, Garbage}

\* No file remembers less than was acted on, or is about to be.
FilesCurrent ==
    /\ \A e \in Env : Readable(e) => file[e].highestAcceptedFence >= acted[e]
    /\ pc = "indexing" /\ Readable(lease.env)
          => file[lease.env].highestAcceptedFence >= token[lease.attempt]

\* The files of all environments acted in, and of the one about to be, can
\* be read.
FilesWhole ==
    /\ \A e \in Env : acted[e] > 0 => Readable(e)
    /\ pc = "indexing" => Readable(lease.env)

\* The index lists every environment acted in.
IndexWhole ==
    /\ index # Garbage
    /\ \A e \in Env : acted[e] > 0 => e \in listed

\* One loss leaves the files or the index whole.
StoreInv ==
    /\ FilesCurrent
    /\ FilesWhole \/ IndexWhole
    /\ damage = 0 => FilesWhole /\ IndexWhole

AgentInv == AgentRows /\ InStep /\ StoreInv

-----------------------------------------------------------------------------
\* Load's verdict, by what it reads.
LEMMA LoadVerdict ==
    ASSUME AgentTypeOK, NEW e \in Env
    PROVE  /\ Load(e) \in {"corrupt", "first_encounter", "known"}
           /\ Load(e) = "known" <=> ~failClosed /\ e \in listed /\ Readable(e)
           /\ Load(e) = "first_encounter" <=> ~failClosed /\ e \notin listed /\ file[e] = Missing
  BY Zenon DEF Load, Readable

\* What addToIndex writes is a set of environments.
LEMMA IndexWritten ==
    ASSUME AgentTypeOK, NEW e \in Env, addToIndex(e)
    PROVE  index' \in SUBSET Env
  <1>1. ~failClosed => listed \in SUBSET Env
    <2>1. index \in SUBSET Env \/ index = Missing \/ index = Garbage
      BY Zenon DEF AgentTypeOK
    <2> QED
      BY <2>1, Zenon DEF failClosed, listed
  <1>2. CASE failClosed
    BY Zenon, <1>2 DEF addToIndex
  <1>3. CASE ~failClosed
    BY Zenon, <1>1, <1>3 DEF addToIndex
  <1> QED
    BY Zenon, <1>2, <1>3

\* A lease is accepted for an environment that was never acted in, or whose
\* file remembers a lower fence.
LEMMA AcceptedIsNewer ==
    ASSUME AgentRows, StoreInv, pc = "claimed", Acceptable
    PROVE  acted[lease.env] <= token[lease.attempt]
  <1>1. lease.env \in Env /\ lease.attempt \in Holder
    BY Zenon, LoopAssumption DEF AgentRows, AgentTypeOK
  <1>2. CASE Load(lease.env) = "first_encounter"
    BY <1>1, <1>2, LoadVerdict DEF AgentRows, StoreInv, FilesWhole, IndexWhole, Readable
  <1>3. CASE /\ Load(lease.env) = "known"
             /\ token[lease.attempt] > file[lease.env].highestAcceptedFence
    <2>1. Readable(lease.env) /\ file[lease.env] \in Record
      BY Zenon, <1>1, <1>3, LoadVerdict DEF AgentRows, AgentTypeOK, Readable, Record
    <2> QED
      BY <1>1, <1>3, <2>1 DEF AgentRows, StoreInv, FilesCurrent, Record
  <1> QED
    BY Zenon, <1>2, <1>3 DEF Acceptable

-----------------------------------------------------------------------------
(* Types.                                                                  *)

\* An idle agent's part of the types.
LEMMA IdleRows ==
    ASSUME Idle
    PROVE  /\ pc' = "idle" /\ lease' = None /\ sequence' = 0
           /\ cancelled' \in BOOLEAN /\ ~working'
  BY Zenon DEF Idle

\* Every step keeps the types.
LEMMA AgentRowsStep == AgentRows /\ [AgentNext]_agentVars => AgentRows'
  <1> SUFFICES ASSUME AgentRows, [AgentNext]_agentVars PROVE AgentRows'
    BY Zenon
  <1> USE LoopAssumption, StoreAssumption DEF AgentRows, AgentTypeOK
  <1>1. pc # "idle" => lease.env \in Env /\ lease.attempt \in Holder
    BY Zenon
  <1>2. ASSUME NEW e \in Env, NEW h \in Holder, claimAndRun(e, h) PROVE AgentRows'
    <2>1. /\ holder' \in [Env -> Holder \cup {None}]
          /\ fence' \in [Env -> Nat]
          /\ token' \in [Holder -> Nat]
      BY <1>2 DEF claimAndRun, CP!Grant
    <2>2. /\ pc' \in {"idle", "claimed"}
          /\ lease' \in [env : Env, attempt : Holder] \cup {None}
          /\ pc' = "idle" <=> lease' = None
          /\ ~working'
      BY <1>2 DEF claimAndRun
    <2>3. UNCHANGED <<storeVars, renewals, sequence, cancelled, acted>> /\ DOMAIN lapsed' = Env
      BY Zenon, <1>2 DEF claimAndRun
    <2> QED
      BY Zenon, <2>1, <2>2, <2>3 DEF storeVars
  <1>3. CASE UNCHANGED <<storeVars, fenced, lapsed, renewals, acted>> /\ Idle
    BY <1>3, IdleRows DEF storeVars, fenced
  <1>4. CASE AcceptLease
    <2>1. FenceRecord(token[lease.attempt], FALSE) \in Record
      BY Zenon, <1>1, <1>4 DEF AcceptLease, FenceRecord, Record
    <2> QED
      BY Zenon, <1>1, <1>4, <2>1 DEF AcceptLease, writeFence, fenced, attempts, Record
  <1>5. CASE StartExecutor
    <2>1. index' \in SUBSET Env
      BY Zenon, <1>1, <1>5, IndexWritten DEF StartExecutor
    <2>2. acted' \in [Env -> Nat]
      BY Zenon, <1>1, <1>5 DEF StartExecutor
    <2> QED
      BY Zenon, <1>1, <1>5, <2>1, <2>2 DEF StartExecutor, fenced, attempts
  <1>6. CASE RenewLease
    <2>1. sequence' \in {sequence, sequence + 1} /\ sequence + 1 <= MaxRenewals
      BY Zenon, <1>6 DEF RenewLease, AfterLostRenewal
    <2>2. cancelled' \in BOOLEAN
      BY <1>6, Zenon DEF RenewLease
    <2>3. working' => working
      BY <1>6, Zenon DEF RenewLease
    <2>4. renewals' \in [Holder -> Nat]
      BY <1>1, <1>6 DEF RenewLease
    <2>5. UNCHANGED <<storeVars, fenced, lapsed, pc, lease, acted>>
      BY Zenon, <1>6 DEF RenewLease
    <2> QED
      BY <2>1, <2>2, <2>3, <2>4, <2>5 DEF storeVars, fenced
  <1>7. CASE LoseLease
    BY Zenon, <1>7 DEF LoseLease, storeVars, fenced, attempts
  <1>8. CASE markReconciliationRequired
    <2>1. /\ file' \in [Env -> Record \cup {Missing, Garbage}]
          /\ index' \in (SUBSET Env) \cup {Missing, Garbage}
      <3>1. CASE Load(lease.env) = "corrupt"
        BY Zenon, <1>8, <3>1 DEF markReconciliationRequired, Record
      <3>2. CASE Load(lease.env) # "corrupt"
        <4>1. flaggedRecord(lease.env) \in Record
          BY Zenon, <1>1, <1>8, LoadVerdict
          DEF markReconciliationRequired, flaggedRecord, FenceRecord, Record, Readable
        <4>2. index' \in SUBSET Env
          BY Zenon, <1>1, <1>8, <3>2, IndexWritten DEF markReconciliationRequired
        <4> QED
          BY <1>1, <1>8, <3>2, <4>1, <4>2 DEF markReconciliationRequired, writeFence, Record
      <3> QED
        BY Zenon, <3>1, <3>2
    <2> QED
      BY Zenon, <1>1, <1>8, <2>1 DEF markReconciliationRequired, fenced, attempts, Record
  <1>9. CASE reportOutcome
    <2>1. holder' \in [Env -> Holder \cup {None}]
      BY Zenon, <1>1, <1>9 DEF reportOutcome
    <2>2. UNCHANGED <<storeVars, fence, token, lapsed, renewals, acted>> /\ Idle
      BY Zenon, <1>9 DEF reportOutcome, attempts
    <2> QED
      BY <2>1, <2>2, IdleRows DEF storeVars
  <1>10. CASE Damage
    <2>1. /\ file' \in [Env -> Record \cup {Missing, Garbage}]
          /\ index' \in (SUBSET Env) \cup {Missing, Garbage}
          /\ damage' \in 0 .. MaxDamage
      <3>1. ASSUME NEW e \in Env, DamageFile(e)
            PROVE  file' \in [Env -> Record \cup {Missing, Garbage}] /\ index' = index
        BY Zenon, <3>1 DEF DamageFile, Record
      <3>2. CASE DamageIndex
        BY <3>2 DEF DamageIndex, Record
      <3>3. damage' = damage + 1 /\ damage < MaxDamage
        BY Zenon, <1>10 DEF Damage, DamageFile, DamageIndex
      <3> QED
        BY <1>10, <3>1, <3>2, <3>3 DEF Damage
    <2> QED
      BY Zenon, <1>10, <2>1 DEF Damage, fenced, attempts, loop, Record
  <1>11. ASSUME \/ \E e \in Env : AuthorityPasses(e) \/ Expire(e) \/ Reconciled(e) \/ RequestCancel(e)
                \/ Revoke
         PROVE  AgentRows'
    <2>1. /\ holder' \in [Env -> Holder \cup {None}]
          /\ fence' \in [Env -> Nat]
      BY <1>11 DEF AuthorityPasses, Expire, Reconciled, RequestCancel, Revoke, fenced
    <2>2. UNCHANGED <<storeVars, token, renewals, loop, acted>> /\ DOMAIN lapsed' = Env
      BY Zenon, <1>11 DEF AuthorityPasses, Expire, Reconciled, RequestCancel, Revoke, fenced,
         attempts
    <2> QED
      BY Zenon, <2>1, <2>2 DEF storeVars, loop
  <1>12. CASE UNCHANGED agentVars
    BY Zenon, <1>12 DEF agentVars, storeVars, fenced, attempts, loop
  <1>13. ASSUME RefuseLease \/ DrainExecutor \/ StopAgent
         PROVE  UNCHANGED <<storeVars, fenced, lapsed, renewals, acted>> /\ Idle
    BY Zenon, <1>13 DEF RefuseLease, DrainExecutor, StopAgent, attempts
  <1> QED
    BY Zenon, <1>2, <1>3, <1>4, <1>5, <1>6, <1>7, <1>8, <1>9, <1>10, <1>11, <1>12, <1>13
    DEF AgentNext, AgentStep, SurroundingStep

-----------------------------------------------------------------------------
(* The sequences of the two sides.                                         *)

\* Every step keeps the sequences in step.
LEMMA InStepStep == AgentRows /\ InStep /\ [AgentNext]_agentVars => InStep'
  <1> SUFFICES ASSUME AgentRows, InStep, [AgentNext]_agentVars PROVE InStep'
    BY Zenon
  <1> USE LoopAssumption DEF AgentRows, AgentTypeOK, InStep
  <1>1. pc # "idle" => lease.env \in Env /\ lease.attempt \in Holder
    BY Zenon
  <1>2. ASSUME NEW e \in Env, NEW h \in Holder, claimAndRun(e, h) PROVE InStep'
    BY <1>2 DEF claimAndRun, CP!Grant
  <1>3. CASE RenewLease
    <2>1. /\ \/ /\ renewals' = [renewals EXCEPT ![lease.attempt] = sequence + 1]
                /\ sequence' \in {sequence, sequence + 1}
             \/ renewals' = renewals /\ sequence' = sequence
          /\ pc = "running"
          /\ UNCHANGED <<token, pc, lease>>
      BY Zenon, <1>3 DEF RenewLease, AfterLostRenewal, fenced
    <2> QED
      BY <1>1, <2>1
  <1>4. CASE UNCHANGED <<token, renewals>> /\ Idle
    BY Zenon, <1>4 DEF Idle
  <1>5. CASE UNCHANGED <<token, renewals, lease, sequence>> /\ (pc' = "idle" <=> pc = "idle")
    BY Zenon, <1>5
  <1>6. ASSUME RefuseLease \/ DrainExecutor \/ StopAgent \/ reportOutcome
        PROVE  UNCHANGED <<token, renewals>> /\ Idle
    BY Zenon, <1>6 DEF RefuseLease, DrainExecutor, StopAgent, reportOutcome, fenced, attempts
  <1>7. ASSUME \/ AcceptLease \/ StartExecutor \/ LoseLease \/ markReconciliationRequired
               \/ SurroundingStep \/ UNCHANGED agentVars
        PROVE  UNCHANGED <<token, renewals, lease, sequence>> /\ (pc' = "idle" <=> pc = "idle")
    BY Zenon, <1>7 DEF AcceptLease, StartExecutor, LoseLease, markReconciliationRequired,
       SurroundingStep, AuthorityPasses, Expire, Reconciled, RequestCancel, Revoke, Damage,
       agentVars, fenced, attempts, loop
  <1> QED
    BY Zenon, <1>2, <1>3, <1>4, <1>5, <1>6, <1>7 DEF AgentNext, AgentStep

-----------------------------------------------------------------------------
(* The fence store.                                                        *)

\* Damage to one of the two leaves the other as it was.
LEMMA DamageStep ==
    ASSUME AgentRows, StoreInv, MaxDamage <= 1, Damage
    PROVE  StoreInv'
  <1> USE StoreAssumption DEF AgentRows, AgentTypeOK
  <1>1. /\ damage = 0 /\ damage' = 1
        /\ UNCHANGED <<token, pc, lease, acted>>
    BY DEF Damage, DamageFile, DamageIndex, fenced, loop
  <1>2. FilesCurrent /\ FilesWhole /\ IndexWhole
    BY Zenon, <1>1 DEF StoreInv
  <1>3. ASSUME NEW e \in Env, DamageFile(e) PROVE FilesCurrent' /\ IndexWhole'
    <2>1. /\ index' = index
          /\ \A f \in Env : Readable(f)' => Readable(f) /\ file'[f] = file[f]
      BY Zenon, <1>3 DEF DamageFile, Readable
    <2>2. pc = "indexing" => lease.env \in Env
      BY Zenon, LoopAssumption
    <2> QED
      BY Zenon, <1>1, <1>2, <2>1, <2>2 DEF FilesCurrent, IndexWhole, listed
  <1>4. CASE DamageIndex
    <2>1. UNCHANGED file
      BY Zenon, <1>4 DEF DamageIndex
    <2> QED
      BY <1>1, <1>2, <2>1 DEF StoreInv, FilesCurrent, FilesWhole, Readable
  <1> QED
    BY <1>1, <1>3, <1>4 DEF Damage, StoreInv

\* Accepting a lease raises the remembered fence before anything is done.
LEMMA AcceptStep ==
    ASSUME AgentRows, StoreInv, AcceptLease
    PROVE  StoreInv'
  <1> DEFINE e == lease.env
  <1>1. e \in Env /\ lease.attempt \in Holder
    BY Zenon, LoopAssumption DEF AcceptLease, AgentRows, AgentTypeOK
  <1>2. acted[e] <= token[lease.attempt]
    BY Zenon, AcceptedIsNewer DEF AcceptLease
  <1>3. /\ file' = [file EXCEPT ![e] = FenceRecord(token[lease.attempt], FALSE)]
        /\ UNCHANGED <<index, damage, token, lease, acted>>
    BY Zenon DEF AcceptLease, writeFence, fenced
  <1>4. /\ Readable(e)'
        /\ file'[e].highestAcceptedFence = token[lease.attempt]
        /\ \A f \in Env : f # e => file'[f] = file[f]
    BY Zenon, <1>1, <1>3, StoreAssumption DEF Readable, FenceRecord, AgentRows, AgentTypeOK
  <1>5. FilesCurrent'
    <2>1. ASSUME NEW f \in Env, Readable(f)' PROVE file'[f].highestAcceptedFence >= acted'[f]
      <3>1. CASE f = e
        BY Zenon, <1>1, <1>2, <1>3, <1>4, <3>1 DEF AgentRows
      <3>2. CASE f # e
        BY Zenon, <1>3, <1>4, <2>1, <3>2 DEF StoreInv, FilesCurrent, Readable
      <3> QED
        BY Zenon, <3>1, <3>2
    <2>2. file'[lease'.env].highestAcceptedFence >= token'[lease'.attempt]
      <3>1. token'[lease'.attempt] \in Nat
        BY Zenon, <1>1, <1>3 DEF AgentRows
      <3>2. file'[lease'.env].highestAcceptedFence = token'[lease'.attempt]
        <4>1. lease' = lease /\ token' = token
          BY Zenon, <1>3
        <4> QED
          BY <1>4, <4>1, Zenon
      <3> QED
        BY <3>1, <3>2
    <2> QED
      BY Zenon, <2>1, <2>2 DEF FilesCurrent
  <1>6. FilesWhole => FilesWhole'
    BY Zenon, <1>1, <1>3, <1>4 DEF FilesWhole, Readable
  <1>7. IndexWhole => IndexWhole'
    BY Zenon, <1>3 DEF IndexWhole, listed
  <1> QED
    BY Zenon, <1>3, <1>5, <1>6, <1>7 DEF StoreInv

\* Listing an environment before acting in it; a rebuilt index forgets only
\* environments whose files are whole.
LEMMA ListStep ==
    ASSUME AgentRows, StoreInv, StartExecutor
    PROVE  StoreInv'
  <1> DEFINE e == lease.env
  <1>1. e \in Env /\ lease.attempt \in Holder
    BY Zenon, LoopAssumption DEF StartExecutor, AgentRows, AgentTypeOK
  <1>2. /\ pc = "indexing" /\ pc' = "running"
        /\ UNCHANGED <<file, damage, token, lease>>
        /\ acted' = [acted EXCEPT ![e] = token[lease.attempt]]
    BY Zenon DEF StartExecutor, fenced
  <1>3. /\ index' \in SUBSET Env
        /\ e \in index'
        /\ ~failClosed => listed \subseteq index'
    BY Zenon, <1>1, IndexWritten DEF StartExecutor, addToIndex, AgentRows
  <1>4. index' # Garbage /\ listed' = index'
    BY Zenon, <1>3, StoreAssumption DEF listed
  <1>5. FilesCurrent'
    BY Zenon, <1>1, <1>2 DEF StoreInv, FilesCurrent, Readable, AgentRows
  <1>6. FilesWhole => FilesWhole'
    BY Zenon, <1>1, <1>2 DEF FilesWhole, Readable, AgentRows
  <1>7. IndexWhole => IndexWhole'
    <2> SUFFICES ASSUME IndexWhole, NEW f \in Env, acted'[f] > 0 PROVE f \in index'
      BY Zenon, <1>4 DEF IndexWhole
    <2>1. CASE f = e
      BY Zenon, <1>3, <2>1
    <2>2. CASE f # e
      <3>1. acted[f] > 0
        BY Zenon, <1>1, <1>2, <2>2 DEF AgentRows
      <3>2. f \in listed
        BY Zenon, <3>1 DEF IndexWhole
      <3>3. ~failClosed
        BY Zenon, <3>2 DEF IndexWhole, failClosed, listed
      <3> QED
        BY Zenon, <1>3, <3>2, <3>3
    <2> QED
      BY Zenon, <2>1, <2>2
  <1> QED
    BY Zenon, <1>2, <1>5, <1>6, <1>7 DEF StoreInv

\* Marking keeps what the file remembers.
LEMMA MarkStep ==
    ASSUME AgentRows, StoreInv, markReconciliationRequired
    PROVE  StoreInv'
  <1> DEFINE e == lease.env
  <1>1. e \in Env
    BY Zenon, LoopAssumption DEF markReconciliationRequired, AgentRows, AgentTypeOK
  <1>2. pc' = "draining" /\ UNCHANGED <<damage, acted>>
    BY Zenon DEF markReconciliationRequired
  <1>3. CASE Load(e) = "corrupt"
    <2>1. UNCHANGED <<file, index>>
      BY Zenon, <1>3 DEF markReconciliationRequired
    <2> QED
      BY Zenon, <1>2, <2>1 DEF StoreInv, FilesCurrent, FilesWhole, IndexWhole, listed, Readable
  <1>4. CASE Load(e) # "corrupt"
    <2>1. /\ file' = [file EXCEPT ![e] = flaggedRecord(e)]
          /\ index' \in SUBSET Env
          /\ ~failClosed /\ listed \subseteq index'
      BY Zenon, <1>1, <1>4, LoadVerdict, IndexWritten
      DEF markReconciliationRequired, writeFence, addToIndex, AgentRows
    <2>2. index' # Garbage /\ listed' = index'
      BY Zenon, <2>1, StoreAssumption DEF listed
    <2>3. flaggedRecord(e) \in Record /\ flaggedRecord(e).highestAcceptedFence >= acted[e]
      <3>1. CASE Load(e) = "known"
        <4>1. Readable(e) /\ file[e] \in Record
          BY Zenon, <1>1, <3>1, LoadVerdict DEF AgentRows, AgentTypeOK, Readable, Record
        <4> QED
          BY Zenon, <1>1, <3>1, <4>1
          DEF StoreInv, FilesCurrent, flaggedRecord, FenceRecord, Record
      <3>2. CASE Load(e) = "first_encounter"
        <4>1. acted[e] = 0
          BY <1>1, <3>2, LoadVerdict DEF AgentRows, StoreInv, FilesWhole, IndexWhole, Readable
        <4> QED
          BY <3>2, <4>1 DEF flaggedRecord, FenceRecord, Record
      <3> QED
        BY Zenon, <1>1, <1>4, <3>1, <3>2, LoadVerdict DEF AgentRows
    <2>4. /\ file'[e] = flaggedRecord(e)
          /\ file'[e] \notin {Missing, Garbage}
          /\ \A f \in Env : f # e => file'[f] = file[f]
      <3>1. flaggedRecord(e) \notin {Missing, Garbage}
        BY Zenon, <2>3, StoreAssumption DEF Record
      <3> QED
        BY Zenon, <1>1, <2>1, <3>1 DEF AgentRows, AgentTypeOK
    <2>5. FilesCurrent'
      <3> SUFFICES ASSUME NEW f \in Env, Readable(f)'
                   PROVE  file'[f].highestAcceptedFence >= acted[f]
        BY Zenon, <1>2 DEF FilesCurrent
      <3>1. CASE f = e
        BY Zenon, <2>3, <2>4, <3>1
      <3>2. CASE f # e
        BY Zenon, <2>4, <3>2 DEF StoreInv, FilesCurrent, Readable
      <3> QED
        BY Zenon, <3>1, <3>2
    <2>6. FilesWhole => FilesWhole'
      <3> SUFFICES ASSUME FilesWhole, NEW f \in Env, acted[f] > 0 PROVE Readable(f)'
        BY Zenon, <1>2 DEF FilesWhole
      <3> QED
        BY Zenon, <2>4 DEF FilesWhole, Readable
    <2>7. IndexWhole => IndexWhole'
      BY Zenon, <1>2, <2>1, <2>2 DEF IndexWhole
    <2> QED
      BY Zenon, <1>2, <2>5, <2>6, <2>7 DEF StoreInv
  <1> QED
    BY Zenon, <1>3, <1>4

\* Every step keeps the store.
LEMMA StoreStep ==
    MaxDamage <= 1 /\ AgentRows /\ StoreInv /\ [AgentNext]_agentVars => StoreInv'
  <1> SUFFICES ASSUME MaxDamage <= 1, AgentRows, StoreInv, [AgentNext]_agentVars
               PROVE  StoreInv'
    BY Zenon
  <1>1. CASE /\ UNCHANGED <<storeVars, acted>>
             /\ pc' # "indexing" \/ UNCHANGED <<pc, lease, token>>
    BY Zenon, <1>1 DEF storeVars, StoreInv, FilesCurrent, FilesWhole, IndexWhole, listed,
       Readable
  <1>2. ASSUME \/ \E e \in Env, h \in Holder : claimAndRun(e, h)
               \/ RefuseLease \/ RenewLease \/ LoseLease \/ DrainExecutor \/ reportOutcome
               \/ StopAgent
        PROVE  UNCHANGED <<storeVars, acted>> /\ pc' # "indexing"
    BY Zenon, <1>2 DEF claimAndRun, RefuseLease, RenewLease, LoseLease, DrainExecutor,
       reportOutcome,
       StopAgent, Idle
  <1>3. ASSUME \/ \E e \in Env : AuthorityPasses(e) \/ Expire(e) \/ Reconciled(e) \/ RequestCancel(e)
               \/ Revoke \/ UNCHANGED agentVars
        PROVE  UNCHANGED <<storeVars, acted, pc, lease, token>>
    BY Zenon, <1>3 DEF AuthorityPasses, Expire, Reconciled, RequestCancel, Revoke, agentVars,
       fenced, loop
  <1> QED
    BY Zenon, <1>1, <1>2, <1>3, AcceptStep, ListStep, MarkStep, DamageStep
    DEF AgentNext, AgentStep, SurroundingStep

-----------------------------------------------------------------------------
(* Theorems.                                                               *)

\* An idle agent with no files satisfies the invariant.
LEMMA AgentStart == AgentInit => AgentInv
  <1> SUFFICES ASSUME AgentInit PROVE AgentInv
    BY Zenon
  <1> USE LoopAssumption, StoreAssumption DEF AgentInit, StoreInit, CP!FencedInit
  <1>1. AgentTypeOK
    <2>1. file \in [Env -> Record \cup {Missing, Garbage}]
      BY Zenon
    <2>2. cancelled \in BOOLEAN /\ ~working
      BY Zenon
    <2> QED
      BY <2>1, <2>2 DEF AgentTypeOK, Record
  <1>2. AgentRows /\ InStep
    BY <1>1 DEF AgentRows, InStep
  <1>3. StoreInv
    BY DEF StoreInv, FilesCurrent, FilesWhole, IndexWhole, Readable
  <1> QED
    BY Zenon, <1>2, <1>3 DEF AgentInv

\* The loop and its files are well typed, and the sequences stay in step.
THEOREM AgentTypes == AgentSpec => [](AgentTypeOK /\ InStep)
  <1>1. AgentInit => AgentRows /\ InStep
    BY Zenon, AgentStart DEF AgentInv
  <1>2. AgentRows /\ InStep /\ [AgentNext]_agentVars => AgentRows' /\ InStep'
    BY Zenon, AgentRowsStep, InStepStep
  <1>3. AgentRows => AgentTypeOK
    BY Zenon DEF AgentRows
  <1> QED
    BY <1>1, <1>2, <1>3, PTL DEF AgentSpec

\* With one file or index lost or damaged at most, across crashes between
\* any two writes, Load never takes an environment the agent acted in for a
\* new one and never remembers a lower fence than one it acted on.
THEOREM AgentRemembers ==
    ASSUME MaxDamage <= 1
    PROVE  AgentSpec => []LoadRemembers
  <1>1. AgentInit => AgentRows /\ StoreInv
    BY Zenon, AgentStart DEF AgentInv
  <1>2. AgentRows /\ StoreInv /\ [AgentNext]_agentVars => AgentRows' /\ StoreInv'
    BY Zenon, AgentRowsStep, StoreStep
  <1>3. AgentRows /\ StoreInv => LoadRemembers
    <2> SUFFICES ASSUME AgentRows, StoreInv, NEW e \in Env, acted[e] > 0, Load(e) # "corrupt"
                 PROVE  Load(e) = "known" /\ file[e].highestAcceptedFence >= acted[e]
      BY Zenon DEF LoadRemembers
    <2>1. Load(e) # "first_encounter"
      BY Zenon, LoadVerdict DEF AgentRows, StoreInv, FilesWhole, IndexWhole, Readable
    <2> QED
      BY Zenon, <2>1, LoadVerdict DEF AgentRows, StoreInv, FilesCurrent
  <1> QED
    BY <1>1, <1>2, <1>3, PTL DEF AgentSpec

\* A holder that is deposed is gone; the others keep their fences.
LEMMA DeposedStep ==
    ASSUME AgentRows, Revoke \/ \E e \in Env : Expire(e)
    PROVE  /\ UNCHANGED <<lease, token, pc, lapsed>>
           /\ revoked => revoked'
           /\ \A e \in Env :
                 holder'[e] = None \/ (holder'[e] = holder[e] /\ fence'[e] = fence[e])
  <1>1. UNCHANGED <<lease, token, pc, lapsed>>
    BY Zenon DEF Revoke, Expire, attempts, loop
  <1>2. revoked => revoked'
    BY Zenon DEF Revoke, Expire, attempts
  <1>3. ASSUME NEW e \in Env
        PROVE  holder'[e] = None \/ (holder'[e] = holder[e] /\ fence'[e] = fence[e])
    BY Zenon DEF Revoke, Expire, AgentRows
  <1> QED
    BY <1>1, <1>2, <1>3, Zenon

\* A lease the agent gives up as stale is one the control plane no longer
\* honours, whatever renewals and answers were lost.
THEOREM GivenUpIsLost == AgentSpec => []OnlyLostLeasesAreGivenUp
  <1>1. AgentInit => AgentRows /\ InStep /\ OnlyLostLeasesAreGivenUp
    BY Zenon, AgentStart DEF AgentInv, AgentInit, OnlyLostLeasesAreGivenUp
  <1>2. ASSUME AgentRows, InStep, OnlyLostLeasesAreGivenUp, [AgentNext]_agentVars
        PROVE  OnlyLostLeasesAreGivenUp'
    <2> USE <1>2, LoopAssumption DEF AgentRows, AgentTypeOK, OnlyLostLeasesAreGivenUp, HasAuthority
    <2>1. pc # "idle" => lease.env \in Env /\ lease.attempt \in Holder
      BY Zenon
    <2>2. CASE LoseLease
      BY Zenon, <2>1, <2>2 DEF LoseLease, InStep, RenewAccepted, fenced, attempts
    <2>3. CASE pc' \notin {"marking", "draining"}
      BY Zenon, <2>3
    <2>4. CASE /\ UNCHANGED <<lease, token>>
               /\ pc' \in {"marking", "draining"} => pc \in {"marking", "draining"}
               /\ revoked => revoked'
               /\ \A e \in Env :
                     /\ lapsed[e] => lapsed'[e]
                     /\ holder'[e] = None \/ (holder'[e] = holder[e] /\ fence'[e] = fence[e])
      BY <2>1, <2>4
    <2>5. ASSUME \/ \E e \in Env, h \in Holder : claimAndRun(e, h)
                 \/ RefuseLease \/ AcceptLease \/ StartExecutor \/ RenewLease
                 \/ DrainExecutor \/ reportOutcome \/ StopAgent
          PROVE  pc' \notin {"marking", "draining"}
      BY Zenon, <2>5 DEF claimAndRun, RefuseLease, AcceptLease, StartExecutor, RenewLease,
         DrainExecutor, reportOutcome, StopAgent, Idle
    <2>6. ASSUME \/ markReconciliationRequired \/ Damage \/ UNCHANGED agentVars
                 \/ \E e \in Env : Reconciled(e) \/ RequestCancel(e) \/ AuthorityPasses(e)
          PROVE  /\ UNCHANGED <<lease, token, revoked, holder, fence>>
                 /\ pc' \in {"marking", "draining"} => pc \in {"marking", "draining"}
                 /\ lapsed' = lapsed \/ \E e \in Env : lapsed' = [lapsed EXCEPT ![e] = TRUE]
      BY <2>6, Zenon DEF markReconciliationRequired, Damage, Reconciled, RequestCancel,
         AuthorityPasses, agentVars, fenced, attempts, loop
    <2>8. CASE Revoke \/ \E e \in Env : Expire(e)
      BY Zenon, <2>4, <2>8, DeposedStep
    <2>9. CASE \/ markReconciliationRequired \/ Damage \/ UNCHANGED agentVars
               \/ \E e \in Env : Reconciled(e) \/ RequestCancel(e) \/ AuthorityPasses(e)
      BY Zenon, <2>4, <2>6, <2>9
    <2> QED
      BY Zenon, <2>2, <2>3, <2>5, <2>8, <2>9 DEF AgentNext, AgentStep, SurroundingStep
  <1> QED
    BY <1>1, <1>2, AgentRowsStep, InStepStep, PTL DEF AgentSpec
=============================================================================
