----------------------------- MODULE AgentLoop ------------------------------
(***************************************************************************)
(* The host agent's lease loop with its fence store, against a control     *)
(* plane that keeps the promise of FencedEnvironment.  The agent handles   *)
(* one lease at a time; its requests and the answers to them may be lost,  *)
(* and it may stop and restart at any point.  A request that never arrives *)
(* or is answered 401, 503 or not at all changes nothing on either side,   *)
(* except as stated.  A claim is sent once; the other requests are retried *)
(* a few times by post, which is the same request again.                   *)
(***************************************************************************)
EXTENDS FenceStore

CONSTANTS
    Holder,         \* attempts, the holders of environments
    MaxRenewals,    \* bound: renewals sent for one lease
    None

ASSUME LoopAssumption ==
    MaxRenewals \in Nat /\ None \notin Holder /\ None \notin [env : Env, attempt : Holder]

VARIABLES
    holder, fence, quarantine, token,   \* the control plane, see FencedEnvironment
    lapsed,     \* the holder's authority_expires_at has passed
    renewals,   \* agent_job_attempts.renewal_sequence
    cancels,    \* attempts whose job has cancel_requested_at set
    revoked,    \* the server's credential is revoked
    pc,         \* where runLease is
    lease,      \* the lease runLease works on
    sequence,   \* its last renewal known to be accepted
    cancelled,  \* runLease has learnt of the cancellation
    working,    \* the executor runs and its context is not cancelled
    acted       \* history: highest fence an executor was started with

CP == INSTANCE FencedEnvironment

fenced == <<holder, fence, quarantine, token>>
attempts == <<lapsed, renewals, cancels, revoked>>
loop == <<pc, lease, sequence, cancelled, working>>
agentVars == <<storeVars, fenced, attempts, loop, acted>>

AgentInit ==
    /\ StoreInit /\ CP!FencedInit
    /\ lapsed = [e \in Env |-> FALSE]
    /\ renewals = [h \in Holder |-> 0]
    /\ cancels = {}
    /\ revoked = FALSE
    /\ pc = "idle" /\ lease = None
    /\ sequence = 0 /\ cancelled = FALSE /\ working = FALSE
    /\ acted = [e \in Env |-> 0]

Idle ==
    /\ pc' = "idle" /\ lease' = None
    /\ sequence' = 0 /\ cancelled' = FALSE /\ working' = FALSE

\* The predicates Renew and Complete check under the slot lock.
HasAuthority(e, h) ==
    /\ ~revoked
    /\ holder[e] = h
    /\ fence[e] = token[h]
    /\ ~lapsed[e]

-----------------------------------------------------------------------------
(* The agent.                                                              *)

\* claimAndRun: the control plane grants a lease; the answer may be lost.
claimAndRun(e, h) ==
    /\ pc = "idle" /\ ~revoked
    /\ CP!Grant(e, h)
    /\ lapsed' = [lapsed EXCEPT ![e] = FALSE]
    /\ \/ pc' = "claimed" /\ lease' = [env |-> e, attempt |-> h]
       \/ UNCHANGED <<pc, lease>>
    /\ UNCHANGED <<storeVars, renewals, cancels, revoked, sequence, cancelled,
                   working, acted>>

\* runLease's check of the claimed fence against the stored one.
Acceptable ==
    LET e == lease.env
    IN  \/ Load(e) = "first_encounter"
        \/ /\ Load(e) = "known"
           /\ ~file[e].reconciliationRequired
           /\ token[lease.attempt] > file[e].highestAcceptedFence

\* A lease that is not acceptable is dropped without a word to the control
\* plane.
RefuseLease ==
    /\ pc = "claimed"
    /\ ~Acceptable
    /\ Idle
    /\ UNCHANGED <<storeVars, fenced, attempts, acted>>

\* Save's first write.  A write that fails is StopAgent before or after it:
\* runLease returns in either case.
AcceptLease ==
    /\ pc = "claimed"
    /\ Acceptable
    /\ writeFence(lease.env, FenceRecord(token[lease.attempt], FALSE))
    /\ pc' = "indexing"
    /\ UNCHANGED <<index, damage, fenced, attempts, lease, sequence, cancelled,
                   working, acted>>

\* Save's second write, after which the executor is started.
StartExecutor ==
    /\ pc = "indexing"
    /\ addToIndex(lease.env)
    /\ pc' = "running" /\ working' = TRUE
    /\ acted' = [acted EXCEPT ![lease.env] = token[lease.attempt]]
    /\ UNCHANGED <<file, damage, fenced, attempts, lease, sequence, cancelled>>

\* Renew accepts the stored sequence again or the one after it.
RenewAccepted(h, s) ==
    /\ HasAuthority(lease.env, h)
    /\ s \in {renewals[h], renewals[h] + 1}

\* Mutant: a renewal without an answer still counts.
AfterLostRenewalAdvanced(s) == s + 1

\* Without an answer the same sequence is sent again on the next tick.
AfterLostRenewal(s) == s

\* One tick of the renewal loop: the renewal is accepted and answered, is
\* accepted and the answer is lost, or does not get through.  A 401 of a
\* revoked credential is one more renewal that did not get through.
RenewLease ==
    LET h == lease.attempt
        s == sequence + 1
    IN  /\ pc = "running"
        /\ s <= MaxRenewals
        /\ \/ /\ RenewAccepted(h, s)
              /\ renewals' = [renewals EXCEPT ![h] = s]
              /\ sequence' = s
              /\ cancelled' = (cancelled \/ h \in cancels)
              /\ working' = (working /\ h \notin cancels)
           \/ /\ RenewAccepted(h, s)
              /\ renewals' = [renewals EXCEPT ![h] = s]
              /\ sequence' = AfterLostRenewal(sequence)
              /\ UNCHANGED <<cancelled, working>>
           \/ /\ sequence' = AfterLostRenewal(sequence)
              /\ UNCHANGED <<renewals, cancelled, working>>
        /\ UNCHANGED <<storeVars, fenced, lapsed, cancels, revoked, pc, lease, acted>>

\* ErrStaleLease: the executor is told to stop.
LoseLease ==
    /\ pc = "running"
    /\ sequence < MaxRenewals
    /\ ~revoked
    /\ ~RenewAccepted(lease.attempt, sequence + 1)
    /\ pc' = "marking" /\ working' = FALSE
    /\ UNCHANGED <<storeVars, fenced, attempts, lease, sequence, cancelled, acted>>

\* The stored record with the flag set.
flaggedRecord(e) ==
    FenceRecord(IF Load(e) = "known" THEN file[e].highestAcceptedFence ELSE 0, TRUE)

\* An environment that can be read is marked and, if it was not, listed;
\* runLease then waits for the executor to return.
markReconciliationRequired ==
    /\ pc = "marking"
    /\ IF Load(lease.env) = "corrupt"
       THEN UNCHANGED <<file, index>>
       ELSE writeFence(lease.env, flaggedRecord(lease.env)) /\ addToIndex(lease.env)
    /\ pc' = "draining"
    /\ UNCHANGED <<damage, fenced, attempts, lease, sequence, cancelled, working, acted>>

DrainExecutor ==
    /\ pc = "draining"
    /\ Idle
    /\ UNCHANGED <<storeVars, fenced, attempts, acted>>

\* The executor returns and its outcome, or the cancel acknowledgement, is
\* sent; the report may be refused or lost, and the lease is forgotten
\* either way.
reportOutcome ==
    LET e == lease.env
        h == lease.attempt
    IN  /\ pc = "running"
        /\ \/ /\ HasAuthority(e, h)
              /\ cancelled => h \in cancels
              /\ quarantine[e] = None
              /\ holder' = [holder EXCEPT ![e] = None]
           \/ UNCHANGED holder
        /\ Idle
        /\ UNCHANGED <<storeVars, fence, quarantine, token, attempts, acted>>

\* The process stops, is stopped, or cannot write: what it held in memory
\* is gone and nothing is reported.
StopAgent ==
    /\ pc # "idle"
    /\ Idle
    /\ UNCHANGED <<storeVars, fenced, attempts, acted>>

-----------------------------------------------------------------------------
(* The control plane and the host around the agent.                        *)

\* The database clock passes the deadline of a lease.
AuthorityPasses(e) ==
    /\ holder[e] # None /\ ~lapsed[e]
    /\ lapsed' = [lapsed EXCEPT ![e] = TRUE]
    /\ UNCHANGED <<storeVars, fenced, renewals, cancels, revoked, loop, acted>>

\* Mutant: the sweeper leaves cancelled leases to their agent.
ExpireUncancelled(e) ==
    /\ holder[e] \notin cancels \cup {None} /\ quarantine[e] = None
    /\ lapsed[e]
    /\ holder' = [holder EXCEPT ![e] = None]
    /\ fence' = [fence EXCEPT ![e] = @ + 1]
    /\ quarantine' = [quarantine EXCEPT ![e] = holder[e]]
    /\ UNCHANGED <<storeVars, token, attempts, loop, acted>>

\* The sweeper deposes the holder and leaves the environment flagged.
Expire(e) ==
    /\ holder[e] # None /\ quarantine[e] = None
    /\ lapsed[e]
    /\ holder' = [holder EXCEPT ![e] = None]
    /\ fence' = [fence EXCEPT ![e] = @ + 1]
    /\ quarantine' = [quarantine EXCEPT ![e] = holder[e]]
    /\ UNCHANGED <<storeVars, token, attempts, loop, acted>>

\* The server is revoked and deposed everywhere in one transaction.
Revoke ==
    LET E == {e \in Env : holder[e] # None}
    IN  /\ ~revoked
        /\ revoked' = TRUE
        /\ holder' = [e \in Env |-> None]
        /\ fence' = [e \in Env |-> IF e \in E THEN fence[e] + 1 ELSE fence[e]]
        /\ quarantine' = [e \in Env |-> IF e \in E THEN holder[e] ELSE quarantine[e]]
        /\ UNCHANGED <<storeVars, token, lapsed, renewals, cancels, loop, acted>>

\* An administrator accounts for the deposed holder.  The agent never does:
\* nothing calls Client.Reconcile.
Reconciled(e) ==
    /\ quarantine[e] # None
    /\ quarantine' = [quarantine EXCEPT ![e] = None]
    /\ UNCHANGED <<storeVars, holder, fence, token, attempts, loop, acted>>

RequestCancel(e) ==
    /\ holder[e] \in Holder \ cancels
    /\ cancels' = cancels \cup {holder[e]}
    /\ UNCHANGED <<storeVars, fenced, lapsed, renewals, revoked, loop, acted>>

Damage ==
    /\ (\E e \in Env : DamageFile(e)) \/ DamageIndex
    /\ UNCHANGED <<fenced, attempts, loop, acted>>

-----------------------------------------------------------------------------
AgentStep ==
    \/ \E e \in Env, h \in Holder : claimAndRun(e, h)
    \/ RefuseLease \/ AcceptLease \/ StartExecutor
    \/ RenewLease \/ LoseLease
    \/ markReconciliationRequired \/ DrainExecutor
    \/ reportOutcome
    \/ StopAgent

SurroundingStep ==
    \/ \E e \in Env : AuthorityPasses(e) \/ Expire(e) \/ Reconciled(e) \/ RequestCancel(e)
    \/ Revoke
    \/ Damage

AgentNext == AgentStep \/ SurroundingStep

AgentSpec == AgentInit /\ [][AgentNext]_agentVars
-----------------------------------------------------------------------------
(* Properties.                                                             *)

\* The type invariant of the loop and its files.
AgentTypeOK ==
    /\ file \in [Env -> [highestAcceptedFence : Nat, reconciliationRequired : BOOLEAN]
                        \cup {Missing, Garbage}]
    /\ index \in (SUBSET Env) \cup {Missing, Garbage}
    /\ pc \in {"idle", "claimed", "indexing", "running", "marking", "draining"}
    /\ lease \in [env : Env, attempt : Holder] \cup {None}
    /\ pc = "idle" <=> lease = None
    /\ working => pc = "running"
    /\ sequence \in 0 .. MaxRenewals
    /\ cancelled \in BOOLEAN

Flagged(e) == Load(e) = "known" /\ file[e].reconciliationRequired

\* Across crashes and any single loss or corruption of a file or the index,
\* Load never takes an environment the agent acted in for a new one and
\* never remembers a lower fence than one it acted on.
LoadRemembers ==
    \A e \in Env : acted[e] > 0 =>
       \/ Load(e) = "corrupt"
       \/ Load(e) = "known" /\ file[e].highestAcceptedFence >= acted[e]

\* Lost renewals and lost answers never make the agent give up a lease it
\* still holds: when runLease treats a lease as stale, the control plane no
\* longer honours it, so the sequences of the two sides never drift apart.
OnlyLostLeasesAreGivenUp ==
    pc \in {"marking", "draining"} => ~HasAuthority(lease.env, lease.attempt)

\* An executor works on h and nobody has asked to stop it.
Busy(h) == pc = "running" /\ lease.attempt = h /\ h \notin cancels

\* Only renewals move a deadline, only runLease sends them, while its executor
\* runs, and none moves it past the deadline of a cancellation.  Otherwise the
\* clock passes it.
UnrenewedPasses(e) == ~Busy(holder[e]) /\ AuthorityPasses(e)

\* The database clock goes on and the sweeper runs.  Nothing is assumed of the
\* agent: it may hang or stop anywhere, and its executor need not return.
AgentFairSpec ==
    /\ AgentSpec
    /\ \A e \in Env : WF_agentVars(UnrenewedPasses(e)) /\ WF_agentVars(Expire(e))

\* Only an executor that runs, and that nobody has asked to stop, keeps an
\* environment: whatever is lost or refused, and wherever the agent hangs or
\* crashes between the claim and the report, any other lease ends.
NoLeaseIsKeptForever ==
    \A e \in Env, h \in Holder : holder[e] = h ~> holder[e] # h \/ Busy(h)

\* Docs: the host stops work no later than the authority duration it was
\* given by the control plane.
WorkStopsWithAuthority ==
    working => ~(holder[lease.env] = lease.attempt /\ lapsed[lease.env])

\* Docs: the flag blocks the environment until the control plane's
\* reconciliation clears it.
ReconciliationUnblocks ==
    \A e \in Env :
       (Flagged(e) /\ holder[e] = None /\ quarantine[e] = None) ~> ~Flagged(e)
=============================================================================
