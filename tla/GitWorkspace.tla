---------------------------- MODULE GitWorkspace ----------------------------
(***************************************************************************)
(* A lease-authorised Git checkout in a quota workspace: the runner of     *)
(* src/internal/gitcheckout, the client of the quota service, the          *)
(* connections between them and the children that                          *)
(* src/cmd/checkout-exec runs in the workspace, over QuotaLedger.          *)
(*                                                                         *)
(* A connection carries one request.  Its caller may stop waiting at any   *)
(* moment (five second socket timeouts, a cancelled context, a closed      *)
(* socket), while the service goes on with a request it has accepted, and  *)
(* an answer may be lost with the connection.                              *)
(***************************************************************************)
EXTENDS QuotaLedger

CONSTANT Operations    \* Git operations of one checkout (eight in the code)

ASSUME OperationsAssumption == Operations \in Nat \ {0}

VARIABLES
    cl,      \* per client, the checkout in progress
    reqs,    \* accepted requests waiting for the service's mutex
    offers,  \* connections whose handler waits for the acknowledgement
    issued   \* history: identifiers whose offer reached a client

vars == <<disk, mem, dir, up, todo, op, proc, misread, faults, cl, reqs, offers, issued>>

Ended == {"failed", "released", "dropped", "lost"}
Owning == {"holding", "spawned", "using"}
Waiting == {"asked", "acked", "querying", "releasing"}
ClientState == Ended \cup Owning \cup Waiting \cup {"offered", "resolving", "closing"}

Request == [call : {"allocate", "ack", "withdraw", "query", "release"},
            c : Client, id : 0 .. MaxProject, live : BOOLEAN]

WorkspaceTypeOK ==
    /\ LedgerTypeOK
    /\ cl \in [Client -> [st : ClientState, id : 0 .. MaxProject, done : 0 .. Operations,
                          tries : 0 .. 2, closes : 0 .. 2]]
    /\ reqs \subseteq Request
    /\ offers \subseteq Client \X Id
    /\ issued \subseteq Id

Fresh == [st |-> "failed", id |-> 0, done |-> 0, tries |-> 0, closes |-> 0]

Init == /\ LedgerInit
        /\ cl = [c \in Client |-> Fresh]
        /\ reqs = {} /\ offers = {} /\ issued = {}

Become(c, st) == cl' = [cl EXCEPT ![c].st = st]
ClientOnly == UNCHANGED <<disk, mem, dir, up, todo, op, proc, misread, issued>>

(* A connection is refused while the service is down, and may fail later.  *)
NoConnection == IF up = "up" THEN Fault ELSE NoFault

(* The service still holds the connection on which c waits.                *)
Connected(c) ==
    \/ \E r \in reqs : r.c = c /\ r.live
    \/ op # Free /\ op.call # "reconcile" /\ op.c = c /\ op.live

(* The request that client c has just sent on a new connection.            *)
Send(c, call) ==
    reqs' = reqs \cup {[call |-> call, c |-> c, id |-> cl[c].id, live |-> TRUE]}

(* Result.Close will be called n more times.                               *)
BeginClose(c, n) ==
    cl' = [cl EXCEPT ![c].st = "closing", ![c].closes = n, ![c].tries = 0]

(* ReleaseAndCleanup failed: Close keeps the capability, but its callers   *)
(* call it once more at most and then let go of the result.                *)
CloseFails(c) ==
    cl' = [cl EXCEPT ![c].st = IF cl[c].closes > 1 THEN "closing" ELSE "lost",
                     ![c].closes = @ - 1, ![c].tries = 0]

(* One of the queries that resolve a lost acknowledgement did not answer;  *)
(* after the second the allocation is indeterminate and is closed, once by *)
(* Checkout itself and once more by its deferred cleanup.                  *)
ResolveFails(c) ==
    IF cl[c].tries = 0
    THEN cl' = [cl EXCEPT ![c].st = "resolving", ![c].tries = 1]
    ELSE BeginClose(c, 2)

---------------------------------------------------------------------------
(* The client.                                                             *)

(* Client.Allocate: connect and send; or no connection.                    *)
CallAllocate(c) ==
    /\ cl[c].st \in Ended
    /\ up = "up"
    /\ cl' = [cl EXCEPT ![c] = [Fresh EXCEPT !.st = "asked"]]
    /\ reqs' = reqs \cup {[call |-> "allocate", c |-> c, id |-> 0, live |-> TRUE]}
    /\ NoFault /\ UNCHANGED offers /\ ClientOnly

(* The acknowledgement meets a handler that still waits for it, or a       *)
(* connection the service has closed: then sending fails, or the missing   *)
(* answer makes the client ask what became of it.  The client may also     *)
(* close the connection instead.                                           *)
SendAck(c) ==
    /\ cl[c].st = "offered"
    /\ \/ /\ <<c, cl[c].id>> \in offers
          /\ offers' = offers \ {<<c, cl[c].id>>}
          /\ Send(c, "ack")
          /\ Become(c, "acked")
          /\ NoFault
       \/ /\ <<c, cl[c].id>> \notin offers
          /\ \/ Become(c, "failed")
             \/ Become(c, "resolving")
          /\ NoFault /\ UNCHANGED <<reqs, offers>>
       \/ Fault /\ Become(c, "failed") /\ UNCHANGED <<reqs, offers>>
    /\ ClientOnly

(* ResolveAllocation.                                                      *)
Resolve(c) ==
    /\ cl[c].st = "resolving"
    /\ \/ /\ up = "up" /\ Send(c, "query") /\ Become(c, "querying")
          /\ NoFault
       \/ NoConnection /\ ResolveFails(c) /\ UNCHANGED reqs
    /\ UNCHANGED offers /\ ClientOnly

(* ReleaseAndCleanup.                                                      *)
SendRelease(c) ==
    /\ cl[c].st = "closing"
    /\ \/ /\ up = "up" /\ Send(c, "release") /\ Become(c, "releasing")
          /\ NoFault
       \/ NoConnection /\ CloseFails(c) /\ UNCHANGED reqs
    /\ UNCHANGED offers /\ ClientOnly

(* The client stops waiting for an answer, because the connection is gone  *)
(* or too slow; the request goes on without it.                            *)
GiveUp(c) ==
    /\ cl[c].st \in Waiting
    /\ IF Connected(c) THEN Fault ELSE NoFault
    /\ CASE cl[c].st = "asked" -> Become(c, "failed")
         [] cl[c].st = "acked" -> Become(c, "resolving")
         [] cl[c].st = "querying" -> ResolveFails(c)
         [] cl[c].st = "releasing" -> CloseFails(c)
    /\ reqs' = {IF r.c = c THEN [r EXCEPT !.live = FALSE] ELSE r : r \in reqs}
    /\ op' = IF op # Free /\ op.call # "reconcile" /\ op.c = c
             THEN [op EXCEPT !.live = FALSE] ELSE op
    /\ UNCHANGED <<disk, mem, dir, up, todo, proc, misread, offers, issued>>

---------------------------------------------------------------------------
(* Connections on the side of the service.                                 *)

(* A handler gets the mutex.                                               *)
FirstStep(call) ==
    CASE call = "allocate" -> "reserve"
      [] call = "ack" -> "grant"
      [] call \in {"withdraw", "release"} -> "revoke"

Begin(r) ==
    /\ up = "up" /\ op = Free /\ r.call # "query"
    /\ reqs' = reqs \ {r}
    /\ op' = [call |-> r.call, step |-> FirstStep(r.call), c |-> r.c, live |-> r.live,
              id |-> IF r.call = "allocate" THEN mem.next ELSE r.id,
              result |-> "retry"]
    /\ UNCHANGED <<faults, disk, mem, dir, up, todo, proc, misread, cl, offers, issued>>

(* An answer that reaches nobody.                                          *)
Lost(live) == UNCHANGED cl /\ IF live THEN Fault ELSE NoFault

(* activeAckStatus answers under the mutex and changes nothing.  The       *)
(* client drops an allocation that it is told is not active.               *)
AnswerQuery(r) ==
    /\ up = "up" /\ op = Free /\ r.call = "query"
    /\ reqs' = reqs \ {r}
    /\ \/ /\ r.live
          /\ Become(r.c, IF mem.rec[r.id] = "active" THEN "holding" ELSE "failed")
          /\ NoFault
       \/ Lost(r.live)
    /\ UNCHANGED offers /\ ClientOnly

(* The offer reaches the client, which then owns a descriptor; if it       *)
(* cannot be sent, the handler takes the offer back.                       *)
ReplyAllocate ==
    /\ At("reply") /\ op.call = "allocate"
    /\ \/ /\ op.result = "ok" /\ op.live
          /\ cl' = [cl EXCEPT ![op.c].st = "offered", ![op.c].id = op.id]
          /\ offers' = offers \cup {<<op.c, op.id>>}
          /\ issued' = issued \cup {op.id}
          /\ UNCHANGED reqs /\ NoFault
       \/ /\ op.result = "ok"
          /\ Lost(op.live)
          /\ reqs' = reqs \cup {[call |-> "withdraw", c |-> op.c, id |-> op.id,
                                live |-> FALSE]}
          /\ UNCHANGED <<offers, issued>>
       \/ /\ op.result # "ok"
          /\ cl' = IF op.live THEN [cl EXCEPT ![op.c].st = "failed"] ELSE cl
          /\ UNCHANGED <<reqs, offers, issued>> /\ NoFault
    /\ op' = Free
    /\ UNCHANGED <<disk, mem, dir, up, todo, proc, misread>>

(* Mutant: a refused release is repeated without counting.                 *)
ReceiveForEver(c, call, result) ==
    IF call # "release"
    THEN Become(c, IF result = "ok" THEN "holding" ELSE "resolving")
    ELSE Become(c, IF result = "retry" THEN "closing" ELSE "released")

(* What the answer to an acknowledgement or to a release makes the client  *)
(* do: a release is sent again while the service says "retry", at most     *)
(* three times in one Close.                                               *)
Receive(c, call, result) ==
    IF call # "release"
    THEN Become(c, IF result = "ok" THEN "holding" ELSE "resolving")
    ELSE CASE result \in {"ok", "completed"} -> Become(c, "released")
           [] result = "denied" -> Become(c, "dropped")
           [] result = "retry" /\ cl[c].tries < 2 ->
                cl' = [cl EXCEPT ![c].st = "closing", ![c].tries = @ + 1]
           [] OTHER -> CloseFails(c)

Reply ==
    /\ At("reply") /\ op.call # "allocate"
    /\ \/ op.live /\ Receive(op.c, op.call, op.result) /\ NoFault
       \/ Lost(op.live)
    /\ op' = Free
    /\ UNCHANGED <<disk, mem, dir, up, todo, proc, misread, reqs, offers, issued>>

(* Five seconds without an acknowledgement, or the connection closed.      *)
AckDeadline ==
    /\ up = "up"
    /\ \E o \in offers :
         /\ IF cl[o[1]].st = "offered" THEN Fault ELSE NoFault
         /\ offers' = offers \ {o}
         /\ reqs' = reqs \cup {[call |-> "withdraw", c |-> o[1], id |-> o[2],
                               live |-> FALSE]}
    /\ UNCHANGED cl /\ ClientOnly

(* A killed service takes its connections with it.                         *)
Kill == KillService /\ reqs' = {} /\ offers' = {} /\ UNCHANGED <<cl, issued>>

---------------------------------------------------------------------------
(* Runner.Checkout and the children of the spawn service.                  *)

(* The spawn service starts a child only in a workspace the checkout user  *)
(* owns; the child checks again before it runs Git.  The operation may     *)
(* also not start, or the lease may refuse before the fetch.               *)
Spawn(c) ==
    /\ cl[c].st = "holding"
    /\ \/ /\ dir[cl[c].id].access = "checkout"
          /\ proc' = [proc EXCEPT ![cl[c].id] = "runs"]
          /\ Become(c, "spawned")
       \/ BeginClose(c, 1) /\ UNCHANGED proc
    /\ UNCHANGED <<faults, disk, mem, dir, up, todo, op, misread, reqs, offers, issued>>

(* A child creates entries where it may: below a workspace it can enter,   *)
(* or in a subdirectory it has opened before and nobody has removed.       *)
Write(i) ==
    /\ \/ proc[i] \in {"runs", "open"} /\ dir[i].access = "checkout"
       \/ proc[i] = "open" /\ dir[i].full
    /\ dir' = [dir EXCEPT ![i].full = TRUE]
    /\ proc' = [proc EXCEPT ![i] = "open"]
    /\ UNCHANGED <<faults, disk, mem, up, todo, op, misread, cl, reqs, offers, issued>>

CloseFiles(i) ==
    /\ proc[i] = "open"
    /\ proc' = [proc EXCEPT ![i] = "runs"]
    /\ UNCHANGED <<faults, disk, mem, dir, up, todo, op, misread, cl, reqs, offers, issued>>

(* The operation is over: its cgroup was killed and found empty before the *)
(* service answered.                                                       *)
OperationEnds(c) ==
    /\ cl[c].st = "spawned"
    /\ proc' = [proc EXCEPT ![cl[c].id] = "none"]
    /\ \/ cl' = [cl EXCEPT ![c].done = @ + 1,
                           ![c].st = IF cl[c].done + 1 = Operations THEN "using" ELSE "holding"]
       \/ BeginClose(c, 1)
    /\ UNCHANGED <<faults, disk, mem, dir, up, todo, op, misread, reqs, offers, issued>>

(* The checkout is cancelled, or the cgroup could not be emptied: the      *)
(* runner cleans up while the child may still run.                         *)
Abandon(c) ==
    /\ cl[c].st = "spawned"
    /\ BeginClose(c, 1)
    /\ NoFault /\ UNCHANGED <<reqs, offers>> /\ ClientOnly

(* The spawn service notices the closed connection and kills the cgroup.   *)
KillChild(i) ==
    /\ proc[i] # "none"
    /\ \A c \in Client : ~(cl[c].st = "spawned" /\ cl[c].id = i)
    /\ proc' = [proc EXCEPT ![i] = "none"]
    /\ UNCHANGED <<faults, disk, mem, dir, up, todo, op, misread, cl, reqs, offers, issued>>

(* The image is built; the executor releases the workspace.                *)
Built(c) ==
    /\ cl[c].st = "using"
    /\ BeginClose(c, 1)
    /\ NoFault /\ UNCHANGED <<reqs, offers>> /\ ClientOnly

---------------------------------------------------------------------------
ServiceAlone ==
    /\ StartService \/ Reconcile \/ StartServing \/ ServiceStep
    /\ UNCHANGED <<cl, reqs, offers, issued>>

ClientStep(c) ==
    \/ CallAllocate(c) \/ SendAck(c) \/ Resolve(c) \/ SendRelease(c) \/ GiveUp(c)
    \/ Spawn(c) \/ OperationEnds(c) \/ Abandon(c) \/ Built(c)

Next ==
    \/ ServiceAlone \/ Kill
    \/ \E c \in Client : ClientStep(c)
    \/ \E r \in reqs : Begin(r) \/ AnswerQuery(r)
    \/ ReplyAllocate \/ Reply \/ AckDeadline
    \/ \E i \in Id : Write(i) \/ CloseFiles(i) \/ KillChild(i)

Spec == Init /\ [][Next]_vars

---------------------------------------------------------------------------
(* Properties.                                                             *)

(* The ledger on disk is enough to recover from at every moment, a crash   *)
(* after any step and a write that failed late included: New can read it,  *)
(* it lies ahead of every identifier ever offered ("IDs are intentionally  *)
(* never recycled"), and a workspace the checkout user can reach is under  *)
(* quota and one it has as granting or active, or as releasing if a        *)
(* restart could not look at it.                                           *)
LedgerAccounts ==
    /\ ValidLedger(disk)
    /\ \A i \in issued : i < disk.next
    /\ \A i \in Id : dir[i].access # "root" =>
          /\ Applied(i)
          /\ \/ disk.rec[i] \in {"granting", "active"}
             \/ disk.rec[i] = "releasing" /\ i \in misread

(* Entries, and files that a child still holds open, are counted against a *)
(* limit until they are gone (cleanupLocked clears the limits only at zero *)
(* usage), and they are gone when the client was told the release is done. *)
FilesAreCounted ==
    /\ \A i \in Id : dir[i].full \/ proc[i] = "open" => dir[i].limits
    /\ \A c \in Client : cl[c].st = "released" =>
          dir[cl[c].id] = NoDirectory /\ proc[cl[c].id] # "open"

(* A workspace in which Git runs, or from which an image is built, stays   *)
(* active in the ledger and usable through every kill and restart of the   *)
(* service, unless a system call failed while a restart looked at it.      *)
HolderKeepsWorkspace ==
    \A c \in Client : cl[c].st \in {"spawned", "using"} /\ cl[c].id \notin misread =>
        disk.rec[cl[c].id] = "active" /\ VerifyRecordFD(cl[c].id, "checkout")

(* reconcile: "healthy active records are deliberately left alone so a     *)
(* helper restart is survivable".                                          *)
RestartIsSurvivable ==
    \A c \in Client : cl[c].st \in {"spawned", "using"} =>
        VerifyRecordFD(cl[c].id, "checkout")

(* reconcile: "Records that cannot be proven safe remain inaccessible".    *)
UnprovenIsInaccessible ==
    \A i \in Id : disk.rec[i] = "releasing" => dir[i].access = "root"

(* An active workspace always has an owner that will release it (Checkout: *)
(* "always ask the helper to retire it; never orphan it").                 *)
NeverOrphaned ==
    \A i \in Id : up = "up" /\ op = Free /\ mem.rec[i] = "active" =>
        \E c \in Client : cl[c].id = i /\ cl[c].st \notin Ended

(* A checkout ends or comes to the build of its image: the answers of the  *)
(* service and the bounded retries of the client leave it waiting for ever *)
(* neither before the build nor after it.                                  *)
CheckoutEnds ==
    \A c \in Client : cl[c].st \notin Ended ~> cl[c].st \in Ended \cup {"using"}

(* Fairness: every party goes on with what it has begun (a Git operation   *)
(* has a deadline, the build of the image has none and need not end); a    *)
(* request waiting for the mutex gets it (sync.Mutex hands it to a         *)
(* starving waiter).                                                       *)
Fairness ==
    /\ WF_vars(ServiceAlone) /\ WF_vars(ReplyAllocate \/ Reply)
    /\ \A c \in Client :
         /\ WF_vars(ClientStep(c) /\ cl[c].st \notin Ended \cup {"using"})
         /\ SF_vars(\E r \in reqs : r.c = c /\ (Begin(r) \/ AnswerQuery(r)))

FairSpec == Spec /\ Fairness
=============================================================================
