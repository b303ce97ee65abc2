---------------------------- MODULE QuotaLedger ----------------------------
(***************************************************************************)
(* The privileged checkout quota service of src/internal/checkoutquota.    *)
(*                                                                         *)
(* The service keeps a ledger of workspaces in a file that it replaces     *)
(* atomically, and a copy in memory that it replaces only after the file.  *)
(* Every call holds one mutex, so at most one call is in progress (`op'),  *)
(* but the service may be killed between any two of its steps, and a write *)
(* of the ledger may report an error before or after the rename took       *)
(* effect.  A restart reads the file and reconciles what it finds there    *)
(* with the directories and the kernel's quota tables.                     *)
(*                                                                         *)
(* A workspace is identified by its project identifier: the directory name *)
(* is derived from it and the random handle is drawn with it, so the three *)
(* are one value here.                                                     *)
(***************************************************************************)
EXTENDS Naturals, FiniteSets

CONSTANTS
    Client,      \* callers of the service: checkouts run by the agent
    MaxProject,  \* the identifier at which allocation stops (code: 2^32 - 1)
    MaxFaults    \* bound: kills and failing system calls in a behaviour

ASSUME MaxProjectAssumption == MaxProject \in Nat \ {0, 1}
ASSUME MaxFaultsAssumption == MaxFaults \in Nat

Id == 1 .. (MaxProject - 1)

VARIABLES
    disk,   \* the ledger file: [next, rec]
    mem,    \* the ledger in memory (the file's content while the service is down)
    dir,    \* per identifier, the directory and its quota accounting
    up,     \* "down", "starting" (reconciling) or "up"
    todo,   \* records the reconciliation in progress has yet to visit
    op,     \* the call holding the mutex
    proc,   \* per identifier, the child process in its workspace
    misread, \* history: workspaces a restart could not look at or take back
    faults  \* faults so far

ledgerVars == <<disk, mem, dir, up, todo, op, proc, misread, faults>>

(* States of a record, and "none" where the ledger has no record.          *)
Live == {"reserved", "preparing", "ready", "offered", "granting", "active",
         "releasing"}
RecState == Live \cup {"terminal", "none"}

Ledger == [next : 1 .. MaxProject, rec : [Id -> RecState]]

(* `access' is "root" for a root-owned directory of mode 000, "owned" when *)
(* the checkout user owns it but the mode is still 000, and "checkout"     *)
(* once that user can enter it.  `full' says that it has entries.          *)
Directory == [linked : BOOLEAN, access : {"root", "owned", "checkout"},
              project : BOOLEAN, limits : BOOLEAN, full : BOOLEAN]

NoDirectory == [linked |-> FALSE, access |-> "root", project |-> FALSE,
                limits |-> FALSE, full |-> FALSE]

(* "undo" is the withdrawal that Ack runs when it fails half way.          *)
Call == {"allocate", "ack", "undo", "withdraw", "release", "reconcile"}
Step == {"reserve", "mkdir", "prepare", "limit", "ready", "offer",
         "grant", "chown", "activate",
         "revoke", "releasing", "remove", "unproject", "unlimit", "unlink",
         "complete", "reply"}
Result == {"ok", "completed", "denied", "retry"}

(* No call holds the mutex.                                                *)
Free == [call |-> "none"]

LedgerTypeOK ==
    /\ disk \in Ledger /\ mem \in Ledger
    /\ dir \in [Id -> Directory]
    /\ up \in {"down", "starting", "up"}
    /\ todo \subseteq Id
    /\ op # Free => /\ op.call \in Call /\ op.step \in Step
                    /\ op.id \in 0 .. MaxProject /\ op.result \in Result
    /\ proc \in [Id -> {"none", "runs", "open"}]  \* "open": it has a file open
    /\ misread \subseteq Id
    /\ faults \in 0 .. MaxFaults

(* A ledger freshly initialised by the operator, and no workspace.         *)
LedgerInit ==
    /\ disk = [next |-> 1, rec |-> [i \in Id |-> "none"]]
    /\ mem = disk
    /\ dir = [i \in Id |-> NoDirectory]
    /\ up = "down" /\ todo = {} /\ op = Free /\ faults = 0
    /\ proc = [i \in Id |-> "none"] /\ misread = {}

---------------------------------------------------------------------------
(* Steps of the call that holds the mutex.                                 *)

At(step) == op # Free /\ op.step = step
Goto(step) == op' = [op EXCEPT !.step = step]

(* The call is over.  A reconciliation or a withdrawal answers nobody, the *)
(* other calls answer their connection; an acknowledgement that failed     *)
(* answers with its failure whatever the withdrawal it ran came to.        *)
Finish(result) ==
    op' = IF op.call \in {"reconcile", "withdraw"} THEN Free
          ELSE [op EXCEPT !.step = "reply",
                          !.result = IF op.call = "undo" THEN "retry" ELSE result]

(* A system call fails, or the service is killed.                          *)
Fault == faults < MaxFaults /\ faults' = faults + 1
NoFault == UNCHANGED faults

Fails(result) == Fault /\ Finish(result)

Undo == op' = [op EXCEPT !.call = "undo", !.step = "revoke"]

With(ledger, i, state) == [ledger EXCEPT !.rec[i] = state]

(* writeLedgerAt: a temporary file, fsync, rename, fsync of the directory. *)
(* An error before the rename leaves the old file, an error after it the   *)
(* new one; in both cases the copy in memory stays as it was.              *)
Persist(new, Then, Else) ==
    \/ disk' = new /\ mem' = new /\ NoFault /\ Then
    \/ disk' \in {disk, new} /\ mem' = mem /\ Fault /\ Else

Applied(i) == dir[i].project /\ dir[i].limits

(* verifyRecordFD: same inode, expected owner and mode, quota in force.    *)
VerifyRecordFD(i, access) ==
    dir[i].linked /\ dir[i].access = access /\ Applied(i)

(* What getQuota counts against a project: the directory itself while it   *)
(* carries the project, its entries, and files a process still has open.   *)
Usage(i) ==
    {u \in {"directory", "entries", "open"} :
        CASE u = "directory" -> dir[i].project
          [] u = "entries" -> dir[i].full
          [] u = "open" -> proc[i] = "open"}

LedgerKept == UNCHANGED <<disk, mem>>
ServiceKept == UNCHANGED <<up, todo, proc, misread>>

(* Allocate, up to the record that reserves the identifier.                *)
Reserve ==
    /\ At("reserve")
    /\ IF op.id = MaxProject
       THEN Finish("retry") /\ LedgerKept /\ NoFault
       ELSE Persist([With(mem, op.id, "reserved") EXCEPT !.next = op.id + 1],
                    Goto("mkdir"), Finish("retry"))
    /\ UNCHANGED dir /\ ServiceKept

(* The directory must not exist yet; it is created root-owned, mode 000.   *)
Mkdir ==
    /\ At("mkdir")
    /\ \/ /\ ~dir[op.id].linked
          /\ dir' = [dir EXCEPT ![op.id].linked = TRUE]
          /\ Goto("prepare") /\ NoFault
       \/ Fails("retry") /\ UNCHANGED dir
    /\ LedgerKept /\ ServiceKept

(* The record learns the directory's inode.                                *)
Prepare ==
    /\ At("prepare")
    /\ Persist(With(mem, op.id, "preparing"), Goto("limit"), Finish("retry"))
    /\ UNCHANGED dir /\ ServiceKept

(* setProject, setLimits and verifyApplied; each may fail after the ones   *)
(* before it took effect.                                                  *)
Limit ==
    /\ At("limit")
    /\ \E p, l \in BOOLEAN :
         /\ l => p
         /\ dir' = [dir EXCEPT ![op.id].project = p, ![op.id].limits = l]
         /\ \/ l /\ Goto("ready") /\ NoFault
            \/ Fails("retry")
    /\ LedgerKept /\ ServiceKept

Ready ==
    /\ At("ready")
    /\ Persist(With(mem, op.id, "ready"), Goto("offer"), Finish("retry"))
    /\ UNCHANGED dir /\ ServiceKept

Offer ==
    /\ At("offer")
    /\ Persist(With(mem, op.id, "offered"), Finish("ok"), Finish("retry"))
    /\ UNCHANGED dir /\ ServiceKept

---------------------------------------------------------------------------
(* Ack: the record passes through "granting" before the directory changes  *)
(* hands, so that a restart takes the directory back.                      *)

Grant ==
    /\ At("grant")
    /\ IF mem.rec[op.id] = "offered" /\ VerifyRecordFD(op.id, "root")
       THEN \/ Persist(With(mem, op.id, "granting"), Goto("chown"), Finish("retry"))
            \/ Fails("denied") /\ LedgerKept
       ELSE Finish("denied") /\ LedgerKept /\ NoFault
    /\ UNCHANGED dir /\ ServiceKept

(* Fchown, Fchmod and the check of both.  After an error the offer is      *)
(* withdrawn under the same mutex and the caller gets the error.           *)
Chown ==
    /\ At("chown")
    /\ \E a \in {"root", "owned", "checkout"} :
         /\ dir' = [dir EXCEPT ![op.id].access = a]
         /\ \/ a = "checkout" /\ Goto("activate") /\ NoFault
            \/ Fault /\ Undo
    /\ LedgerKept /\ ServiceKept

Activate ==
    /\ At("activate")
    /\ Persist(With(mem, op.id, "active"), Finish("ok"), Undo)
    /\ UNCHANGED dir /\ ServiceKept

---------------------------------------------------------------------------
(* withdrawOfferLocked, Release and cleanupLocked.                         *)

(* A failing call of this part answers "denied" for some errors, "retry"   *)
(* for others.                                                             *)
CleanupFails == Fails("retry") \/ Fails("denied")

(* Which records a call may revoke.  The withdrawal inside Ack and the one *)
(* of a connection look for an offered or granting record, Release for an  *)
(* active or releasing one.                                                *)
Revocable ==
    IF op.call = "release" THEN {"active", "releasing"} ELSE {"offered", "granting"}

(* Mutant: the intent is recorded before the directory is taken back.      *)
RevokeLater ==
    /\ At("revoke")
    /\ IF mem.rec[op.id] \in Revocable THEN Goto("releasing") ELSE Finish("denied")
    /\ UNCHANGED dir /\ NoFault /\ LedgerKept /\ ServiceKept

Revoke ==
    /\ At("revoke")
    /\ \/ /\ mem.rec[op.id] \in Revocable
          /\ \/ /\ dir' = [dir EXCEPT ![op.id].access = "root"]
                /\ \/ Goto("releasing") /\ NoFault
                   \/ CleanupFails
             \/ CleanupFails /\ UNCHANGED dir
       \/ /\ mem.rec[op.id] \notin Revocable
          /\ Finish(IF op.call = "release" /\ mem.rec[op.id] = "terminal"
                    THEN "completed" ELSE "denied")
          /\ UNCHANGED dir /\ NoFault
    /\ LedgerKept /\ ServiceKept

(* The intent to clean up is recorded before anything is deleted.  A       *)
(* reconciliation leaves the deletion to a later restart or release.       *)
Releasing ==
    /\ At("releasing")
    /\ Persist(With(mem, op.id, "releasing"),
               IF op.call = "reconcile" THEN Finish("ok") ELSE Goto("remove"),
               Finish("retry"))
    /\ UNCHANGED dir /\ ServiceKept

(* removeWorkspaceContents and emptyDir.  A directory that an earlier      *)
(* attempt has unlinked can no longer be listed.  Entries that a child     *)
(* creates meanwhile make the removal fail, as do the limits on depth,     *)
(* entries and time.  A reconciled record that never was granted must      *)
(* still show the quota it was prepared with.                              *)
Remove ==
    /\ At("remove")
    /\ \/ /\ dir[op.id].linked
          /\ dir' = [dir EXCEPT ![op.id].full = FALSE]
          /\ IF /\ op.call = "reconcile"
                /\ mem.rec[op.id] \in {"ready", "offered"}
                /\ ~VerifyRecordFD(op.id, "root")
             THEN Finish("retry")
             ELSE Goto("unproject")
          /\ NoFault
       \/ ~dir[op.id].linked /\ Finish("denied") /\ UNCHANGED dir /\ NoFault
       \/ /\ proc[op.id] = "open"
          /\ Finish("retry") \/ Finish("denied")
          /\ UNCHANGED dir /\ NoFault
       \/ CleanupFails /\ UNCHANGED dir
    /\ LedgerKept /\ ServiceKept

Unproject ==
    /\ At("unproject")
    /\ \/ dir' = [dir EXCEPT ![op.id].project = FALSE] /\ Goto("unlimit") /\ NoFault
       \/ Fails("retry") /\ UNCHANGED dir
    /\ LedgerKept /\ ServiceKept

(* Mutant: the limits are cleared without looking at the usage.            *)
UnlimitAtOnce ==
    /\ At("unlimit")
    /\ dir' = [dir EXCEPT ![op.id].limits = FALSE]
    /\ Goto("unlink") /\ NoFault /\ LedgerKept /\ ServiceKept

(* The limits go only when the kernel counts nothing against the project;  *)
(* a process that still holds deleted files open is counted.               *)
Unlimit ==
    /\ At("unlimit")
    /\ \/ /\ Usage(op.id) = {}
          /\ dir' = [dir EXCEPT ![op.id].limits = FALSE]
          /\ Goto("unlink") /\ NoFault
       \/ Usage(op.id) # {} /\ Finish("retry") /\ UNCHANGED dir /\ NoFault
       \/ Fails("retry") /\ UNCHANGED dir
    /\ LedgerKept /\ ServiceKept

Unlink ==
    /\ At("unlink")
    /\ \/ dir' = [dir EXCEPT ![op.id].linked = FALSE] /\ Goto("complete") /\ NoFault
       \/ Fails("retry") /\ UNCHANGED dir
    /\ LedgerKept /\ ServiceKept

(* completeLocked: the record becomes a terminal entry that answers        *)
(* repeated releases; pruneTerminal forgets entries that are too old.      *)
Complete ==
    /\ At("complete")
    /\ \E old \in SUBSET {i \in Id \ {op.id} : mem.rec[i] = "terminal"} :
         LET pruned == [i \in Id |-> IF i \in old THEN "none" ELSE mem.rec[i]]
         IN Persist([mem EXCEPT !.rec = [pruned EXCEPT ![op.id] = "terminal"]],
                    Finish("ok"), Finish("retry"))
    /\ UNCHANGED dir /\ ServiceKept

---------------------------------------------------------------------------
(* Restart and reconciliation.                                             *)

(* validLedger: every record lies below the next identifier.               *)
ValidLedger(l) == \A i \in Id : l.rec[i] # "none" => i < l.next

(* New: the lock file keeps a second service out; the ledger is read back  *)
(* and refused when it is not valid.                                       *)
StartService ==
    /\ up = "down" /\ ValidLedger(disk)
    /\ up' = "starting"
    /\ todo' = {i \in Id : disk.rec[i] \in Live}
    /\ UNCHANGED <<disk, mem, dir, op, proc, misread, faults>>

Visit(i) == todo' = todo \ {i} /\ UNCHANGED <<up, proc>>

(* A reconciliation goes on with the record i at this step.                *)
Continue(i, step) ==
    op' = [call |-> "reconcile", id |-> i, step |-> step, result |-> "retry"]

(* A record whose directory cannot be opened or looked at is left alone.   *)
Unseen == Fault /\ UNCHANGED <<dir, op>>

(* A reserved record without a directory is dropped; with one it stays as  *)
(* it is, because nothing proves whose directory that is.                  *)
ReconcileReserved(i) ==
    /\ mem.rec[i] = "reserved"
    /\ \/ dir[i].linked /\ LedgerKept /\ NoFault
       \/ ~dir[i].linked /\ Persist(With(mem, i, "none"), TRUE, TRUE)
       \/ Unseen /\ LedgerKept
    /\ UNCHANGED <<dir, op, misread>> /\ Visit(i)

(* Mutant: every active record is revoked.                                 *)
ReconcileActiveRevokes(i) ==
    /\ mem.rec[i] = "active"
    /\ dir' = [dir EXCEPT ![i].access = "root"]
    /\ Continue(i, "releasing")
    /\ NoFault /\ UNCHANGED misread /\ LedgerKept /\ Visit(i)

(* A healthy active record is left alone; any other is taken back and then *)
(* marked.  A call that fails makes a record look unhealthy: when the      *)
(* directory cannot be opened it is marked and not taken back, and when    *)
(* the checks of an open directory fail it is both.                        *)
ReconcileActive(i) ==
    /\ mem.rec[i] = "active"
    /\ \/ VerifyRecordFD(i, "checkout") /\ NoFault /\ UNCHANGED <<dir, op, misread>>
       \/ /\ ~VerifyRecordFD(i, "checkout")
          /\ dir' = [dir EXCEPT ![i].access = "root"]
          /\ Continue(i, "releasing")
          /\ NoFault /\ UNCHANGED misread
       \/ /\ Fault
          /\ dir' \in {dir, [dir EXCEPT ![i].access = "root"]}
          /\ Continue(i, "releasing")
          /\ misread' = misread \cup {i}
       \/ Unseen /\ UNCHANGED misread
    /\ LedgerKept /\ Visit(i)

Interrupted == Live \ {"reserved", "active"}

(* The directory is gone: what is left is the accounting and the record.   *)
ReconcileGone(i) ==
    /\ mem.rec[i] \in Interrupted /\ ~dir[i].linked
    /\ \/ /\ Usage(i) = {}
          /\ dir' = [dir EXCEPT ![i].limits = FALSE]
          /\ Continue(i, "complete")
          /\ NoFault
       \/ Usage(i) # {} /\ UNCHANGED <<dir, op>> /\ NoFault
       \/ Unseen
    /\ UNCHANGED misread /\ LedgerKept /\ Visit(i)

(* Otherwise the workspace is taken back first, then cleaned up.           *)
ReconcileInterrupted(i) ==
    /\ mem.rec[i] \in Interrupted /\ dir[i].linked
    /\ \/ /\ dir' = [dir EXCEPT ![i].access = "root"]
          /\ Continue(i, "remove")
          /\ NoFault
       \/ Unseen
    /\ UNCHANGED misread /\ LedgerKept /\ Visit(i)

(* A workspace that cannot be revoked, or not entirely, makes New fail.    *)
ReconcileFails(i) ==
    /\ dir[i].linked /\ mem.rec[i] \in Interrupted \cup {"active"}
    /\ dir' \in {dir, [dir EXCEPT ![i].access = "root"]}
    /\ misread' = misread \cup {i}
    /\ up' = "down" /\ todo' = {} /\ mem' = disk /\ Fault
    /\ UNCHANGED <<disk, op, proc>>

Reconcile ==
    /\ up = "starting" /\ op = Free
    /\ \E i \in todo : \/ ReconcileReserved(i)
                       \/ ReconcileActive(i)
                       \/ ReconcileGone(i)
                       \/ ReconcileInterrupted(i)
                       \/ ReconcileFails(i)

(* New returned; Serve listens.                                            *)
StartServing ==
    /\ up = "starting" /\ op = Free /\ todo = {}
    /\ up' = "up"
    /\ UNCHANGED <<disk, mem, dir, todo, op, proc, misread, faults>>

(* The service process is killed.                                          *)
KillService ==
    /\ up # "down"
    /\ up' = "down" /\ todo' = {} /\ op' = Free /\ mem' = disk /\ Fault
    /\ UNCHANGED <<disk, dir, proc, misread>>

(* One step of the call in progress.                                       *)
ServiceStep ==
    \/ Reserve \/ Mkdir \/ Prepare \/ Limit \/ Ready \/ Offer
    \/ Grant \/ Chown \/ Activate
    \/ Revoke \/ Releasing \/ Remove \/ Unproject \/ Unlimit \/ Unlink
    \/ Complete
=============================================================================
