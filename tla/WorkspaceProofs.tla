--------------------------- MODULE WorkspaceProofs --------------------------
(***************************************************************************)
(* Proofs about the checkout quota service and its clients, for any number *)
(* of clients, identifiers, faults and Git operations.                     *)
(***************************************************************************)
EXTENDS GitWorkspace, TLAPS

Calls == {"allocate", "ack", "undo", "withdraw", "release"}

\* The steps after the early ones, in which a call changes its workspace.
Building == {"mkdir", "prepare", "limit", "ready", "offer"}
Granting == {"chown", "activate"}
Cleaning == {"releasing", "remove", "unproject", "unlimit", "unlink", "complete"}

\* The fields of the call that holds the mutex.
OpShape ==
    \/ op = Free
    \/ /\ op.call \in Calls
       /\ op = [call |-> op.call, step |-> op.step, c |-> op.c, live |-> op.live, id |-> op.id,
                result |-> op.result]
    \/ /\ op.call = "reconcile"
       /\ op = [call |-> op.call, id |-> op.id, step |-> op.step, result |-> op.result]

LedgerRows ==
    /\ disk \in Ledger /\ mem \in Ledger
    /\ dir \in [Id -> Directory]
    /\ proc \in [Id -> {"none", "runs", "open"}]
    /\ todo \subseteq Id

\* The file is never behind the copy in memory.
Ahead == mem.next <= disk.next /\ ValidLedger(mem) /\ ValidLedger(disk)

\* States of a record that is no longer, or not yet, in use.
Over == {"terminal", "none"}

\* Nothing but the directory itself was made for the identifier.
Bare(i) ==
    /\ dir[i].access = "root" /\ ~dir[i].project /\ ~dir[i].limits /\ ~dir[i].full
    /\ proc[i] # "open"

Gone(i) == Bare(i) /\ ~dir[i].linked

\* What a state of a record, on disk or in memory, says of the workspace.  A
\* releasing one is in reach only if a restart could not look at it.
Accounts(state, i) ==
    /\ state \in Over => Gone(i)
    /\ state = "reserved" => Bare(i)
    /\ dir[i].access # "root" => \/ state \in {"granting", "active"}
                                 \/ state = "releasing" /\ i \in misread

\* A workspace the checkout user can reach exists and is under quota, and what
\* is written in it is counted.  Where memory and disk differ, the disk is ahead.
Row(i) ==
    /\ Accounts(mem.rec[i], i) /\ Accounts(disk.rec[i], i)
    /\ dir[i].access # "root" => /\ dir[i].linked /\ Applied(i)
                                 /\ mem.rec[i] = "active" => disk.rec[i] = "active" \/ i \in misread
    /\ dir[i].full \/ proc[i] = "open" => dir[i].limits
    /\ i < mem.next /\ mem.rec[i] \in Over => disk.rec[i] \in Over

-----------------------------------------------------------------------------
\* A record gets a new state and the others keep theirs.
LEMMA WithRecord ==
    ASSUME NEW l \in Ledger, NEW i \in Id, NEW state \in RecState
    PROVE  LET n == With(l, i, state)
           IN  /\ n \in Ledger /\ n.next = l.next /\ n.rec[i] = state
               /\ \A j \in Id \ {i} : n.rec[j] = l.rec[j]
  BY Zenon DEF Ledger, With

-----------------------------------------------------------------------------
\* The step leaves the workspace j alone: its record is at most pruned, or
\* rewritten on disk from memory.
Elsewhere(j) ==
    /\ dir'[j] = dir[j] /\ proc'[j] = proc[j] /\ (j \in misread => j \in misread')
    /\ mem'.rec[j] = mem.rec[j] \/ (mem.rec[j] = "terminal" /\ mem'.rec[j] = "none")
    /\ \/ disk'.rec[j] \in {disk.rec[j], mem.rec[j]}
       \/ mem.rec[j] = "terminal" /\ disk'.rec[j] = "none"
    /\ j < mem'.next => j < mem.next

\* Such a step keeps what its row says.
LEMMA RowElsewhere ==
    ASSUME NEW j \in Id, Row(j), Elsewhere(j)
    PROVE  Row(j)'
  <1>1. Applied(j)' = Applied(j) /\ (Bare(j) => Bare(j)') /\ (Gone(j) => Gone(j)')
    BY Zenon DEF Elsewhere, Applied, Bare, Gone
  <1>2. ASSUME NEW state, Accounts(state, j) PROVE Accounts(state, j)'
    BY Zenon, <1>1, <1>2 DEF Accounts, Elsewhere
  <1>3. Accounts("terminal", j) => Accounts("none", j)
    BY Zenon DEF Accounts, Over
  <1> QED
    BY Zenon, <1>1, <1>2, <1>3 DEF Row, Elsewhere, Over

\* The ledger n is the one in memory with another state for one record, the
\* old terminal entries perhaps pruned.
Rewrites(n, i, state) ==
    /\ n \in Ledger /\ n.rec[i] = state
    /\ \A j \in Id \ {i} : n.rec[j] = mem.rec[j] \/ (mem.rec[j] = "terminal" /\ n.rec[j] = "none")
    /\ \/ n.next = mem.next
       \/ i = mem.next /\ n.next = i + 1

\* The outcomes of a write of the ledger.
Written(n) == disk' = n /\ mem' = n
Failed(n) == disk' \in {disk, n} /\ mem' = mem

\* A write leaves the other workspaces alone and the file ahead.
LEMMA WriteElsewhere ==
    ASSUME LedgerRows, Ahead, NEW i \in Id, NEW state \in RecState, NEW n, Rewrites(n, i, state),
           Written(n) \/ Failed(n),
           state # "none" => i < n.next,
           NEW j \in Id \ {i}, dir'[j] = dir[j], proc'[j] = proc[j], misread \subseteq misread'
    PROVE  Elsewhere(j)
  <1>1. i \in Nat /\ j \in Nat /\ mem.next \in Nat /\ n.next \in Nat
    BY MaxProjectAssumption DEF Id, LedgerRows, Ledger, Rewrites
  <1>2. j < n.next => j < mem.next
    BY <1>1 DEF Rewrites
  <1> QED
    BY Zenon, <1>2 DEF Elsewhere, Rewrites, Written, Failed

\* A write keeps the ledgers valid and the file ahead.
LEMMA WriteAhead ==
    ASSUME LedgerRows, Ahead, NEW i \in Id, NEW state \in RecState, NEW n, Rewrites(n, i, state),
           Written(n) \/ Failed(n),
           state # "none" => i < n.next
    PROVE  Ahead' /\ disk' \in Ledger /\ mem' \in Ledger /\ mem.next <= mem'.next
  <1>1. i \in Nat /\ mem.next \in Nat /\ n.next \in Nat /\ disk.next \in Nat
    BY MaxProjectAssumption DEF Id, LedgerRows, Ledger, Rewrites
  <1>2. mem.next <= n.next
    BY <1>1 DEF Rewrites
  <1>3. ValidLedger(n)
    <2> SUFFICES ASSUME NEW j \in Id, n.rec[j] # "none" PROVE j < n.next
      BY Zenon DEF ValidLedger
    <2>1. CASE j = i
      BY Zenon, <2>1 DEF Rewrites
    <2>2. CASE j # i
      <3>1. mem.rec[j] # "none"
        BY Zenon, <2>2 DEF Rewrites
      <3>2. j < mem.next /\ j \in Nat
        BY <3>1, MaxProjectAssumption DEF Ahead, ValidLedger, Id
      <3> QED
        BY <1>1, <1>2, <3>2
    <2> QED
      BY Zenon, <2>1, <2>2
  <1>5. n \in Ledger
    BY Zenon DEF Rewrites
  <1>6. CASE Written(n)
    <2>1. mem' = n /\ disk' = n
      BY Zenon, <1>6 DEF Written
    <2>2. ValidLedger(mem)' /\ ValidLedger(disk)'
      BY Zenon, <1>3, <2>1 DEF ValidLedger
    <2>3. n.next <= n.next
      BY <1>1
    <2> QED
      BY Zenon, <1>2, <1>5, <2>1, <2>2, <2>3 DEF Ahead
  <1>7. CASE mem' = mem /\ disk' = disk
    BY <1>1, <1>7 DEF Ahead, ValidLedger, LedgerRows
  <1>8. CASE mem' = mem /\ disk' = n
    BY <1>1, <1>2, <1>3, <1>5, <1>8 DEF Ahead, ValidLedger, LedgerRows
  <1> QED
    BY Zenon, <1>6, <1>7, <1>8 DEF Failed

-----------------------------------------------------------------------------
(* The call that holds the mutex, by the step it is at. *)

Reserving == op.call = "allocate" /\ op.step = "reserve" /\ op.id = mem.next

Looking ==
    /\ op.id \in Id
    /\ \/ op.call = "ack" /\ op.step = "grant"
       \/ op.call \in {"undo", "withdraw", "release"} /\ op.step = "revoke"

\* An allocation in progress: every write so far succeeded.
IsBuilding ==
    /\ op.call = "allocate" /\ op.step \in Building /\ op.id \in Id
    /\ disk = mem
    /\ dir[op.id].access = "root" /\ ~dir[op.id].full /\ proc[op.id] # "open"
    /\ op.step \in {"mkdir", "prepare"} => mem.rec[op.id] = "reserved"
    /\ op.step \in {"limit", "ready"} => mem.rec[op.id] = "preparing"
    /\ op.step = "offer" => mem.rec[op.id] = "ready"

\* An acknowledgement that has written "granting".
IsGranting ==
    /\ op.call = "ack" /\ op.step \in Granting /\ op.id \in Id
    /\ disk = mem /\ mem.rec[op.id] = "granting"
    /\ dir[op.id].linked /\ Applied(op.id)

\* A cleanup that has taken the directory back, or a restart about to mark a
\* workspace that it could not look at.
IsCleaning ==
    /\ op.call \in {"undo", "withdraw", "release", "reconcile"} /\ op.step \in Cleaning /\ op.id \in Id
    /\ mem.rec[op.id] \in Live \ {"reserved"}
    /\ \/ dir[op.id].access = "root"
       \/ op.step = "releasing" /\ op.call = "reconcile" /\ op.id \in misread
    /\ op.call = "release" => mem.rec[op.id] \in {"active", "releasing"}
    /\ op.step \in {"unproject", "unlimit", "unlink"} => ~dir[op.id].full
    /\ op.step \in {"unlimit", "unlink"} => ~dir[op.id].project
    /\ op.step = "unlink" => ~dir[op.id].limits /\ proc[op.id] # "open"
    /\ op.step = "complete" => Gone(op.id)

\* An answer that says a call succeeded tells the state of the record.
Replying ==
    /\ op.call \in {"allocate", "ack", "undo", "release"} /\ op.step = "reply"
    /\ op.call # "allocate" \/ op.result = "ok" => op.id \in Id
    /\ op.call = "allocate" /\ op.result = "ok" => mem.rec[op.id] = "offered"
    /\ op.call = "ack" /\ op.result = "ok" => mem.rec[op.id] = "active"
    /\ op.call = "undo" => op.result = "retry"
    /\ op.call = "release" /\ op.result \in {"ok", "completed"} => mem.rec[op.id] = "terminal"

CallInv == op # Free => Reserving \/ Looking \/ IsBuilding \/ IsGranting \/ IsCleaning \/ Replying

LedgerInv == LedgerRows /\ OpShape /\ Ahead /\ (\A i \in Id : Row(i)) /\ CallInv

-----------------------------------------------------------------------------
(* What the steps of the call do to its record of itself. *)

\* It is the same call on the same connection.
SameCall ==
    /\ op # Free /\ op' # Free /\ OpShape'
    /\ op'.id = op.id
    /\ op'.call = op.call \/ (op.call = "ack" /\ op'.call = "undo")
    /\ op.call # "reconcile" => op'.c = op.c /\ op'.live = op.live

\* A step that goes on.
LEMMA GoesOn ==
    ASSUME OpShape, op # Free, NEW s, Goto(s)
    PROVE  SameCall /\ op'.step = s /\ op'.call = op.call
  BY Zenon DEF OpShape, Goto, SameCall, Calls, Free

\* A step that ends the call answers it, or nobody.
LEMMA Finishes ==
    ASSUME OpShape, op # Free, NEW result, Finish(result)
    PROVE  IF op.call \in {"reconcile", "withdraw"} THEN op' = Free
           ELSE /\ SameCall /\ op'.step = "reply" /\ op'.call = op.call
                /\ op.call \in Calls \ {"withdraw"}
                /\ op'.result = IF op.call = "undo" THEN "retry" ELSE result
  <1>1. CASE op.call \in {"reconcile", "withdraw"}
    BY Zenon, <1>1 DEF Finish
  <1>2. CASE op.call \notin {"reconcile", "withdraw"}
    <2> DEFINE result1 == IF op.call = "undo" THEN "retry" ELSE result
    <2>1. op.call \in Calls \ {"withdraw"}
          /\ op = [call |-> op.call, step |-> op.step, c |-> op.c, live |-> op.live, id |-> op.id,
                   result |-> op.result]
      BY Zenon, <1>2 DEF OpShape
    <2> HIDE DEF result1
    <2>2. op' = [call |-> op.call, step |-> "reply", c |-> op.c, live |-> op.live, id |-> op.id,
                 result |-> result1]
      BY Zenon, <1>2, <2>1 DEF Finish, result1
    <2> QED
      BY Zenon, <2>1, <2>2 DEF OpShape, SameCall, Calls, Free, result1
  <1> QED
    BY Zenon, <1>1, <1>2

\* A failed acknowledgement turns into its own withdrawal.
LEMMA Undoes ==
    ASSUME OpShape, op # Free, op.call = "ack", Undo
    PROVE  SameCall /\ op'.step = "revoke" /\ op'.call = "undo"
  BY Zenon DEF OpShape, Undo, SameCall, Calls, Free

-----------------------------------------------------------------------------
(* What a step of the service may do to a record, as its clients see it. *)

\* An offer is decided only by the call about it, a record that is over stays
\* over, and an active workspace that works and that no restart failed to look
\* at is taken away by its release only.
Keeps(j) ==
    /\ mem.rec[j] = "offered" /\ mem'.rec[j] # "offered" =>
          \/ up' = "down"
          \/ op # Free /\ op.id = j /\ op.call \in {"ack", "undo", "withdraw", "reconcile"}
    /\ j < mem.next /\ mem.rec[j] \in Over => mem'.rec[j] \in Over
    /\ dir'[j].access # dir[j].access =>
          \/ op # Free /\ op.id = j /\ op.call \in {"ack", "undo", "release"}
          \/ dir'[j].access = "root" /\ (mem.rec[j] # "active" \/ ~VerifyRecordFD(j, "checkout"))
          \/ j \in misread'
    /\ mem.rec[j] = "active" /\ mem'.rec[j] # "active" => dir'[j].access = "root" \/ j \in misread'
    /\ j \in misread => j \in misread'

\* A workspace no step of the call touches keeps its row.
LEMMA KeepsElsewhere ==
    ASSUME NEW j \in Id, Elsewhere(j)
    PROVE  Keeps(j)
  BY Zenon DEF Elsewhere, Keeps, Over

\* The new state of a record agrees with its workspace and with the old state.
Fits(state, i) ==
    /\ Accounts(state, i)
    /\ dir[i].access # "root" /\ mem.rec[i] = "active" => state = "active" \/ i \in misread
    /\ i < mem.next /\ mem.rec[i] \in Over => state \in Over

\* A write of a state that fits.
LEMMA WriteStep ==
    ASSUME LedgerRows, Ahead, \A j \in Id : Row(j),
           NEW i \in Id, NEW state \in RecState, NEW n, Rewrites(n, i, state),
           Written(n) \/ Failed(n), UNCHANGED <<dir, proc>>, todo' \subseteq Id /\ misread \subseteq misread',
           state # "none" => i < n.next, Fits(state, i),
           mem.rec[i] = "offered" => op # Free /\ op.id = i /\ op.call \in {"ack", "undo", "withdraw", "reconcile"}
    PROVE  /\ LedgerRows' /\ Ahead' /\ (\A j \in Id : Row(j)')
           /\ mem.next <= mem'.next /\ (\A j \in Id : Keeps(j))
           /\ Written(n) => mem'.rec[i] = state
  <1>1. Ahead' /\ disk' \in Ledger /\ mem' \in Ledger /\ mem.next <= mem'.next
    BY Zenon, WriteAhead
  <1>2. LedgerRows'
    BY Zenon, <1>1 DEF LedgerRows
  <1>3. ASSUME NEW j \in Id \ {i} PROVE Elsewhere(j)
    BY Zenon, WriteElsewhere
  <1>4. Row(i)'
    <2>1. Applied(i)' = Applied(i) /\ (Bare(i) => Bare(i)') /\ (Gone(i) => Gone(i)')
      BY Zenon DEF Applied, Bare, Gone
    <2>2. ASSUME NEW s \in {mem.rec[i], disk.rec[i], state}
          PROVE  /\ s \in Over => Gone(i)'
                 /\ s = "reserved" => Bare(i)'
                 /\ dir'[i].access # "root" => \/ s \in {"granting", "active"}
                                               \/ s = "releasing" /\ i \in misread'
      BY Zenon, <2>1 DEF Accounts, Row, Fits
    <2>3. \/ mem'.rec[i] = state /\ disk'.rec[i] = state
          \/ mem' = mem /\ disk'.rec[i] \in {disk.rec[i], state}
      BY Zenon DEF Rewrites, Written, Failed
    <2>4. Accounts(mem.rec[i], i)' /\ Accounts(disk.rec[i], i)'
      BY Zenon, <2>2, <2>3 DEF Accounts
    <2> QED
      BY Zenon, <2>1, <2>3, <2>4 DEF Row, Fits
  <1>5. Keeps(i)
    BY Zenon DEF Keeps, Fits, Rewrites, Written, Failed
  <1>6. \A j \in Id : Row(j)' /\ Keeps(j)
    BY Zenon, <1>3, <1>4, <1>5, RowElsewhere, KeepsElsewhere
  <1> QED
    BY Zenon, <1>1, <1>2, <1>6 DEF Written, Rewrites

\* A write of another state for a record that the ledger has.
LEMMA RecordStep ==
    ASSUME LedgerRows, Ahead, \A j \in Id : Row(j),
           NEW i \in Id, mem.rec[i] # "none", NEW state \in RecState,
           Written(With(mem, i, state)) \/ Failed(With(mem, i, state)),
           UNCHANGED <<dir, proc>>, todo' \subseteq Id /\ misread \subseteq misread', Fits(state, i),
           mem.rec[i] = "offered" => op # Free /\ op.id = i /\ op.call \in {"ack", "undo", "withdraw", "reconcile"}
    PROVE  /\ LedgerRows' /\ Ahead' /\ (\A j \in Id : Row(j)')
           /\ mem.next <= mem'.next /\ (\A j \in Id : Keeps(j))
           /\ Written(With(mem, i, state)) => mem'.rec[i] = state
  <1> DEFINE n == With(mem, i, state)
  <1>1. mem \in Ledger
    BY Zenon DEF LedgerRows
  <1>2. /\ n \in Ledger /\ n.next = mem.next /\ n.rec[i] = state
        /\ \A j \in Id \ {i} : n.rec[j] = mem.rec[j]
    BY Zenon, <1>1, WithRecord
  <1>3. Written(n) \/ Failed(n)
    BY Zenon
  <1>4. i < mem.next
    BY Zenon DEF Ahead, ValidLedger
  <1> HIDE DEF n
  <1>5. Rewrites(n, i, state)
    BY Zenon, <1>2 DEF Rewrites
  <1>6. /\ LedgerRows' /\ Ahead' /\ (\A j \in Id : Row(j)')
        /\ mem.next <= mem'.next /\ (\A j \in Id : Keeps(j))
        /\ Written(n) => mem'.rec[i] = state
    BY Zenon, <1>2, <1>3, <1>4, <1>5, WriteStep
  <1> QED
    BY Zenon, <1>6 DEF n

\* A step on one directory.
LEMMA DirectoryStep ==
    ASSUME LedgerRows, Ahead, \A j \in Id : Row(j),
           NEW i \in Id, dir' \in [Id -> Directory], \A j \in Id \ {i} : dir'[j] = dir[j],
           UNCHANGED <<disk, mem, proc>>, todo' \subseteq Id /\ misread \subseteq misread', Row(i)',
           dir'[i].access # dir[i].access =>
              \/ op # Free /\ op.id = i /\ op.call \in {"ack", "undo", "release"}
              \/ dir'[i].access = "root" /\ (mem.rec[i] # "active" \/ ~VerifyRecordFD(i, "checkout"))
              \/ i \in misread'
    PROVE  /\ LedgerRows' /\ Ahead' /\ (\A j \in Id : Row(j)')
           /\ mem.next <= mem'.next /\ (\A j \in Id : Keeps(j))
  <1>1. LedgerRows' /\ Ahead' /\ mem.next <= mem'.next
    BY DEF LedgerRows, Ahead, ValidLedger, Ledger
  <1>2. ASSUME NEW j \in Id \ {i} PROVE Elsewhere(j)
    BY Zenon DEF Elsewhere
  <1>3. Keeps(i)
    BY Zenon DEF Keeps
  <1> QED
    BY Zenon, <1>1, <1>2, <1>3, RowElsewhere, KeepsElsewhere

\* A step on neither.
LEMMA NoStep ==
    ASSUME LedgerRows, Ahead, \A j \in Id : Row(j),
           UNCHANGED <<disk, mem, dir, proc>>, todo' \subseteq Id /\ misread \subseteq misread'
    PROVE  /\ LedgerRows' /\ Ahead' /\ (\A j \in Id : Row(j)')
           /\ mem.next <= mem'.next /\ (\A j \in Id : Keeps(j))
  <1>1. LedgerRows' /\ Ahead' /\ mem.next <= mem'.next
    BY DEF LedgerRows, Ahead, ValidLedger, Ledger
  <1>2. ASSUME NEW j \in Id PROVE Elsewhere(j)
    BY Zenon DEF Elsewhere
  <1> QED
    BY Zenon, <1>1, <1>2, RowElsewhere, KeepsElsewhere

-----------------------------------------------------------------------------
(* The steps of the service. *)

\* The call goes on, is over, or a reconciliation begins.
CallEffect == op' = Free \/ SameCall \/ (op = Free /\ op' # Free /\ op'.call = "reconcile")

Effect == mem.next <= mem'.next /\ (\A j \in Id : Keeps(j)) /\ CallEffect

\* An answer that reports a failure promises nothing.
LEMMA FinishesBadly ==
    ASSUME OpShape, op # Free, op.call = "allocate" \/ op.id \in Id,
           NEW result \in {"retry", "denied"}, Finish(result)
    PROVE  OpShape' /\ CallInv' /\ CallEffect
  <1>1. CASE op' = Free
    BY Zenon, <1>1 DEF OpShape, CallInv, CallEffect
  <1>2. CASE op' # Free
    <2>1. /\ SameCall /\ op'.step = "reply" /\ op'.call = op.call
          /\ op.call \in Calls \ {"withdraw"} /\ op'.result \in {"retry", "denied"}
          /\ op.call = "undo" => op'.result = "retry"
      BY Zenon, <1>2, Finishes
    <2>2. Replying'
      BY Zenon, <2>1 DEF Replying, SameCall, Calls
    <2> QED
      BY Zenon, <2>1, <2>2 DEF CallInv, CallEffect, SameCall
  <1> QED
    BY Zenon, <1>1, <1>2

\* The call is at a step that only one kind of call reaches.
LEMMA AtStep ==
    ASSUME CallInv
    PROVE  /\ At("reserve") => Reserving
           /\ \A s \in Building : At(s) => IsBuilding
           /\ At("grant") \/ At("revoke") => Looking
           /\ \A s \in Granting : At(s) => IsGranting
           /\ \A s \in Cleaning : At(s) => IsCleaning
           /\ At("reply") => Replying
  BY Zenon DEF At, CallInv, Reserving, Looking, IsBuilding, IsGranting, IsCleaning, Replying,
         Building, Granting, Cleaning

\* Choosing an identifier and recording it, or refusing when none is left.
LEMMA ReserveStep ==
    ASSUME LedgerInv, Reserve
    PROVE  LedgerInv' /\ Effect
  <1>1. op # Free /\ Reserving /\ OpShape
    BY Zenon, AtStep DEF LedgerInv, Reserve, At
  <1>2. LedgerRows /\ Ahead /\ (\A j \in Id : Row(j)) /\ todo' \subseteq Id /\ misread \subseteq misread'
        /\ UNCHANGED <<dir, proc>>
    BY Zenon DEF LedgerInv, Reserve, ServiceKept, LedgerRows
  <1>3. CASE op.id = MaxProject
    <2>1. Finish("retry") /\ UNCHANGED <<disk, mem>>
      BY Zenon, <1>3 DEF Reserve, LedgerKept
    <2> QED
      BY Zenon, <1>1, <1>2, <2>1, NoStep, FinishesBadly DEF Reserving, LedgerInv, Effect
  <1>4. CASE op.id # MaxProject
    <2>0. PICK i : i = op.id
      BY Zenon
    <2>n. PICK n : n = [With(mem, i, "reserved") EXCEPT !.next = i + 1]
      BY Zenon
    <2>1. i \in Id /\ i = mem.next /\ i < i + 1
      BY <1>1, <1>2, <1>4, <2>0, MaxProjectAssumption DEF Reserving, LedgerRows, Ledger, Id
    <2>2. (Written(n) /\ Goto("mkdir")) \/ (Failed(n) /\ Finish("retry"))
      BY Zenon, <1>4, <2>0, <2>n DEF Reserve, Persist, Written, Failed
    <2>3. /\ n \in Ledger /\ n.next = i + 1 /\ n.rec[i] = "reserved"
          /\ \A j \in Id \ {i} : n.rec[j] = mem.rec[j]
      <3>1. mem \in Ledger
        BY Zenon, <1>2 DEF LedgerRows
      <3>2. PICK w : w = With(mem, i, "reserved")
        BY Zenon
      <3>3. "reserved" \in RecState
        BY Zenon DEF RecState, Live
      <3>4. w \in Ledger /\ w.rec[i] = "reserved" /\ \A j \in Id \ {i} : w.rec[j] = mem.rec[j]
        BY <3>1, <3>2, <3>3, <2>1, WithRecord
      <3>5. i + 1 \in 1 .. MaxProject
        BY <2>1, MaxProjectAssumption DEF Id
      <3>6. n = [w EXCEPT !.next = i + 1]
        BY Zenon, <2>n, <3>2
      <3> QED
        BY Zenon, <3>4, <3>5, <3>6 DEF Ledger
    <2>4. Rewrites(n, i, "reserved") /\ "reserved" \in RecState
      BY Zenon, <2>1, <2>3 DEF Rewrites, RecState, Live
    <2>5. mem.rec[i] = "none" /\ Gone(i)
      <3>1. ~(i < mem.next)
        BY <2>1, <1>2, MaxProjectAssumption DEF Id
      <3>2. mem.rec[i] = "none"
        BY Zenon, <3>1, <2>1, <1>2 DEF Ahead, ValidLedger
      <3> QED
        BY Zenon, <3>2, <2>1, <1>2 DEF Row, Accounts, Over
    <2>6. Fits("reserved", i)
      BY <2>1, <2>5, MaxProjectAssumption DEF Fits, Accounts, Gone, Bare, Over, Id
    <2>7. /\ LedgerRows' /\ Ahead' /\ (\A j \in Id : Row(j)')
          /\ mem.next <= mem'.next /\ (\A j \in Id : Keeps(j))
          /\ Written(n) => mem'.rec[i] = "reserved"
      BY Zenon, <1>2, <2>1, <2>2, <2>3, <2>4, <2>5, <2>6, WriteStep
    <2>8. CASE Written(n) /\ Goto("mkdir")
      <3>1. SameCall /\ op'.step = "mkdir" /\ op'.call = op.call
        BY Zenon, <1>1, <2>8, GoesOn
      <3>2. IsBuilding'
        BY Zenon, <3>1, <1>1, <1>2, <2>0, <2>1, <2>5, <2>7, <2>8
           DEF IsBuilding, Building, Reserving, SameCall, Written, Gone, Bare
      <3> QED
        BY Zenon, <3>1, <3>2, <2>7 DEF LedgerInv, Effect, CallEffect, CallInv, SameCall
    <2>9. CASE Failed(n) /\ Finish("retry")
      BY Zenon, <1>1, <2>7, <2>9, FinishesBadly DEF Reserving, LedgerInv, Effect
    <2> QED
      BY Zenon, <2>2, <2>8, <2>9
  <1> QED
    BY Zenon, <1>3, <1>4

\* Making the directory of a reserved record.
LEMMA MkdirStep ==
    ASSUME LedgerInv, Mkdir
    PROVE  LedgerInv' /\ Effect
  <1>0. PICK i : i = op.id
    BY Zenon
  <1>1. op # Free /\ op.step = "mkdir" /\ IsBuilding /\ OpShape /\ i \in Id
        /\ mem.rec[i] = "reserved" /\ disk = mem
    BY Zenon, <1>0, AtStep DEF LedgerInv, Mkdir, At, Building, IsBuilding
  <1>2. LedgerRows /\ Ahead /\ (\A j \in Id : Row(j)) /\ todo' \subseteq Id /\ misread \subseteq misread'
        /\ UNCHANGED <<disk, mem, proc>>
    BY Zenon DEF LedgerInv, Mkdir, LedgerKept, ServiceKept, LedgerRows
  <1>3. CASE dir' = [dir EXCEPT ![i].linked = TRUE] /\ Goto("prepare")
    <2>1. SameCall /\ op'.step = "prepare" /\ op'.call = op.call
      BY Zenon, <1>1, <1>3, GoesOn
    <2>2. /\ dir' \in [Id -> Directory] /\ \A j \in Id \ {i} : dir'[j] = dir[j]
          /\ dir'[i].linked /\ dir'[i].access = dir[i].access /\ dir'[i].project = dir[i].project
          /\ dir'[i].limits = dir[i].limits /\ dir'[i].full = dir[i].full
      BY ZenonT(60), <1>1, <1>2, <1>3 DEF LedgerRows, Directory
    <2>3. Row(i)'
      BY Zenon, <1>1, <1>2, <2>2 DEF Row, Accounts, Bare, Over, Applied
    <2>4. IsBuilding'
      BY Zenon, <1>0, <1>1, <1>2, <2>1, <2>2 DEF IsBuilding, Building, SameCall
    <2> QED
      BY Zenon, <1>1, <1>2, <2>1, <2>2, <2>3, <2>4, DirectoryStep
         DEF LedgerInv, Effect, CallEffect, CallInv, SameCall
  <1>4. CASE Finish("retry") /\ UNCHANGED dir
    BY Zenon, <1>0, <1>1, <1>2, <1>4, NoStep, FinishesBadly DEF LedgerInv, Effect
  <1> QED
    BY Zenon, <1>0, <1>3, <1>4 DEF Mkdir, Fails

\* Recording that the directory is being prepared.
LEMMA PrepareStep ==
    ASSUME LedgerInv, Prepare
    PROVE  LedgerInv' /\ Effect
  <1>0. PICK i : i = op.id
    BY Zenon
  <1>n. PICK n : n = With(mem, i, "preparing")
    BY Zenon
  <1>1. op # Free /\ op.step = "prepare" /\ IsBuilding /\ OpShape /\ i \in Id
        /\ mem.rec[i] = "reserved" /\ disk = mem
    BY Zenon, <1>0, AtStep DEF LedgerInv, Prepare, At, Building, IsBuilding
  <1>2. LedgerRows /\ Ahead /\ (\A j \in Id : Row(j)) /\ todo' \subseteq Id /\ misread \subseteq misread'
        /\ UNCHANGED <<dir, proc>>
    BY Zenon DEF LedgerInv, Prepare, ServiceKept, LedgerRows
  <1>3. (Written(n) /\ Goto("limit")) \/ (Failed(n) /\ Finish("retry"))
    BY Zenon, <1>0, <1>n DEF Prepare, Persist, Written, Failed
  <1>4. Fits("preparing", i) /\ "preparing" \in RecState
    BY Zenon, <1>0, <1>1 DEF IsBuilding, Fits, Accounts, Over, RecState, Live
  <1>5. /\ LedgerRows' /\ Ahead' /\ (\A j \in Id : Row(j)')
        /\ mem.next <= mem'.next /\ (\A j \in Id : Keeps(j))
        /\ Written(n) => mem'.rec[i] = "preparing"
    BY Zenon, <1>1, <1>2, <1>3, <1>4, <1>n, RecordStep
  <1>6. CASE Written(n) /\ Goto("limit")
    <2>1. SameCall /\ op'.step = "limit" /\ op'.call = op.call
      BY Zenon, <1>1, <1>6, GoesOn
    <2>2. IsBuilding'
      BY Zenon, <1>0, <1>1, <1>2, <1>5, <1>6, <2>1 DEF IsBuilding, Building, SameCall, Written
    <2> QED
      BY Zenon, <1>5, <2>1, <2>2 DEF LedgerInv, Effect, CallEffect, CallInv, SameCall
  <1>7. CASE Failed(n) /\ Finish("retry")
    BY Zenon, <1>0, <1>1, <1>5, <1>7, FinishesBadly DEF LedgerInv, Effect
  <1> QED
    BY Zenon, <1>3, <1>6, <1>7

\* Applying project, limit and access to the directory.
LEMMA LimitStep ==
    ASSUME LedgerInv, Limit
    PROVE  LedgerInv' /\ Effect
  <1>0. PICK i : i = op.id
    BY Zenon
  <1>1. op # Free /\ op.step = "limit" /\ IsBuilding /\ OpShape /\ i \in Id
        /\ mem.rec[i] = "preparing" /\ disk = mem
    BY Zenon, <1>0, AtStep DEF LedgerInv, Limit, At, Building, IsBuilding
  <1>2. LedgerRows /\ Ahead /\ (\A j \in Id : Row(j)) /\ todo' \subseteq Id /\ misread \subseteq misread'
        /\ UNCHANGED <<disk, mem, proc>>
    BY Zenon DEF LedgerInv, Limit, LedgerKept, ServiceKept, LedgerRows
  <1>3. PICK p \in BOOLEAN, l \in BOOLEAN :
           /\ dir' = [dir EXCEPT ![i].project = p, ![i].limits = l]
           /\ Goto("ready") \/ Finish("retry")
    BY Zenon, <1>0 DEF Limit, Fails
  <1>4. /\ dir' \in [Id -> Directory] /\ \A j \in Id \ {i} : dir'[j] = dir[j]
        /\ dir'[i].access = dir[i].access /\ dir'[i].full = dir[i].full
    <2>1. PICK d : d = [dir EXCEPT ![i].project = p]
      BY Zenon
    <2>2. /\ d \in [Id -> Directory] /\ \A j \in Id \ {i} : d[j] = dir[j]
          /\ d[i].access = dir[i].access /\ d[i].full = dir[i].full
      BY <1>1, <1>2, <2>1 DEF LedgerRows, Directory
    <2>3. dir' = [d EXCEPT ![i].limits = l]
      BY Zenon, <1>1, <1>2, <1>3, <2>1 DEF LedgerRows
    <2> QED
      BY <1>1, <2>2, <2>3 DEF Directory
  <1>5. dir[i].access = "root" /\ ~dir[i].full /\ proc[i] # "open"
    BY Zenon, <1>0, <1>1 DEF IsBuilding
  <1>6. Row(i)'
    BY Zenon, <1>1, <1>2, <1>4, <1>5 DEF Row, Accounts, Over
  <1>7. /\ LedgerRows' /\ Ahead' /\ (\A j \in Id : Row(j)')
        /\ mem.next <= mem'.next /\ (\A j \in Id : Keeps(j))
    BY Zenon, <1>1, <1>2, <1>4, <1>6, DirectoryStep
  <1>8. CASE Goto("ready")
    <2>1. SameCall /\ op'.step = "ready" /\ op'.call = op.call
      BY Zenon, <1>1, <1>8, GoesOn
    <2>2. IsBuilding'
      BY Zenon, <1>0, <1>1, <1>2, <1>4, <1>5, <2>1 DEF IsBuilding, Building, SameCall
    <2> QED
      BY Zenon, <1>7, <2>1, <2>2 DEF LedgerInv, Effect, CallEffect, CallInv, SameCall
  <1>9. CASE Finish("retry")
    BY Zenon, <1>0, <1>1, <1>7, <1>9, FinishesBadly DEF LedgerInv, Effect
  <1> QED
    BY Zenon, <1>3, <1>8, <1>9

\* Recording that the limit is in force.
LEMMA ReadyStep ==
    ASSUME LedgerInv, Ready
    PROVE  LedgerInv' /\ Effect
  <1>0. PICK i : i = op.id
    BY Zenon
  <1>n. PICK n : n = With(mem, i, "ready")
    BY Zenon
  <1>1. op # Free /\ op.step = "ready" /\ IsBuilding /\ OpShape /\ i \in Id
        /\ mem.rec[i] = "preparing"
    BY Zenon, <1>0, AtStep DEF LedgerInv, Ready, At, Building, IsBuilding
  <1>2. LedgerRows /\ Ahead /\ (\A j \in Id : Row(j)) /\ todo' \subseteq Id /\ misread \subseteq misread'
        /\ UNCHANGED <<dir, proc>>
    BY Zenon DEF LedgerInv, Ready, ServiceKept, LedgerRows
  <1>3. (Written(n) /\ Goto("offer")) \/ (Failed(n) /\ Finish("retry"))
    BY Zenon, <1>0, <1>n DEF Ready, Persist, Written, Failed
  <1>4. Fits("ready", i) /\ "ready" \in RecState
    BY Zenon, <1>0, <1>1 DEF IsBuilding, Fits, Accounts, Over, RecState, Live
  <1>5. /\ LedgerRows' /\ Ahead' /\ (\A j \in Id : Row(j)')
        /\ mem.next <= mem'.next /\ (\A j \in Id : Keeps(j))
        /\ Written(n) => mem'.rec[i] = "ready"
    BY Zenon, <1>1, <1>2, <1>3, <1>4, <1>n, RecordStep
  <1>6. CASE Written(n) /\ Goto("offer")
    <2>1. SameCall /\ op'.step = "offer" /\ op'.call = op.call
      BY Zenon, <1>1, <1>6, GoesOn
    <2>2. IsBuilding'
      BY Zenon, <1>0, <1>1, <1>2, <1>5, <1>6, <2>1 DEF IsBuilding, Building, SameCall, Written
    <2> QED
      BY Zenon, <1>5, <2>1, <2>2 DEF LedgerInv, Effect, CallEffect, CallInv, SameCall
  <1>7. CASE Failed(n) /\ Finish("retry")
    BY Zenon, <1>0, <1>1, <1>5, <1>7, FinishesBadly DEF LedgerInv, Effect
  <1> QED
    BY Zenon, <1>3, <1>6, <1>7

\* Recording that the workspace is offered to the client.
LEMMA OfferStep ==
    ASSUME LedgerInv, Offer
    PROVE  LedgerInv' /\ Effect
  <1>0. PICK i : i = op.id
    BY Zenon
  <1>n. PICK n : n = With(mem, i, "offered")
    BY Zenon
  <1>1. op # Free /\ op.step = "offer" /\ IsBuilding /\ OpShape /\ i \in Id
        /\ mem.rec[i] = "ready"
    BY Zenon, <1>0, AtStep DEF LedgerInv, Offer, At, Building, IsBuilding
  <1>2. LedgerRows /\ Ahead /\ (\A j \in Id : Row(j)) /\ todo' \subseteq Id /\ misread \subseteq misread'
        /\ UNCHANGED <<dir, proc>>
    BY Zenon DEF LedgerInv, Offer, ServiceKept, LedgerRows
  <1>3. (Written(n) /\ Finish("ok")) \/ (Failed(n) /\ Finish("retry"))
    BY Zenon, <1>0, <1>n DEF Offer, Persist, Written, Failed
  <1>4. Fits("offered", i) /\ "offered" \in RecState
    BY Zenon, <1>0, <1>1 DEF IsBuilding, Fits, Accounts, Over, RecState, Live
  <1>5. /\ LedgerRows' /\ Ahead' /\ (\A j \in Id : Row(j)')
        /\ mem.next <= mem'.next /\ (\A j \in Id : Keeps(j))
        /\ Written(n) => mem'.rec[i] = "offered"
    BY Zenon, <1>1, <1>2, <1>3, <1>4, <1>n, RecordStep
  <1>6. CASE Written(n) /\ Finish("ok")
    <2>1. SameCall /\ op'.step = "reply" /\ op'.call = op.call
      BY Zenon, <1>1, <1>6, Finishes DEF IsBuilding
    <2>2. Replying'
      BY Zenon, <1>0, <1>1, <1>5, <1>6, <2>1 DEF IsBuilding, Replying, SameCall
    <2> QED
      BY Zenon, <1>5, <2>1, <2>2 DEF LedgerInv, Effect, CallEffect, CallInv, SameCall
  <1>7. CASE Failed(n) /\ Finish("retry")
    BY Zenon, <1>0, <1>1, <1>5, <1>7, FinishesBadly DEF LedgerInv, Effect
  <1> QED
    BY Zenon, <1>3, <1>6, <1>7

\* Recording that the acknowledged workspace is being granted.
LEMMA GrantStep ==
    ASSUME LedgerInv, Grant
    PROVE  LedgerInv' /\ Effect
  <1>0. PICK i : i = op.id
    BY Zenon
  <1>n. PICK n : n = With(mem, i, "granting")
    BY Zenon
  <1>1. op # Free /\ op.call = "ack" /\ OpShape /\ i \in Id
    BY Zenon, <1>0, AtStep DEF LedgerInv, Grant, At, Looking
  <1>2. LedgerRows /\ Ahead /\ (\A j \in Id : Row(j)) /\ todo' \subseteq Id /\ misread \subseteq misread'
        /\ UNCHANGED <<dir, proc>>
    BY Zenon DEF LedgerInv, Grant, ServiceKept, LedgerRows
  <1>3. CASE UNCHANGED <<disk, mem>> /\ Finish("denied")
    BY Zenon, <1>0, <1>1, <1>2, <1>3, NoStep, FinishesBadly DEF LedgerInv, Effect
  <1>4. CASE /\ mem.rec[i] = "offered" /\ VerifyRecordFD(i, "root")
             /\ (Written(n) /\ Goto("chown")) \/ (Failed(n) /\ Finish("retry"))
    <2>1. Fits("granting", i) /\ "granting" \in RecState
      BY Zenon, <1>4 DEF Fits, Accounts, VerifyRecordFD, Over, RecState, Live
    <2>2. /\ LedgerRows' /\ Ahead' /\ (\A j \in Id : Row(j)')
          /\ mem.next <= mem'.next /\ (\A j \in Id : Keeps(j))
          /\ Written(n) => mem'.rec[i] = "granting"
      BY Zenon, <1>0, <1>1, <1>2, <1>4, <1>n, <2>1, RecordStep
    <2>3. CASE Written(n) /\ Goto("chown")
      <3>1. SameCall /\ op'.step = "chown" /\ op'.call = op.call
        BY Zenon, <1>1, <2>3, GoesOn
      <3>2. IsGranting'
        BY Zenon, <1>0, <1>1, <1>2, <1>4, <2>2, <2>3, <3>1
           DEF IsGranting, Granting, SameCall, Written, VerifyRecordFD, Applied
      <3> QED
        BY Zenon, <2>2, <3>1, <3>2 DEF LedgerInv, Effect, CallEffect, CallInv, SameCall
    <2>4. CASE Failed(n) /\ Finish("retry")
      BY Zenon, <1>0, <1>1, <2>2, <2>4, FinishesBadly DEF LedgerInv, Effect
    <2> QED
      BY Zenon, <1>4, <2>3, <2>4
  <1> QED
    BY Zenon, <1>0, <1>n, <1>3, <1>4 DEF Grant, Fails, LedgerKept, Persist, Written, Failed

\* Handing the directory to the client's user.
LEMMA ChownStep ==
    ASSUME LedgerInv, Chown
    PROVE  LedgerInv' /\ Effect
  <1>0. PICK i : i = op.id
    BY Zenon
  <1>1. op # Free /\ op.call = "ack" /\ OpShape /\ i \in Id /\ IsGranting
        /\ disk = mem /\ mem.rec[i] = "granting" /\ dir[i].linked /\ Applied(i)
    BY Zenon, <1>0, AtStep DEF LedgerInv, Chown, At, IsGranting, Granting
  <1>2. LedgerRows /\ Ahead /\ (\A j \in Id : Row(j)) /\ todo' \subseteq Id /\ misread \subseteq misread'
        /\ UNCHANGED <<disk, mem, proc>>
    BY Zenon DEF LedgerInv, Chown, LedgerKept, ServiceKept, LedgerRows
  <1>3. PICK a \in {"root", "owned", "checkout"} :
           dir' = [dir EXCEPT ![i].access = a] /\ (Goto("activate") \/ Undo)
    BY Zenon, <1>0 DEF Chown
  <1>4. /\ dir' \in [Id -> Directory] /\ \A j \in Id \ {i} : dir'[j] = dir[j]
        /\ dir'[i].linked = dir[i].linked /\ dir'[i].project = dir[i].project
        /\ dir'[i].limits = dir[i].limits /\ dir'[i].full = dir[i].full
    BY ZenonT(60), <1>1, <1>2, <1>3 DEF LedgerRows, Directory
  <1>5. Row(i)' /\ Applied(i)'
    BY Zenon, <1>1, <1>2, <1>4 DEF Row, Accounts, Over, Applied
  <1>6. /\ LedgerRows' /\ Ahead' /\ (\A j \in Id : Row(j)')
        /\ mem.next <= mem'.next /\ (\A j \in Id : Keeps(j))
    BY Zenon, <1>0, <1>1, <1>2, <1>4, <1>5, DirectoryStep
  <1>7. CASE Goto("activate")
    <2>1. SameCall /\ op'.step = "activate" /\ op'.call = op.call
      BY Zenon, <1>1, <1>7, GoesOn
    <2>2. IsGranting'
      BY Zenon, <1>0, <1>1, <1>2, <1>4, <1>5, <2>1 DEF IsGranting, Granting, SameCall
    <2> QED
      BY Zenon, <1>6, <2>1, <2>2 DEF LedgerInv, Effect, CallEffect, CallInv, SameCall
  <1>8. CASE Undo
    <2>1. SameCall /\ op'.step = "revoke" /\ op'.call = "undo"
      BY Zenon, <1>1, <1>8, Undoes
    <2> QED
      BY Zenon, <1>0, <1>1, <1>6, <2>1 DEF LedgerInv, Effect, CallEffect, CallInv, SameCall,
         Looking
  <1> QED
    BY Zenon, <1>3, <1>7, <1>8

\* Recording that the workspace is in use.
LEMMA ActivateStep ==
    ASSUME LedgerInv, Activate
    PROVE  LedgerInv' /\ Effect
  <1>0. PICK i : i = op.id
    BY Zenon
  <1>n. PICK n : n = With(mem, i, "active")
    BY Zenon
  <1>1. op # Free /\ op.call = "ack" /\ OpShape /\ i \in Id /\ mem.rec[i] = "granting"
    BY Zenon, <1>0, AtStep DEF LedgerInv, Activate, At, IsGranting, Granting
  <1>2. LedgerRows /\ Ahead /\ (\A j \in Id : Row(j)) /\ todo' \subseteq Id /\ misread \subseteq misread'
        /\ UNCHANGED <<dir, proc>>
    BY Zenon DEF LedgerInv, Activate, ServiceKept, LedgerRows
  <1>3. (Written(n) /\ Finish("ok")) \/ (Failed(n) /\ Undo)
    BY Zenon, <1>0, <1>n DEF Activate, Persist, Written, Failed
  <1>4. Fits("active", i) /\ "active" \in RecState
    BY Zenon, <1>1 DEF Fits, Accounts, Over, RecState, Live
  <1>5. /\ LedgerRows' /\ Ahead' /\ (\A j \in Id : Row(j)')
        /\ mem.next <= mem'.next /\ (\A j \in Id : Keeps(j))
        /\ Written(n) => mem'.rec[i] = "active"
    BY Zenon, <1>1, <1>2, <1>3, <1>4, <1>n, RecordStep
  <1>6. CASE Written(n) /\ Finish("ok")
    <2>1. SameCall /\ op'.step = "reply" /\ op'.call = op.call
      BY Zenon, <1>1, <1>6, Finishes
    <2>2. Replying'
      BY Zenon, <1>0, <1>1, <1>5, <1>6, <2>1 DEF Replying, SameCall
    <2> QED
      BY Zenon, <1>5, <2>1, <2>2 DEF LedgerInv, Effect, CallEffect, CallInv, SameCall
  <1>7. CASE Failed(n) /\ Undo
    <2>1. SameCall /\ op'.step = "revoke" /\ op'.call = "undo"
      BY Zenon, <1>1, <1>7, Undoes
    <2> QED
      BY Zenon, <1>0, <1>1, <1>5, <2>1 DEF LedgerInv, Effect, CallEffect, CallInv, SameCall,
         Looking
  <1> QED
    BY Zenon, <1>3, <1>6, <1>7

\* Looking the record up and taking the directory back.
LEMMA RevokeStep ==
    ASSUME LedgerInv, Revoke
    PROVE  LedgerInv' /\ Effect
  <1>0. PICK i : i = op.id
    BY Zenon
  <1>1. op # Free /\ op.step = "revoke" /\ op.call \in {"undo", "withdraw", "release"} /\ OpShape /\ i \in Id
    BY Zenon, <1>0, AtStep DEF LedgerInv, Revoke, At, Looking
  <1>2. LedgerRows /\ Ahead /\ (\A j \in Id : Row(j)) /\ todo' \subseteq Id /\ misread \subseteq misread'
        /\ UNCHANGED <<disk, mem, proc>>
    BY Zenon DEF LedgerInv, Revoke, LedgerKept, ServiceKept, LedgerRows
  <1>3. CASE /\ mem.rec[i] \in Revocable /\ dir' = [dir EXCEPT ![i].access = "root"]
             /\ Goto("releasing") \/ Finish("retry") \/ Finish("denied")
    <2>1. /\ dir' \in [Id -> Directory] /\ \A j \in Id \ {i} : dir'[j] = dir[j]
          /\ dir'[i].access = "root" /\ dir'[i].linked = dir[i].linked /\ dir'[i].project = dir[i].project
          /\ dir'[i].limits = dir[i].limits /\ dir'[i].full = dir[i].full
      BY <1>1, <1>2, <1>3 DEF LedgerRows, Directory
    <2>2. Row(i)'
      BY Zenon, <1>1, <1>2, <2>1 DEF Row, Accounts, Gone, Bare, Over
    <2>3. /\ LedgerRows' /\ Ahead' /\ (\A j \in Id : Row(j)')
          /\ mem.next <= mem'.next /\ (\A j \in Id : Keeps(j))
      BY Zenon, <1>0, <1>1, <1>2, <1>3, <2>1, <2>2, DirectoryStep DEF Revocable
    <2>4. CASE Goto("releasing")
      <3>1. SameCall /\ op'.step = "releasing" /\ op'.call = op.call
        BY Zenon, <1>1, <2>4, GoesOn
      <3>2. IsCleaning'
        BY <1>0, <1>1, <1>2, <1>3, <2>1, <3>1 DEF IsCleaning, Cleaning, SameCall, Revocable,
           Live
      <3> QED
        BY Zenon, <2>3, <3>1, <3>2 DEF LedgerInv, Effect, CallEffect, CallInv, SameCall
    <2>5. CASE Finish("retry") \/ Finish("denied")
      BY Zenon, <1>0, <1>1, <2>3, <2>5, FinishesBadly DEF LedgerInv, Effect
    <2> QED
      BY Zenon, <1>3, <2>4, <2>5
  <1>4. CASE (Finish("retry") \/ Finish("denied")) /\ UNCHANGED dir
    BY Zenon, <1>0, <1>1, <1>2, <1>4, NoStep, FinishesBadly DEF LedgerInv, Effect
  <1>5. CASE op.call = "release" /\ mem.rec[i] = "terminal" /\ Finish("completed") /\ UNCHANGED dir
    <2>1. SameCall /\ op'.step = "reply" /\ op'.call = op.call
      BY Zenon, <1>1, <1>5, Finishes
    <2>2. Replying'
      BY Zenon, <1>0, <1>1, <1>2, <1>5, <2>1 DEF Replying, SameCall
    <2> QED
      BY Zenon, <1>2, <1>5, <2>1, <2>2, NoStep DEF LedgerInv, Effect, CallEffect, CallInv,
         SameCall
  <1> QED
    BY Zenon, <1>0, <1>3, <1>4, <1>5 DEF Revoke, CleanupFails, Fails

\* Recording that the workspace is being released.
LEMMA ReleasingStep ==
    ASSUME LedgerInv, Releasing
    PROVE  LedgerInv' /\ Effect
  <1>0. PICK i : i = op.id
    BY Zenon
  <1>n. PICK n : n = With(mem, i, "releasing")
    BY Zenon
  <1>1. op # Free /\ op.step = "releasing" /\ OpShape /\ i \in Id /\ IsCleaning
        /\ mem.rec[i] \in Live /\ (dir[i].access = "root" \/ i \in misread)
    BY Zenon, <1>0, AtStep DEF LedgerInv, Releasing, At, IsCleaning, Cleaning
  <1>2. LedgerRows /\ Ahead /\ (\A j \in Id : Row(j)) /\ todo' \subseteq Id /\ misread \subseteq misread'
        /\ UNCHANGED <<dir, proc>>
    BY Zenon DEF LedgerInv, Releasing, ServiceKept, LedgerRows
  <1>3. \/ Written(n) /\ (IF op.call = "reconcile" THEN Finish("ok") ELSE Goto("remove"))
        \/ Failed(n) /\ Finish("retry")
    BY Zenon, <1>0, <1>n DEF Releasing, Persist, Written, Failed
  <1>4. Fits("releasing", i) /\ "releasing" \in RecState /\ mem.rec[i] # "none"
    BY Zenon, <1>1 DEF Fits, Accounts, Over, RecState, Live
  <1>5. mem.rec[i] = "offered" => op.call \in {"ack", "undo", "withdraw", "reconcile"}
    BY Zenon, <1>0, <1>1 DEF IsCleaning
  <1>6. /\ LedgerRows' /\ Ahead' /\ (\A j \in Id : Row(j)')
        /\ mem.next <= mem'.next /\ (\A j \in Id : Keeps(j))
        /\ Written(n) => mem'.rec[i] = "releasing"
    BY Zenon, <1>0, <1>1, <1>2, <1>3, <1>4, <1>5, <1>n, RecordStep
  <1>7. CASE Written(n) /\ op.call # "reconcile" /\ Goto("remove")
    <2>0. dir[i].access = "root"
      BY Zenon, <1>0, <1>1, <1>7 DEF IsCleaning
    <2>1. SameCall /\ op'.step = "remove" /\ op'.call = op.call
      BY Zenon, <1>1, <1>7, GoesOn
    <2>2. IsCleaning'
      BY Zenon, <1>0, <1>1, <1>2, <1>6, <1>7, <2>0, <2>1 DEF IsCleaning, Cleaning, SameCall, Live
    <2> QED
      BY Zenon, <1>6, <2>1, <2>2 DEF LedgerInv, Effect, CallEffect, CallInv, SameCall
  <1>8. CASE Failed(n) /\ Finish("retry")
    BY Zenon, <1>0, <1>1, <1>6, <1>8, FinishesBadly DEF LedgerInv, Effect
  <1>9. CASE op.call = "reconcile" /\ Finish("ok")
    <2>1. op' = Free
      BY Zenon, <1>9 DEF Finish
    <2> QED
      BY Zenon, <1>6, <2>1 DEF LedgerInv, OpShape, Effect, CallEffect, CallInv
  <1> QED
    BY Zenon, <1>3, <1>7, <1>8, <1>9

\* Removing the directory's content.
LEMMA RemoveStep ==
    ASSUME LedgerInv, Remove
    PROVE  LedgerInv' /\ Effect
  <1>0. PICK i : i = op.id
    BY Zenon
  <1>1. op # Free /\ op.step = "remove" /\ OpShape /\ i \in Id /\ IsCleaning /\ dir[i].access = "root"
    BY Zenon, <1>0, AtStep DEF LedgerInv, Remove, At, IsCleaning, Cleaning
  <1>2. LedgerRows /\ Ahead /\ (\A j \in Id : Row(j)) /\ todo' \subseteq Id /\ misread \subseteq misread'
        /\ UNCHANGED <<disk, mem, proc>>
    BY Zenon DEF LedgerInv, Remove, LedgerKept, ServiceKept, LedgerRows
  <1>3. CASE /\ dir' = [dir EXCEPT ![i].full = FALSE]
             /\ (Goto("unproject") \/ Finish("retry"))
    <2>1. /\ dir' \in [Id -> Directory] /\ \A j \in Id \ {i} : dir'[j] = dir[j]
          /\ ~dir'[i].full /\ dir'[i].linked = dir[i].linked /\ dir'[i].access = dir[i].access /\ dir'[i].project = dir[i].project
          /\ dir'[i].limits = dir[i].limits
      BY Zenon, <1>1, <1>2, <1>3 DEF LedgerRows, Directory
    <2>2. Row(i)'
      BY Zenon, <1>1, <1>2, <1>3, <2>1 DEF Row, Accounts, Gone, Bare, Over
    <2>3. /\ LedgerRows' /\ Ahead' /\ (\A j \in Id : Row(j)')
          /\ mem.next <= mem'.next /\ (\A j \in Id : Keeps(j))
      BY Zenon, <1>0, <1>1, <1>2, <2>1, <2>2, DirectoryStep
    <2>4. CASE Goto("unproject")
      <3>1. SameCall /\ op'.step = "unproject" /\ op'.call = op.call
        BY Zenon, <1>1, <2>4, GoesOn
      <3>2. IsCleaning'
        BY Zenon, <1>0, <1>1, <1>2, <1>3, <2>1, <3>1 DEF IsCleaning, Cleaning, SameCall
      <3> QED
        BY Zenon, <2>3, <3>1, <3>2 DEF LedgerInv, Effect, CallEffect, CallInv, SameCall
    <2>5. CASE Finish("retry")
      BY Zenon, <1>0, <1>1, <2>3, <2>5, FinishesBadly DEF LedgerInv, Effect
    <2> QED
      BY Zenon, <1>3, <2>4, <2>5
  <1>4. CASE (Finish("retry") \/ Finish("denied")) /\ UNCHANGED dir
    BY Zenon, <1>0, <1>1, <1>2, <1>4, NoStep, FinishesBadly DEF LedgerInv, Effect
  <1> QED
    BY Zenon, <1>0, <1>3, <1>4 DEF Remove, CleanupFails, Fails

\* Clearing the project of the directory.
LEMMA UnprojectStep ==
    ASSUME LedgerInv, Unproject
    PROVE  LedgerInv' /\ Effect
  <1>0. PICK i : i = op.id
    BY Zenon
  <1>1. op # Free /\ op.step = "unproject" /\ OpShape /\ i \in Id /\ IsCleaning /\ dir[i].access = "root"
    BY Zenon, <1>0, AtStep DEF LedgerInv, Unproject, At, IsCleaning, Cleaning
  <1>2. LedgerRows /\ Ahead /\ (\A j \in Id : Row(j)) /\ todo' \subseteq Id /\ misread \subseteq misread'
        /\ UNCHANGED <<disk, mem, proc>>
    BY Zenon DEF LedgerInv, Unproject, LedgerKept, ServiceKept, LedgerRows
  <1>3. CASE /\ dir' = [dir EXCEPT ![i].project = FALSE]
             /\ (Goto("unlimit") \/ Finish("retry"))
    <2>1. /\ dir' \in [Id -> Directory] /\ \A j \in Id \ {i} : dir'[j] = dir[j]
          /\ ~dir'[i].project /\ dir'[i].linked = dir[i].linked /\ dir'[i].access = dir[i].access
          /\ dir'[i].limits = dir[i].limits /\ dir'[i].full = dir[i].full
      BY Zenon, <1>1, <1>2, <1>3 DEF LedgerRows, Directory
    <2>2. Row(i)'
      BY Zenon, <1>1, <1>2, <1>3, <2>1 DEF Row, Accounts, Gone, Bare, Over
    <2>3. /\ LedgerRows' /\ Ahead' /\ (\A j \in Id : Row(j)')
          /\ mem.next <= mem'.next /\ (\A j \in Id : Keeps(j))
      BY Zenon, <1>0, <1>1, <1>2, <2>1, <2>2, DirectoryStep
    <2>4. CASE Goto("unlimit")
      <3>1. SameCall /\ op'.step = "unlimit" /\ op'.call = op.call
        BY Zenon, <1>1, <2>4, GoesOn
      <3>2. IsCleaning'
        BY Zenon, <1>0, <1>1, <1>2, <1>3, <2>1, <3>1 DEF IsCleaning, Cleaning, SameCall
      <3> QED
        BY Zenon, <2>3, <3>1, <3>2 DEF LedgerInv, Effect, CallEffect, CallInv, SameCall
    <2>5. CASE Finish("retry")
      BY Zenon, <1>0, <1>1, <2>3, <2>5, FinishesBadly DEF LedgerInv, Effect
    <2> QED
      BY Zenon, <1>3, <2>4, <2>5
  <1>4. CASE (Finish("retry") \/ Finish("denied")) /\ UNCHANGED dir
    BY Zenon, <1>0, <1>1, <1>2, <1>4, NoStep, FinishesBadly DEF LedgerInv, Effect
  <1> QED
    BY Zenon, <1>0, <1>3, <1>4 DEF Unproject, Fails

\* Clearing the limit of the project.
LEMMA UnlimitStep ==
    ASSUME LedgerInv, Unlimit
    PROVE  LedgerInv' /\ Effect
  <1>0. PICK i : i = op.id
    BY Zenon
  <1>1. op # Free /\ op.step = "unlimit" /\ OpShape /\ i \in Id /\ IsCleaning /\ dir[i].access = "root"
    BY Zenon, <1>0, AtStep DEF LedgerInv, Unlimit, At, IsCleaning, Cleaning
  <1>2. LedgerRows /\ Ahead /\ (\A j \in Id : Row(j)) /\ todo' \subseteq Id /\ misread \subseteq misread'
        /\ UNCHANGED <<disk, mem, proc>>
    BY Zenon DEF LedgerInv, Unlimit, LedgerKept, ServiceKept, LedgerRows
  <1>3. CASE /\ dir' = [dir EXCEPT ![i].limits = FALSE]
             /\ Usage(i) = {} /\ (Goto("unlink") \/ Finish("retry"))
    <2>1. /\ dir' \in [Id -> Directory] /\ \A j \in Id \ {i} : dir'[j] = dir[j]
          /\ ~dir'[i].limits /\ dir'[i].linked = dir[i].linked /\ dir'[i].access = dir[i].access /\ dir'[i].project = dir[i].project
          /\ dir'[i].full = dir[i].full
      BY Zenon, <1>1, <1>2, <1>3 DEF LedgerRows, Directory
    <2>2. Row(i)'
      BY Zenon, <1>1, <1>2, <1>3, <2>1 DEF Row, Accounts, Gone, Bare, Over, Usage
    <2>3. /\ LedgerRows' /\ Ahead' /\ (\A j \in Id : Row(j)')
          /\ mem.next <= mem'.next /\ (\A j \in Id : Keeps(j))
      BY Zenon, <1>0, <1>1, <1>2, <2>1, <2>2, DirectoryStep
    <2>4. CASE Goto("unlink")
      <3>1. SameCall /\ op'.step = "unlink" /\ op'.call = op.call
        BY Zenon, <1>1, <2>4, GoesOn
      <3>2. IsCleaning'
        BY ZenonT(60), <1>0, <1>1, <1>2, <1>3, <2>1, <3>1 DEF IsCleaning, Cleaning, SameCall,
           Usage
      <3> QED
        BY Zenon, <2>3, <3>1, <3>2 DEF LedgerInv, Effect, CallEffect, CallInv, SameCall
    <2>5. CASE Finish("retry")
      BY Zenon, <1>0, <1>1, <2>3, <2>5, FinishesBadly DEF LedgerInv, Effect
    <2> QED
      BY Zenon, <1>3, <2>4, <2>5
  <1>4. CASE (Finish("retry") \/ Finish("denied")) /\ UNCHANGED dir
    BY Zenon, <1>0, <1>1, <1>2, <1>4, NoStep, FinishesBadly DEF LedgerInv, Effect
  <1> QED
    BY Zenon, <1>0, <1>3, <1>4 DEF Unlimit, Fails

\* Removing the directory itself.
LEMMA UnlinkStep ==
    ASSUME LedgerInv, Unlink
    PROVE  LedgerInv' /\ Effect
  <1>0. PICK i : i = op.id
    BY Zenon
  <1>1. op # Free /\ op.step = "unlink" /\ OpShape /\ i \in Id /\ IsCleaning /\ dir[i].access = "root"
    BY Zenon, <1>0, AtStep DEF LedgerInv, Unlink, At, IsCleaning, Cleaning
  <1>2. LedgerRows /\ Ahead /\ (\A j \in Id : Row(j)) /\ todo' \subseteq Id /\ misread \subseteq misread'
        /\ UNCHANGED <<disk, mem, proc>>
    BY Zenon DEF LedgerInv, Unlink, LedgerKept, ServiceKept, LedgerRows
  <1>3. CASE /\ dir' = [dir EXCEPT ![i].linked = FALSE]
             /\ (Goto("complete") \/ Finish("retry"))
    <2>1. /\ dir' \in [Id -> Directory] /\ \A j \in Id \ {i} : dir'[j] = dir[j]
          /\ ~dir'[i].linked /\ dir'[i].access = dir[i].access /\ dir'[i].project = dir[i].project
          /\ dir'[i].limits = dir[i].limits /\ dir'[i].full = dir[i].full
      BY Zenon, <1>1, <1>2, <1>3 DEF LedgerRows, Directory
    <2>2. Row(i)'
      BY Zenon, <1>1, <1>2, <1>3, <2>1 DEF Row, Accounts, Gone, Bare, Over
    <2>3. /\ LedgerRows' /\ Ahead' /\ (\A j \in Id : Row(j)')
          /\ mem.next <= mem'.next /\ (\A j \in Id : Keeps(j))
      BY Zenon, <1>0, <1>1, <1>2, <2>1, <2>2, DirectoryStep
    <2>4. CASE Goto("complete")
      <3>1. SameCall /\ op'.step = "complete" /\ op'.call = op.call
        BY Zenon, <1>1, <2>4, GoesOn
      <3>2. IsCleaning'
        BY <1>0, <1>1, <1>2, <1>3, <2>1, <3>1 DEF IsCleaning, Cleaning, SameCall, Gone, Bare
      <3> QED
        BY Zenon, <2>3, <3>1, <3>2 DEF LedgerInv, Effect, CallEffect, CallInv, SameCall
    <2>5. CASE Finish("retry")
      BY Zenon, <1>0, <1>1, <2>3, <2>5, FinishesBadly DEF LedgerInv, Effect
    <2> QED
      BY Zenon, <1>3, <2>4, <2>5
  <1>4. CASE (Finish("retry") \/ Finish("denied")) /\ UNCHANGED dir
    BY Zenon, <1>0, <1>1, <1>2, <1>4, NoStep, FinishesBadly DEF LedgerInv, Effect
  <1> QED
    BY Zenon, <1>0, <1>3, <1>4 DEF Unlink, Fails

\* Recording that the workspace is gone.
LEMMA CompleteStep ==
    ASSUME LedgerInv, Complete
    PROVE  LedgerInv' /\ Effect
  <1>0. PICK i : i = op.id
    BY Zenon
  <1>1. op # Free /\ op.step = "complete" /\ OpShape /\ i \in Id /\ IsCleaning
        /\ mem.rec[i] \in Live /\ Gone(i)
    BY Zenon, <1>0, AtStep DEF LedgerInv, Complete, At, IsCleaning, Cleaning
  <1>2. LedgerRows /\ Ahead /\ (\A j \in Id : Row(j)) /\ todo' \subseteq Id /\ misread \subseteq misread'
        /\ UNCHANGED <<dir, proc>>
    BY Zenon DEF LedgerInv, Complete, ServiceKept, LedgerRows
  <1>3. PICK old \in SUBSET {j \in Id \ {i} : mem.rec[j] = "terminal"} :
           LET pruned == [j \in Id |-> IF j \in old THEN "none" ELSE mem.rec[j]]
               new == [mem EXCEPT !.rec = [pruned EXCEPT ![i] = "terminal"]]
           IN  (Written(new) /\ Finish("ok")) \/ (Failed(new) /\ Finish("retry"))
    BY Zenon, <1>0 DEF Complete, Persist, Written, Failed
  <1>4. PICK pruned : pruned = [j \in Id |-> IF j \in old THEN "none" ELSE mem.rec[j]]
    BY Zenon
  <1>5. PICK n : n = [mem EXCEPT !.rec = [pruned EXCEPT ![i] = "terminal"]]
    BY Zenon
  <1>6. (Written(n) /\ Finish("ok")) \/ (Failed(n) /\ Finish("retry"))
    BY Zenon, <1>3, <1>4, <1>5
  <1>7. Rewrites(n, i, "terminal") /\ n.next = mem.next
    <2>1. mem \in Ledger
      BY Zenon, <1>2 DEF LedgerRows
    <2>2. pruned \in [Id -> RecState]
          /\ \A j \in Id : pruned[j] = mem.rec[j] \/ (mem.rec[j] = "terminal" /\ pruned[j] = "none")
      BY Zenon, <1>4, <2>1 DEF Ledger, RecState
    <2>3. PICK rec : rec = [pruned EXCEPT ![i] = "terminal"]
      BY Zenon
    <2>4. rec \in [Id -> RecState] /\ rec[i] = "terminal" /\ \A j \in Id \ {i} : rec[j] = pruned[j]
      BY Zenon, <1>1, <2>2, <2>3 DEF RecState
    <2>5. n = [mem EXCEPT !.rec = rec]
      BY Zenon, <1>5, <2>3
    <2>6. n \in Ledger /\ n.rec = rec /\ n.next = mem.next
      BY Zenon, <2>1, <2>4, <2>5 DEF Ledger
    <2> QED
      BY Zenon, <2>2, <2>4, <2>6 DEF Rewrites
  <1>8. Fits("terminal", i) /\ "terminal" \in RecState /\ i < n.next
    BY Zenon, <1>1, <1>2, <1>7 DEF Fits, Accounts, Gone, Bare, Over, RecState, Live, Ahead,
       ValidLedger
  <1>9. mem.rec[i] = "offered" => op.call \in {"ack", "undo", "withdraw", "reconcile"}
    BY Zenon, <1>0, <1>1 DEF IsCleaning
  <1>10. /\ LedgerRows' /\ Ahead' /\ (\A j \in Id : Row(j)')
         /\ mem.next <= mem'.next /\ (\A j \in Id : Keeps(j))
         /\ Written(n) => mem'.rec[i] = "terminal"
    BY ZenonT(60), <1>0, <1>1, <1>2, <1>6, <1>7, <1>8, <1>9, WriteStep
  <1>11. CASE Written(n) /\ Finish("ok")
    <2>1. CASE op' = Free
      BY Zenon, <1>10, <2>1 DEF LedgerInv, OpShape, Effect, CallEffect, CallInv
    <2>2. CASE op' # Free
      <3>1. SameCall /\ op'.step = "reply" /\ op'.call = op.call /\ op.call \in Calls \ {"withdraw"}
            /\ (op.call = "undo" => op'.result = "retry")
        BY Zenon, <1>1, <1>11, <2>2, Finishes
      <3>2. Replying'
        BY Zenon, <1>0, <1>1, <1>10, <1>11, <3>1 DEF Replying, SameCall, IsCleaning, Calls
      <3> QED
        BY Zenon, <1>10, <3>1, <3>2 DEF LedgerInv, Effect, CallEffect, CallInv, SameCall
    <2> QED
      BY Zenon, <2>1, <2>2
  <1>12. CASE Failed(n) /\ Finish("retry")
    BY Zenon, <1>0, <1>1, <1>10, <1>12, FinishesBadly DEF LedgerInv, Effect
  <1> QED
    BY Zenon, <1>6, <1>11, <1>12

\* Every step of a call keeps the ledger ahead of the disk.
LEMMA ServiceStepKeeps ==
    ASSUME LedgerInv, ServiceStep
    PROVE  LedgerInv' /\ Effect
  BY Zenon, ReserveStep, MkdirStep, PrepareStep, LimitStep, ReadyStep, OfferStep, GrantStep,
     ChownStep,
     ActivateStep, RevokeStep, ReleasingStep, RemoveStep, UnprojectStep, UnlimitStep,
     UnlinkStep,
     CompleteStep DEF ServiceStep

-----------------------------------------------------------------------------
(* Restart, reconciliation and the end of the process. *)

\* A visit that ends with the record.
LEMMA VisitEnds ==
    ASSUME LedgerInv, op = Free, UNCHANGED op,
           LedgerRows', Ahead', \A j \in Id : Row(j)', mem.next <= mem'.next, \A j \in Id : Keeps(j)
    PROVE  LedgerInv' /\ Effect
  BY Zenon DEF LedgerInv, OpShape, CallInv, Effect, CallEffect

\* A visit that begins a cleanup.
LEMMA VisitCleans ==
    ASSUME op = Free, NEW i, NEW s,
           op' = [call |-> "reconcile", id |-> i, step |-> s, result |-> "retry"],
           IsCleaning', LedgerRows', Ahead', \A j \in Id : Row(j)', mem.next <= mem'.next, \A j \in Id : Keeps(j)
    PROVE  LedgerInv' /\ Effect
  <1>1. op'.call = "reconcile" /\ OpShape' /\ op' # Free
    BY Zenon DEF OpShape, Free
  <1> QED
    BY Zenon, <1>1 DEF LedgerInv, CallInv, Effect, CallEffect

\* A start drops a record that never got a directory.
LEMMA ReconcileReservedStep ==
    ASSUME LedgerInv, op = Free, NEW i \in Id, ReconcileReserved(i)
    PROVE  LedgerInv' /\ Effect
  <1>n. PICK n : n = With(mem, i, "none")
    BY Zenon
  <1>1. LedgerRows /\ Ahead /\ (\A j \in Id : Row(j)) /\ todo' \subseteq Id /\ misread \subseteq misread'
        /\ UNCHANGED <<dir, proc, op>>
        /\ mem.rec[i] = "reserved"
    BY Zenon DEF LedgerInv, ReconcileReserved, Visit, LedgerRows
  <1>2. CASE UNCHANGED <<disk, mem>>
    BY Zenon, <1>1, <1>2, NoStep, VisitEnds
  <1>3. CASE ~dir[i].linked /\ (Written(n) \/ Failed(n))
    <2>1. Gone(i) /\ "none" \in RecState
      BY Zenon, <1>1, <1>3 DEF Row, Accounts, Gone, RecState
    <2>2. Fits("none", i)
      BY Zenon, <1>1, <2>1 DEF Fits, Accounts, Gone, Bare, Over
    <2> QED
      BY Zenon, <1>1, <1>3, <1>n, <2>1, <2>2, RecordStep, VisitEnds
  <1> QED
    BY Zenon, <1>n, <1>2, <1>3 DEF ReconcileReserved, LedgerKept, Persist, Written, Failed, Unseen

\* A start leaves a healthy workspace in use alone; it takes any other back, or
\* fails to, and goes on to mark its record.
LEMMA ReconcileActiveStep ==
    ASSUME LedgerInv, op = Free, NEW i \in Id, ReconcileActive(i)
    PROVE  LedgerInv' /\ Effect
  <1>1. LedgerRows /\ Ahead /\ (\A j \in Id : Row(j)) /\ todo' \subseteq Id /\ misread \subseteq misread'
        /\ UNCHANGED <<disk, mem, proc>> /\ mem.rec[i] = "active"
    BY Zenon DEF LedgerInv, ReconcileActive, LedgerKept, Visit, LedgerRows
  <1>2. CASE UNCHANGED <<dir, op>>
    BY Zenon, <1>1, <1>2, NoStep, VisitEnds
  <1>3. CASE /\ Continue(i, "releasing")
             /\ \/ ~VerifyRecordFD(i, "checkout") /\ dir' = [dir EXCEPT ![i].access = "root"]
                \/ dir' \in {dir, [dir EXCEPT ![i].access = "root"]} /\ i \in misread'
    <2>1. /\ dir' \in [Id -> Directory] /\ \A j \in Id \ {i} : dir'[j] = dir[j]
          /\ dir'[i].access \in {dir[i].access, "root"} /\ dir'[i].linked = dir[i].linked
          /\ dir'[i].project = dir[i].project
          /\ dir'[i].limits = dir[i].limits /\ dir'[i].full = dir[i].full
      <3>1. CASE dir' = [dir EXCEPT ![i].access = "root"]
        BY <1>1, <3>1 DEF LedgerRows, Directory
      <3>2. CASE dir' = dir
        BY Zenon, <1>1, <3>2 DEF LedgerRows
      <3> QED
        BY Zenon, <1>3, <3>1, <3>2
    <2>2. dir'[i].access = "root" \/ i \in misread'
      BY Zenon, <1>1, <1>3 DEF LedgerRows, Directory
    <2>3. Row(i)'
      <3>1. Row(i)
        BY Zenon, <1>1
      <3>2. Applied(i)' = Applied(i)
        BY Zenon, <2>1 DEF Applied
      <3>3. ASSUME NEW state, Accounts(state, i) PROVE Accounts(state, i)'
        BY Zenon, <1>1, <2>1, <3>3 DEF Accounts, Gone, Bare
      <3> QED
        BY Zenon, <1>1, <2>1, <3>1, <3>2, <3>3 DEF Row
    <2>4. dir'[i].access # dir[i].access =>
             \/ dir'[i].access = "root" /\ ~VerifyRecordFD(i, "checkout")
             \/ i \in misread'
      BY Zenon, <1>3, <2>1
    <2>5. op'.call = "reconcile" /\ op'.step = "releasing" /\ op'.id = i
      BY Zenon, <1>3 DEF Continue
    <2>6. IsCleaning'
      BY Zenon, <1>1, <2>2, <2>5 DEF IsCleaning, Cleaning, Live
    <2> QED
      BY Zenon, <1>1, <1>3, <2>1, <2>3, <2>4, <2>6, DirectoryStep, VisitCleans DEF Continue
  <1> QED
    BY Zenon, <1>2, <1>3 DEF ReconcileActive, Unseen

\* A start completes a release whose directory is already gone.
LEMMA ReconcileGoneStep ==
    ASSUME LedgerInv, op = Free, NEW i \in Id, ReconcileGone(i)
    PROVE  LedgerInv' /\ Effect
  <1>1. LedgerRows /\ Ahead /\ (\A j \in Id : Row(j)) /\ todo' \subseteq Id /\ misread \subseteq misread'
        /\ UNCHANGED <<disk, mem, proc>>
        /\ mem.rec[i] \in Interrupted /\ ~dir[i].linked
    BY Zenon DEF LedgerInv, ReconcileGone, LedgerKept, Visit, LedgerRows
  <1>2. CASE UNCHANGED <<dir, op>>
    BY Zenon, <1>1, <1>2, NoStep, VisitEnds
  <1>3. CASE /\ Usage(i) = {} /\ dir' = [dir EXCEPT ![i].limits = FALSE]
             /\ op' = [call |-> "reconcile", id |-> i, step |-> "complete", result |-> "retry"]
    <2>1. /\ dir' \in [Id -> Directory] /\ \A j \in Id \ {i} : dir'[j] = dir[j]
          /\ ~dir'[i].limits /\ dir'[i].linked = dir[i].linked /\ dir'[i].access = dir[i].access
          /\ dir'[i].project = dir[i].project /\ dir'[i].full = dir[i].full
      BY ZenonT(60), <1>1, <1>3 DEF LedgerRows, Directory
    <2>2. ~dir[i].project /\ ~dir[i].full /\ proc[i] # "open" /\ dir[i].access = "root"
      BY Zenon, <1>1, <1>3 DEF Usage, Row
    <2>3. Row(i)' /\ Gone(i)'
      BY Zenon, <1>1, <2>1, <2>2 DEF Row, Accounts, Gone, Bare, Over
    <2>4. op'.call = "reconcile" /\ op'.step = "complete" /\ op'.id = i
      BY Zenon, <1>3
    <2>5. IsCleaning'
      BY Zenon, <1>1, <2>1, <2>2, <2>3, <2>4 DEF IsCleaning, Cleaning, Interrupted
    <2> QED
      BY Zenon, <1>1, <1>3, <2>1, <2>3, <2>5, DirectoryStep, VisitCleans
  <1> QED
    BY Zenon, <1>2, <1>3 DEF ReconcileGone, Continue, Unseen

\* A start goes on with a release or an allocation cut short.
LEMMA ReconcileInterruptedStep ==
    ASSUME LedgerInv, op = Free, NEW i \in Id, ReconcileInterrupted(i)
    PROVE  LedgerInv' /\ Effect
  <1>1. LedgerRows /\ Ahead /\ (\A j \in Id : Row(j)) /\ todo' \subseteq Id /\ misread \subseteq misread'
        /\ UNCHANGED <<disk, mem, proc>> /\ mem.rec[i] \in Interrupted
    BY Zenon DEF LedgerInv, ReconcileInterrupted, LedgerKept, Visit, LedgerRows
  <1>2. CASE UNCHANGED <<dir, op>>
    BY Zenon, <1>1, <1>2, NoStep, VisitEnds
  <1>3. CASE dir' = [dir EXCEPT ![i].access = "root"] /\ Continue(i, "remove")
    <2>1. /\ dir' \in [Id -> Directory] /\ \A j \in Id \ {i} : dir'[j] = dir[j]
          /\ dir'[i].access = "root" /\ dir'[i].linked = dir[i].linked /\ dir'[i].project = dir[i].project
          /\ dir'[i].limits = dir[i].limits /\ dir'[i].full = dir[i].full
      BY <1>1, <1>3 DEF LedgerRows, Directory
    <2>2. Row(i)'
      BY Zenon, <1>1, <2>1 DEF Row, Accounts, Gone, Bare, Over
    <2>3. op'.call = "reconcile" /\ op'.step = "remove" /\ op'.id = i
      BY Zenon, <1>3 DEF Continue
    <2>4. IsCleaning'
      BY Zenon, <1>1, <2>1, <2>3 DEF IsCleaning, Cleaning, Interrupted
    <2>5. mem.rec[i] # "active"
      BY Zenon, <1>1 DEF Interrupted
    <2> QED
      BY Zenon, <1>1, <1>3, <2>1, <2>2, <2>4, <2>5, DirectoryStep, VisitCleans DEF Continue
  <1> QED
    BY Zenon, <1>2, <1>3 DEF ReconcileInterrupted, Unseen

\* The directory stays, or is at most taken back.
AtMostRevoked(j) ==
    \/ dir'[j] = dir[j]
    \/ /\ j \in misread' /\ dir'[j].access = "root" /\ dir'[j].linked = dir[j].linked
       /\ dir'[j].project = dir[j].project /\ dir'[j].limits = dir[j].limits
       /\ dir'[j].full = dir[j].full

\* A service that stops leaves the file, which is what the next one reads.
LEMMA StopStep ==
    ASSUME LedgerInv, up' = "down", todo' = {}, op' = Free, mem' = disk, UNCHANGED <<disk, proc>>,
           misread \subseteq misread', dir' \in [Id -> Directory], \A j \in Id : AtMostRevoked(j)
    PROVE  LedgerInv' /\ Effect
  <1>1. LedgerRows' /\ Ahead' /\ mem.next <= mem'.next
    BY DEF LedgerInv, LedgerRows, Ahead, ValidLedger, Ledger
  <1>2. ASSUME NEW j \in Id PROVE Row(j)' /\ Keeps(j)
    <2>1. Row(j) /\ AtMostRevoked(j) /\ (j \in misread => j \in misread')
      BY Zenon DEF LedgerInv
    <2>2. ASSUME NEW state, Accounts(state, j) PROVE Accounts(state, j)'
      BY Zenon, <2>1, <2>2 DEF Accounts, AtMostRevoked, Gone, Bare
    <2>3. Row(j)'
      BY Zenon, <2>1, <2>2 DEF Row, AtMostRevoked, Applied
    <2> QED
      BY Zenon, <2>1, <2>3 DEF Row, Keeps, AtMostRevoked
  <1> QED
    BY Zenon, <1>1, <1>2 DEF LedgerInv, OpShape, CallInv, Effect, CallEffect

\* A workspace that cannot be taken back stops the service that starts.
LEMMA ReconcileFailsStep ==
    ASSUME LedgerInv, op = Free, NEW i \in Id, ReconcileFails(i)
    PROVE  LedgerInv' /\ Effect
  <1>1. /\ dir \in [Id -> Directory] /\ dir' \in {dir, [dir EXCEPT ![i].access = "root"]}
        /\ misread \subseteq misread' /\ i \in misread'
    BY Zenon DEF LedgerInv, LedgerRows, ReconcileFails
  <1>2. CASE dir' = dir
    BY Zenon, <1>1, <1>2, StopStep DEF ReconcileFails, AtMostRevoked
  <1>3. CASE dir' = [dir EXCEPT ![i].access = "root"]
    <2>1. /\ dir' \in [Id -> Directory] /\ \A j \in Id \ {i} : dir'[j] = dir[j]
          /\ dir'[i].access = "root" /\ dir'[i].linked = dir[i].linked /\ dir'[i].project = dir[i].project
          /\ dir'[i].limits = dir[i].limits /\ dir'[i].full = dir[i].full
      BY <1>1, <1>3 DEF Directory
    <2>2. \A j \in Id : AtMostRevoked(j)
      BY Zenon, <1>1, <2>1 DEF AtMostRevoked
    <2> QED
      BY Zenon, <1>1, <2>1, <2>2, StopStep DEF ReconcileFails
  <1> QED
    BY Zenon, <1>1, <1>2, <1>3

\* Every visit of a start keeps the ledger ahead of the disk.
LEMMA ReconcileStep ==
    ASSUME LedgerInv, Reconcile
    PROVE  LedgerInv' /\ Effect
  <1>1. PICK i \in todo : \/ ReconcileReserved(i) \/ ReconcileActive(i) \/ ReconcileGone(i)
                          \/ ReconcileInterrupted(i) \/ ReconcileFails(i)
    BY Zenon DEF Reconcile
  <1>2. op = Free /\ i \in Id
    BY Zenon DEF Reconcile, LedgerInv, LedgerRows
  <1> QED
    BY Zenon, <1>1, <1>2, ReconcileReservedStep, ReconcileActiveStep, ReconcileGoneStep,
       ReconcileInterruptedStep, ReconcileFailsStep

\* Reading the ledger back, and opening the socket, change no record.
LEMMA StartStep ==
    ASSUME LedgerInv, StartService \/ StartServing
    PROVE  LedgerInv' /\ Effect
  <1>1. todo' \subseteq Id /\ misread \subseteq misread' /\ UNCHANGED <<disk, mem, dir, proc, op, misread>>
    BY Zenon DEF StartService, StartServing, LedgerInv, LedgerRows
  <1>2. /\ LedgerRows' /\ Ahead' /\ (\A j \in Id : Row(j)')
        /\ mem.next <= mem'.next /\ (\A j \in Id : Keeps(j))
    BY Zenon, <1>1, NoStep DEF LedgerInv
  <1>3. OpShape' /\ CallInv'
    BY Zenon, <1>1 DEF LedgerInv, OpShape, CallInv, Reserving, Looking, IsBuilding, IsGranting,
       IsCleaning,
                Replying, Gone, Bare, Applied
  <1>4. CallEffect
    BY Zenon, <1>1, <1>3 DEF CallEffect, SameCall
  <1> QED
    BY Zenon, <1>2, <1>3, <1>4 DEF LedgerInv, Effect

-----------------------------------------------------------------------------
(* The clients.  What holds for their requests, offers and workspaces.       *)

\* States of a client that has given its workspace up.
PastAck == {"closing", "releasing"} \cup Ended

\* The state in which a client waits for the answer to a call.
Awaits == [allocate |-> "asked", ack |-> "acked", undo |-> "acked", query |-> "querying",
           release |-> "releasing"]

\* The call that holds the mutex is one of these, on this workspace.
Acts(calls, i) == op # Free /\ op.call \in calls /\ op.id = i

\* The calls that decide about an offer.
Deciding == {"ack", "withdraw"}

ClientShape ==
    /\ cl = [c \in Client |-> [st |-> cl[c].st, id |-> cl[c].id, done |-> cl[c].done,
                               tries |-> cl[c].tries, closes |-> cl[c].closes]]
    /\ \A c \in Client : cl[c].st \in ClientState

Requests ==
    /\ \A r \in reqs : /\ r = [call |-> r.call, c |-> r.c, id |-> r.id, live |-> r.live]
                       /\ r.c \in Client /\ r.live \in BOOLEAN
                       /\ r.call \in {"allocate", "ack", "withdraw", "query", "release"}
                       /\ r.call # "allocate" => r.id \in Id /\ r.id < mem.next
                       /\ r.call \in {"ack", "query", "release"} => r.id \in issued
    /\ \A o \in offers : o[1] \in Client /\ o[2] \in issued /\ o = <<o[1], o[2]>>
    /\ op # Free /\ op.call # "reconcile" => op.c \in Client /\ op.live \in BOOLEAN
    /\ op # Free /\ op.call \in {"ack", "undo", "release"} => op.id \in issued
    /\ up # "up" => reqs = {} /\ offers = {} /\ (op # Free => op.call = "reconcile")
    /\ up = "up" /\ op # Free => op.call # "reconcile"

\* Identifiers are known to one client at most and lie below the next one.
Identities ==
    /\ issued \subseteq Id /\ \A i \in issued : i < mem.next
    /\ \A c \in Client : /\ cl[c].id \in issued \cup {0}
                         /\ cl[c].st \notin {"failed", "asked"} => cl[c].id # 0
    /\ \A c, d \in Client : cl[c].id = cl[d].id /\ c # d => cl[c].id = 0

\* The identifier an allocation works on is known to nobody.
FreshId ==
    op # Free /\ op.call = "allocate" /\ op.step # "reserve" =>
       /\ op.id \notin issued
       /\ \A r \in reqs : r.call # "allocate" => r.id # op.id

\* A client waits for the one call that it made and that nobody gave up.
LiveInv ==
    /\ \A r \in reqs : r.live => /\ r.call # "withdraw" /\ cl[r.c].st = Awaits[r.call]
                                 /\ r.call # "allocate" => cl[r.c].id = r.id
    /\ \A r, s \in reqs : r.live /\ s.live /\ r.c = s.c => r = s
    /\ op # Free /\ op.call # "reconcile" => (op.live =>
          /\ op.call # "withdraw" /\ cl[op.c].st = Awaits[op.call]
          /\ op.call # "allocate" => cl[op.c].id = op.id
          /\ \A r \in reqs : r.live => r.c # op.c)

\* An offer waits for one decision at most.
OfferInv ==
    /\ \A o \in offers : /\ mem.rec[o[2]] = "offered"
                         /\ \A r \in reqs : r.call \in Deciding => r.id # o[2]
                         /\ ~Acts({"ack", "undo", "withdraw"}, o[2])
                         /\ \A p \in offers : p[2] = o[2] => p = o
    /\ \A r \in reqs : r.call \in Deciding =>
          /\ r.call = "ack" => mem.rec[r.id] = "offered"
          /\ ~Acts({"ack", "undo", "withdraw"}, r.id)
          /\ \A s \in reqs : s.call \in Deciding /\ s.id = r.id => s = r

\* A release is the work of a client that has given its workspace up, and a
\* client that was told it is done finds nothing in the ledger.
CloseInv ==
    /\ \A r \in reqs : \A c \in Client : r.call = "release" /\ cl[c].id = r.id => cl[c].st \in PastAck
    /\ \A c \in Client : Acts({"release"}, cl[c].id) => cl[c].st \in PastAck
    /\ \A c \in Client : cl[c].st = "released" => mem.rec[cl[c].id] \in Over

\* Nobody decides about a workspace that has an owner, who keeps it unless a
\* restart failed to look at it.
OwnerInv ==
    \A c \in Client : cl[c].st \in Owning =>
       /\ \A r \in reqs : r.call = "ack" => r.id # cl[c].id
       /\ \A o \in offers : o[2] # cl[c].id
       /\ ~Acts({"ack", "undo"}, cl[c].id)
       /\ \/ /\ dir[cl[c].id].access # "root" => mem.rec[cl[c].id] = "active"
             /\ cl[c].st \in {"spawned", "using"} => dir[cl[c].id].access = "checkout"
          \/ cl[c].id \in misread

ClientInv ==
    ClientShape /\ Requests /\ Identities /\ FreshId /\ LiveInv /\ OfferInv /\ CloseInv /\ OwnerInv
=============================================================================
