----------------------------- MODULE FenceStore -----------------------------
(***************************************************************************)
(* The host agent's durable fence state: one file per environment and the  *)
(* index that lists every environment with a file.  Each write is a        *)
(* temporary file, fsync, rename and directory fsync, so a reader sees the *)
(* old or the new contents; Save is two such writes, and the agent may     *)
(* stop between them.                                                      *)
(***************************************************************************)
EXTENDS Integers

CONSTANTS
    Env,            \* environments whose leases this host may be given
    Missing,        \* the file does not exist
    Garbage,        \* the file exists and cannot be parsed or validated
    MaxDamage       \* bound: files or indexes lost or damaged from outside

ASSUME StoreAssumption ==
    /\ MaxDamage \in Nat
    /\ Missing # Garbage
    /\ \A f \in {Missing, Garbage} :
          /\ \A E \in SUBSET Env : f # E
          /\ f \notin [highestAcceptedFence : Nat, reconciliationRequired : BOOLEAN]

VARIABLES
    file,           \* <encoded environment id>.json
    index,          \* .fence-index.json
    damage          \* how often a file was lost or damaged from outside

storeVars == <<file, index, damage>>

FenceRecord(f, r) == [highestAcceptedFence |-> f, reconciliationRequired |-> r]

StoreInit ==
    /\ file = [e \in Env |-> Missing]
    /\ index = Missing
    /\ damage = 0

hasAnyFenceFile == \E e \in Env : file[e] # Missing

\* loadIndex: the second result says that no file may be trusted.
failClosed ==
    \/ index = Garbage
    \/ index = Missing /\ hasAnyFenceFile

listed == IF index = Missing THEN {} ELSE index

\* Mutant: a missing file is a first encounter, whatever the index lists.
LoadWithoutIndex(e) ==
    IF file[e] = Missing THEN "first_encounter"
    ELSE IF file[e] = Garbage THEN "corrupt" ELSE "known"

\* Load's verdict on an environment.
Load(e) ==
    CASE failClosed -> "corrupt"
      [] ~failClosed /\ file[e] = Missing ->
            IF e \in listed THEN "corrupt" ELSE "first_encounter"
      [] ~failClosed /\ file[e] # Missing ->
            IF e \notin listed \/ file[e] = Garbage THEN "corrupt" ELSE "known"

\* Save's first write.
writeFence(e, record) == file' = [file EXCEPT ![e] = record]

\* Save's second write: an index that cannot be trusted is rebuilt with
\* this environment alone.
addToIndex(e) ==
    index' = (IF failClosed THEN {} ELSE listed) \cup {e}

\* A file is deleted or damaged by something other than the agent.
DamageFile(e) ==
    /\ damage < MaxDamage
    /\ file[e] # Missing
    /\ \E left \in {Missing, Garbage} : file' = [file EXCEPT ![e] = left]
    /\ damage' = damage + 1
    /\ UNCHANGED index

DamageIndex ==
    /\ damage < MaxDamage
    /\ index # Missing
    /\ index' \in {Missing, Garbage}
    /\ damage' = damage + 1
    /\ UNCHANGED file
=============================================================================
