--------------------------- MODULE RuntimeConfig ---------------------------
(***************************************************************************)
(* What a deployment runs with: the runtime configuration and the variable *)
(* bindings of one environment, edited on the administrators' page; the    *)
(* versions of the secret its bindings name; the claim-time freeze, which  *)
(* copies all of it into an attempt; and the materialization of the frozen *)
(* secrets for the agent that runs the attempt.                            *)
(*                                                                         *)
(* A claim is one READ COMMITTED transaction.  It holds the configuration  *)
(* row FOR SHARE from its first statement, but it reads the bindings with  *)
(* plain SELECTs, each of which sees its own moment: the statements are    *)
(* separate steps.  Materialization likewise authorizes in one transaction *)
(* and reads each version in a later one.                                  *)
(***************************************************************************)
EXTENDS Integers, Sequences, FiniteSets

CONSTANTS
    Admin,         \* administrators with the configuration page open
    Job,           \* the environment's jobs
    Variable,      \* variable names
    Setting,       \* the contents of the configuration form
    None,          \* nothing: no row, no page, no transaction
    MaxRevision,   \* bound: the last configuration revision
    MaxVersions,   \* bound: versions of the secret
    MaxChanges,    \* bound: bindings added and removed
    MaxAttempts    \* attempts per job (five in the code)

\* A row of environment_runtime_configs, and a page filled from one.
ConfigRow == [settings : Setting, revision : 0..MaxRevision]
PageRow == [revision : 0..MaxRevision \cup {None}, shown : Setting \cup {None}, fresh : BOOLEAN]

ASSUME RuntimeAssumption ==
    /\ {MaxRevision, MaxVersions, MaxChanges, MaxAttempts} \subseteq Nat
    /\ None \notin Setting \cup Job \cup 0..MaxRevision
    /\ None \notin ConfigRow /\ None \notin PageRow

VARIABLES
    config,     \* the environment_runtime_configs row
    binding,    \* environment_runtime_bindings: kind of each bound variable
    changes,    \* bindings added and removed so far
    page,       \* the configuration page in each administrator's browser
    versions,   \* secret_versions of the one head, in order of version_number
    replacing,  \* replacements of the secret between their read and their write
    condemned,  \* versions a committed compromise replacement was meant for
    claim,      \* the claim transaction in flight
    attempts,   \* the frozen snapshot of each attempt of each job
    release,    \* config_digest of each job's release
    corrupt,    \* jobs whose claim was refused as corrupt state
    live,       \* the job whose attempt occupies the environment slot
    delivery,   \* the materialization request in flight
    delivered   \* the secret sets that were answered to an agent

configVars == <<config, binding, changes, page>>
secretVars == <<versions, replacing, condemned>>
claimVars == <<claim, attempts, release, corrupt, live>>
deliveryVars == <<delivery, delivered>>
vars == <<configVars, secretVars, claimVars, deliveryVars>>

VersionState == {"active", "superseded", "revoked"}
BindingKind == {"secret", "literal_nonsecret"}

Exists == config # None
Bound(kind) == {v \in Variable : binding[v] = kind}
Current == Len(versions)

(***************************************************************************)
(* The configuration page.  A page remembers the revision its hidden field *)
(* carries (None: the create form), the settings it was filled from, and   *)
(* whether it was filled by a GET or is a rejected form shown again.  An   *)
(* administrator does one thing at a time: edits the page or replaces the  *)
(* secret.                                                                 *)
(***************************************************************************)
Revision == IF Exists THEN config.revision ELSE None

Settings == IF Exists THEN config.settings ELSE None

environmentConfigGet(a) ==
    /\ replacing[a] = None
    /\ Exists => config.revision < MaxRevision
    /\ page' = [page EXCEPT ![a] = [revision |-> Revision, shown |-> Settings,
                                    fresh |-> TRUE]]
    /\ UNCHANGED <<config, binding, changes, secretVars, claimVars, deliveryVars>>

\* The rejected form keeps what the operator typed; only the revision is read
\* again.
renderConfigRejection(a) ==
    /\ page' = [page EXCEPT ![a].revision = Revision, ![a].fresh = FALSE]
    /\ UNCHANGED config

ConfigRowNeverHeld == TRUE

\* A claim in flight holds the row FOR SHARE: an update that matches it waits.
ConfigRowFree == claim = None

CreateEnvironmentRuntimeConfig(a, s) ==
    /\ page[a].revision = None
    /\ \/ /\ ~Exists
          /\ config' = [settings |-> s, revision |-> 0]
          /\ page' = [page EXCEPT ![a] = None]
       \/ /\ Exists
          /\ renderConfigRejection(a)

UpdateIgnoringRevision(a, s) ==
    /\ page[a].revision # None
    /\ config.revision < MaxRevision
    /\ ConfigRowFree
    /\ config' = [settings |-> s, revision |-> config.revision + 1]
    /\ page' = [page EXCEPT ![a] = None]

UpdateEnvironmentRuntimeConfig(a, s) ==
    /\ page[a].revision # None
    /\ \/ /\ page[a].revision = config.revision
          /\ config.revision < MaxRevision
          /\ ConfigRowFree
          /\ config' = [settings |-> s, revision |-> config.revision + 1]
          /\ page' = [page EXCEPT ![a] = None]
       \/ /\ page[a].revision # config.revision
          /\ renderConfigRejection(a)

\* A form whose values are refused (by parseRuntimeConfigForm or by the
\* repository) is shown again like one that met a conflict, whatever the
\* revision it carries.
RefusedValues(a) == renderConfigRejection(a)

environmentConfigPost(a, s) ==
    /\ page[a] # None
    /\ \/ RefusedValues(a)
       \/ CreateEnvironmentRuntimeConfig(a, s)
       \/ UpdateEnvironmentRuntimeConfig(a, s)
    /\ UNCHANGED <<binding, changes, secretVars, claimVars, deliveryVars>>

\* Neither binding operation locks the configuration row.
AddEnvironmentRuntimeBinding(v, kind) ==
    /\ changes < MaxChanges
    /\ binding[v] = None
    /\ kind = "secret" => versions # <<>>
    /\ binding' = [binding EXCEPT ![v] = kind]
    /\ changes' = changes + 1
    /\ UNCHANGED <<config, page, secretVars, claimVars, deliveryVars>>

RemoveEnvironmentRuntimeBinding(v) ==
    /\ changes < MaxChanges
    /\ binding[v] # None
    /\ binding' = [binding EXCEPT ![v] = None]
    /\ changes' = changes + 1
    /\ UNCHANGED <<config, page, secretVars, claimVars, deliveryVars>>

(***************************************************************************)
(* The secret.  Service.replace reads the current version, encrypts the    *)
(* new value for the next number, and only then writes.                    *)
(***************************************************************************)
CreateSecret ==
    /\ versions = <<>>
    /\ versions' = <<"active">>
    /\ UNCHANGED <<configVars, replacing, condemned, claimVars, deliveryVars>>

ReadVersionToReplace(a, compromised) ==
    /\ replacing[a] = None /\ page[a] = None
    /\ Current \in 1..(MaxVersions - 1)
    /\ versions[Current] = "active"
    /\ replacing' = [replacing EXCEPT ![a] = [old |-> Current, compromised |-> compromised]]
    /\ UNCHANGED <<configVars, versions, condemned, claimVars, deliveryVars>>

CurrentAssumed(old) == TRUE

\* v.Number and Audit.OldVersionID against the head, locked FOR UPDATE.
StillCurrent(old) == old = Current

Replaced(compromised) == IF compromised THEN "revoked" ELSE "superseded"

replace(a) ==
    LET old == replacing[a].old
        compromised == replacing[a].compromised
    IN  /\ replacing[a] # None
        /\ IF StillCurrent(old)
           THEN /\ versions' = Append([versions EXCEPT ![Current] = Replaced(compromised)],
                                      "active")
                /\ condemned' = condemned \cup (IF compromised THEN {old} ELSE {})
           ELSE UNCHANGED <<versions, condemned>>
        /\ replacing' = [replacing EXCEPT ![a] = None]
        /\ UNCHANGED <<configVars, claimVars, deliveryVars>>

(***************************************************************************)
(* The claim-time freeze of tryClaim: lock the configuration, count and    *)
(* resolve the secret bindings, count and resolve the literal ones, and    *)
(* commit the attempt with its frozen rows and its release.                *)
(***************************************************************************)
NothingFrozen == [config |-> None, secrets |-> <<>>, literals |-> {}]

\* A retry resolves nothing: it goes straight to the copy and the commit.
lockEnvironmentRuntimeConfig(j) ==
    /\ claim = None
    /\ live = None
    /\ Exists
    /\ j \notin corrupt
    /\ Len(attempts[j]) < MaxAttempts
    /\ claim' = [job |-> j, total |-> 0,
                 at |-> IF attempts[j] = <<>> THEN "count_secrets" ELSE "commit",
                 frozen |-> [NothingFrozen EXCEPT !.config = config]]
    /\ UNCHANGED <<configVars, secretVars, attempts, release, corrupt, live, deliveryVars>>

At(step) == claim # None /\ claim.at = step

CountBindings(step, kind, next) ==
    /\ At(step)
    /\ claim' = [claim EXCEPT !.total = Cardinality(Bound(kind)), !.at = next]
    /\ UNCHANGED <<configVars, secretVars, attempts, release, corrupt, live, deliveryVars>>

\* A resolved set of another size than the count fails the candidate.
ResolveBindings(step, found, frozen, next) ==
    /\ At(step)
    /\ claim' = IF Cardinality(found) = claim.total
                THEN [claim EXCEPT !.frozen = frozen, !.at = next]
                ELSE None
    /\ UNCHANGED <<configVars, secretVars, attempts, release, corrupt, live, deliveryVars>>

resolveRuntimeSecretBindings ==
    \/ CountBindings("count_secrets", "secret", "secrets")
    \/ LET found == {v \in Bound("secret") : versions[Current] = "active"}
       IN  ResolveBindings("secrets", found,
               [claim.frozen EXCEPT !.secrets = [v \in found |-> Current]], "count_literals")

resolveRuntimeLiteralBindings ==
    \/ CountBindings("count_literals", "literal_nonsecret", "literals")
    \/ LET found == Bound("literal_nonsecret")
       IN  ResolveBindings("literals", found, [claim.frozen EXCEPT !.literals = found], "commit")

\* A collision-free digest of the frozen rows: the rows themselves.
computeConfigDigest(frozen) == frozen

ResolvedAgain(j) == claim.frozen

\* Attempt 1 freezes what was resolved, attempt N copies attempt N-1.
Frozen(j) == IF attempts[j] = <<>> THEN claim.frozen ELSE attempts[j][Len(attempts[j])]

commitFreeze ==
    /\ At("commit")
    /\ LET j == claim.job
           digest == computeConfigDigest(Frozen(j))
       IN  IF release[j] \in {None, digest}
           THEN /\ attempts' = [attempts EXCEPT ![j] = Append(@, Frozen(j))]
                /\ release' = [release EXCEPT ![j] = digest]
                /\ live' = j
                /\ UNCHANGED corrupt
           ELSE /\ corrupt' = corrupt \cup {j}
                /\ UNCHANGED <<attempts, release, live>>
    /\ claim' = None
    /\ UNCHANGED <<configVars, secretVars, deliveryVars>>

\* A database failure, or the agent hanging up, rolls the claim back.
claimRolledBack ==
    /\ claim # None
    /\ claim' = None
    /\ UNCHANGED <<configVars, secretVars, attempts, release, corrupt, live, deliveryVars>>

\* The attempt ends and releases the slot (see LeaseLifecycle for how).
attemptEnds ==
    /\ live # None
    /\ live' = None
    /\ UNCHANGED <<configVars, secretVars, claim, attempts, release, corrupt, deliveryVars>>

(***************************************************************************)
(* Materialization: authorize the whole frozen set from locked rows, then  *)
(* read and decrypt one version after another, then answer all or nothing. *)
(***************************************************************************)
FrozenSecrets(j) == attempts[j][Len(attempts[j])].secrets

AuthorizeMaterialization ==
    /\ delivery = None
    /\ live # None
    /\ \A v \in DOMAIN FrozenSecrets(live) : versions[FrozenSecrets(live)[v]] # "revoked"
    /\ delivery' = [job |-> live, asked |-> FrozenSecrets(live), read |-> <<>>]
    /\ UNCHANGED <<configVars, secretVars, claimVars, delivered>>

Left == DOMAIN delivery.asked \ DOMAIN delivery.read

Reads(v) == [delivery EXCEPT !.read = [w \in DOMAIN @ \cup {v} |-> delivery.asked[w]]]

SkipUnreadable(v) ==
    /\ v \in Left
    /\ delivery' = IF versions[delivery.asked[v]] \in {"active", "superseded"}
                   THEN Reads(v)
                   ELSE [delivery EXCEPT !.asked = [w \in DOMAIN @ \ {v} |-> @[w]]]

\* A refused version fails the request: no partial set is answered.
MaterializeAuthorized(v) ==
    /\ v \in Left
    /\ delivery' = IF versions[delivery.asked[v]] \in {"active", "superseded"}
                   THEN Reads(v)
                   ELSE None

materialize ==
    /\ delivery # None
    /\ \/ \E v \in Variable : MaterializeAuthorized(v) /\ UNCHANGED delivered
       \/ /\ Left = {}
          /\ delivered' = delivered \cup {[job |-> delivery.job, secrets |-> delivery.read]}
          /\ delivery' = None
       \/ \* decryption, the audit row, or the connection fails
          /\ delivery' = None
          /\ UNCHANGED delivered
    /\ UNCHANGED <<configVars, secretVars, claimVars>>

----------------------------------------------------------------------------
Init ==
    /\ config = None
    /\ binding = [v \in Variable |-> None]
    /\ changes = 0
    /\ page = [a \in Admin |-> None]
    /\ versions = <<>>
    /\ replacing = [a \in Admin |-> None]
    /\ condemned = {}
    /\ claim = None
    /\ attempts = [j \in Job |-> <<>>]
    /\ release = [j \in Job |-> None]
    /\ corrupt = {}
    /\ live = None
    /\ delivery = None
    /\ delivered = {}

Next ==
    \/ \E a \in Admin : environmentConfigGet(a)
    \/ \E a \in Admin, s \in Setting : environmentConfigPost(a, s)
    \/ \E v \in Variable, kind \in BindingKind : AddEnvironmentRuntimeBinding(v, kind)
    \/ \E v \in Variable : RemoveEnvironmentRuntimeBinding(v)
    \/ CreateSecret
    \/ \E a \in Admin, c \in BOOLEAN : ReadVersionToReplace(a, c)
    \/ \E a \in Admin : replace(a)
    \/ \E j \in Job : lockEnvironmentRuntimeConfig(j)
    \/ resolveRuntimeSecretBindings
    \/ resolveRuntimeLiteralBindings
    \/ commitFreeze
    \/ claimRolledBack
    \/ attemptEnds
    \/ AuthorizeMaterialization
    \/ materialize

Spec == Init /\ [][Next]_vars

----------------------------------------------------------------------------
SecretSets == UNION {[S -> 1..MaxVersions] : S \in SUBSET Variable}
Snapshot == [config : ConfigRow, secrets : SecretSets, literals : SUBSET Variable]

\* The tables, the pages and the transactions in flight hold well-formed rows,
\* and the secret's newest version is its only active one: replace retires the
\* version it replaces in the transaction that inserts the new one.
RuntimeTypeOK ==
    /\ config \in ConfigRow \cup {None}
    /\ binding \in [Variable -> BindingKind \cup {None}]
    /\ changes \in 0..MaxChanges
    /\ page \in [Admin -> PageRow \cup {None}]
    /\ versions \in Seq(VersionState) /\ Current <= MaxVersions
    /\ \A n \in DOMAIN versions : (versions[n] = "active") <=> (n = Current)
    /\ replacing \in [Admin -> [old : 1..MaxVersions, compromised : BOOLEAN] \cup {None}]
    /\ condemned \subseteq DOMAIN versions
    /\ \A j \in Job : /\ Len(attempts[j]) <= MaxAttempts
                      /\ \A n \in DOMAIN attempts[j] : attempts[j][n] \in Snapshot
                      /\ release[j] \in Snapshot \cup {None}
    /\ corrupt \subseteq Job
    /\ live \in Job \cup {None}
    /\ delivered \subseteq [job : Job, secrets : SecretSets]

\* Every attempt of a job runs with exactly what its first attempt froze,
\* whatever was edited, unbound or rotated in between, and the digest of its
\* release is recomputed from those rows: no retry is ever refused as corrupt
\* state (copyPreviousAttemptExecution and its siblings, ensureRelease).
RetryRepeatsFirst ==
    /\ corrupt = {}
    /\ \A j \in Job : \A n \in DOMAIN attempts[j] :
          /\ attempts[j][n] = attempts[j][1]
          /\ release[j] = computeConfigDigest(attempts[j][n])

\* A first attempt runs with the configuration that is stored when its claim
\* commits: the SHARE lock of the claim's first statement keeps every edit
\* before or after the whole freeze.
FrozenConfigIsCurrent ==
    [][\A j \in Job : attempts[j] = <<>> /\ attempts'[j] # <<>>
                         => attempts'[j][1].config = config]_vars

\* An edit submitted from a page as it was loaded replaces the very settings
\* that page showed: of two administrators who loaded the same page, only one
\* edit is accepted (the compare-and-swap on the revision).
FreshEditReplacesWhatItShowed ==
    [][\A a \in Admin : page[a] # None /\ page'[a] = None /\ page[a].fresh
                           => page[a].shown = Settings]_vars

\* An agent is answered the complete set its job's first attempt froze, or
\* nothing: never some of the variables, and never a version rotated in later
\* (handleMaterializeSecrets).
DeliveredWhole ==
    \A d \in delivered : d.secrets = attempts[d.job][1].secrets

\* Once a replacement for compromise has committed, the version it was meant
\* for is never decrypted again, also not by a request that was authorized
\* before, and also not when another replacement ran at the same time.
CondemnedNeverRead ==
    [][delivery # None /\ delivery' # None =>
          \A v \in DOMAIN delivery'.read \ DOMAIN delivery.read :
             delivery'.read[v] \notin condemned]_vars

\* An accepted edit of an existing configuration, also one resubmitted after a
\* conflict or with its values put right, was made by an administrator who was
\* shown the settings it replaces: environmentConfigPost tells an administrator
\* refused for a conflict that the values of the form were refreshed and asks
\* to review and resubmit.
EditReplacesWhatWasShown ==
    [][\A a \in Admin : page[a] # None /\ page'[a] = None /\ page[a].shown # None
                           => page[a].shown = Settings]_vars

=============================================================================
