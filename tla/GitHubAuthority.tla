-------------------------- MODULE GitHubAuthority ---------------------------
(***************************************************************************)
(* What GitHub lets the control plane deploy: the installations of the     *)
(* App, the repositories they give access to, and the projects bound to    *)
(* those repositories.  Each row has an active flag and an authorization   *)
(* revision.  Every operator below is one transaction on the three tables  *)
(* under their row locks.  The App registration is always active and there *)
(* is one owner: nothing deactivates a registration, and every query is    *)
(* scoped by the owner.  An installation is suspended exactly when it is   *)
(* not active: the two columns are always written together.                *)
(***************************************************************************)
EXTENDS Naturals, FiniteSetsExt

CONSTANTS
    Installation, Repository, Project,
    Ref,            \* branches
    Place,          \* an environment with its server
    MaxRevisions,   \* bound on the sum of all authorization revisions
    None

Target == [ref : Ref, place : Place]

\* None is no row of the three tables.
ASSUME AuthorityAssumption ==
    /\ None \notin [active : BOOLEAN, revision : Nat]
    /\ None \notin [home : Installation, active : BOOLEAN, revision : Nat]
    /\ None \notin [repository : Repository, target : Target, active : BOOLEAN, revision : Nat]

VARIABLES
    installation,   \* github_installations: None, or [active, revision]
    repository,     \* github_repositories: None, or [home, active, revision]
    binding,        \* github_project_bindings: None, or
                    \* [repository, target, active, revision]
    consent         \* history: projects an administrator has bound and whose
                    \* repository has not been withdrawn since

authority == <<installation, repository, binding, consent>>

AuthorityInit ==
    /\ installation = [i \in Installation |-> None]
    /\ repository = [r \in Repository |-> None]
    /\ binding = [p \in Project |-> None]
    /\ consent = {}

RevisionOf(row) == IF row = None THEN 0 ELSE row.revision

RevisionsBounded ==
    MaxRevisions >= MapThenSumSet(LAMBDA i : RevisionOf(installation[i]), Installation)
                    + MapThenSumSet(LAMBDA r : RevisionOf(repository[r]), Repository)
                    + MapThenSumSet(LAMBDA p : RevisionOf(binding[p]), Project)

Deactivated(row) == [row EXCEPT !.active = FALSE, !.revision = @ + 1]

Active(row) == row # None /\ row.active

RepositoriesOf(i) == {r \in Repository : repository[r] # None /\ repository[r].home = i}

BoundTo(R) == {p \in Project : binding[p] # None /\ binding[p].repository \in R}

\* The joins of CaptureCheckoutBinding, ReserveCheckout and revalidateTx and
\* the four locks of lockWebhookAuthorityForPush ask for the whole chain.
Authorized(p) ==
    /\ Active(binding[p])
    /\ Active(repository[binding[p].repository])
    /\ Active(installation[repository[binding[p].repository].home])

\* GitHub or an administrator takes the repositories R away.
Withdraw(R) == consent' = consent \ BoundTo(R)

-----------------------------------------------------------------------------
(* Webhook lifecycle events, as far as they change authority.  They update *)
(* rows whether or not they were active.                                   *)

suspendInstallation(i) ==
    /\ installation[i] # None
    /\ installation' = [installation EXCEPT ![i] = Deactivated(@)]
    /\ repository' = [r \in Repository |->
                        IF r \in RepositoriesOf(i) THEN Deactivated(repository[r])
                                                   ELSE repository[r]]
    /\ binding' = [p \in Project |->
                     IF p \in BoundTo(RepositoriesOf(i)) THEN Deactivated(binding[p])
                                                         ELSE binding[p]]
    /\ Withdraw(RepositoriesOf(i))

removeRepositories(i, R) ==
    /\ installation[i] # None
    /\ R \subseteq RepositoriesOf(i)
    /\ repository' = [r \in Repository |->
                        IF r \in R THEN Deactivated(repository[r]) ELSE repository[r]]
    /\ binding' = [p \in Project |->
                     IF p \in BoundTo(R) THEN Deactivated(binding[p]) ELSE binding[p]]
    /\ Withdraw(R)
    /\ UNCHANGED installation

-----------------------------------------------------------------------------
(* What an administrator does.                                             *)

\* Mutant: bindings outlive their repositories.
bindingsKept(R) == UNCHANGED binding

\* The bindings of repositories that stop being active.
deactivateBindings(R) ==
    binding' = [p \in Project |->
                  IF p \in BoundTo(R) /\ binding[p].active THEN Deactivated(binding[p])
                                                           ELSE binding[p]]

ActiveOf(i) == {r \in RepositoriesOf(i) : repository[r].active}

\* A repository in a discovery snapshot S is active from then on, one that is
\* not is deactivated if it was active.
refreshed(i, S, r) ==
    CASE r \in S -> [home |-> i, active |-> TRUE, revision |-> repository[r].revision + 1]
      [] r \in ActiveOf(i) \ S -> Deactivated(repository[r])
      [] OTHER -> repository[r]

\* The end of the installation setup.  It alone makes an installation active
\* and adds repositories; one that is known under another installation makes
\* it fail.
CompleteHandoff(i, S) ==
    /\ \A r \in S : repository[r] # None => repository[r].home = i
    /\ installation' = [installation EXCEPT ![i] =
                          IF @ = None THEN [active |-> TRUE, revision |-> 1]
                                      ELSE [@ EXCEPT !.active = TRUE]]
    /\ repository' = [r \in Repository |->
                        IF r \in S /\ repository[r] = None
                        THEN [home |-> i, active |-> TRUE, revision |-> 1]
                        ELSE refreshed(i, S, r)]
    /\ deactivateBindings(ActiveOf(i) \ S)
    /\ Withdraw(RepositoriesOf(i) \ S)

\* Mutant: a repository that is back brings its binding back.
ReconcileRestoresBindings(i, S) ==
    /\ Active(installation[i])
    /\ repository' = [r \in Repository |->
                        refreshed(i, S \cap RepositoriesOf(i), r)]
    /\ binding' = [p \in Project |->
                     IF p \in BoundTo(RepositoriesOf(i))
                     THEN [binding[p] EXCEPT !.active = binding[p].repository \in S]
                     ELSE binding[p]]
    /\ Withdraw(RepositoriesOf(i) \ S)
    /\ UNCHANGED installation

\* Repositories of the snapshot that are not known stay unknown.
ReconcileInstallation(i, S) ==
    /\ Active(installation[i])
    /\ repository' = [r \in Repository |->
                        refreshed(i, S \cap RepositoriesOf(i), r)]
    /\ deactivateBindings(ActiveOf(i) \ S)
    /\ Withdraw(RepositoriesOf(i) \ S)
    /\ UNCHANGED installation

\* Of an installation that is active; otherwise it changes nothing.
DisableInstallation(i) ==
    /\ Active(installation[i])
    /\ installation' = [installation EXCEPT ![i] = Deactivated(@)]
    /\ repository' = [r \in Repository |->
                        IF r \in ActiveOf(i) THEN Deactivated(repository[r])
                                             ELSE repository[r]]
    /\ deactivateBindings(ActiveOf(i))
    /\ Withdraw(RepositoriesOf(i))

DisableOrReconcile(i) ==
    /\ \/ DisableInstallation(i)
       \/ \E S \in SUBSET Repository : ReconcileInstallation(i, S)
    /\ RevisionsBounded'

\* A repository belongs to one project, also when its binding is inactive.
BindRepository(p, r, t) ==
    /\ Active(repository[r])
    /\ Active(installation[repository[r].home])
    /\ BoundTo({r}) \subseteq {p}
    /\ binding' = [binding EXCEPT ![p] =
                     [repository |-> r, target |-> t, active |-> TRUE,
                      revision |-> IF @ = None THEN 1 ELSE @.revision + 1]]
    /\ consent' = consent \cup {p}
    /\ UNCHANGED <<installation, repository>>

\* The administrator's operations that leave checkout reservations alone.
SetupStep ==
    /\ \/ \E i \in Installation, S \in SUBSET Repository : CompleteHandoff(i, S)
       \/ \E p \in Project, r \in Repository, t \in Target : BindRepository(p, r, t)
    /\ RevisionsBounded'
-----------------------------------------------------------------------------
(* Properties.                                                             *)

\* A binding is active only over an active repository of an active
\* installation, whichever of the lifecycle events, setups, reconciliations,
\* disables and rebinds came before.
ActiveBindingHasAuthority ==
    \A p \in Project : Active(binding[p]) => Authorized(p)

\* A project may deploy only if an administrator has bound it since its
\* repository was last removed, suspended, disabled or left out of a snapshot:
\* a setup or a reconciliation that makes the repository and the installation
\* active again does not bring a binding back that was made earlier.
NoSilentReauthorization == \A p \in Project : Authorized(p) => p \in consent
=============================================================================
