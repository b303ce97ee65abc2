---------------------------- MODULE GitHubProofs ----------------------------
(***************************************************************************)
(* Proofs about the GitHub authority, Webhooks and Checkout, for any       *)
(* installations, repositories, projects, deliveries, bodies, requests,    *)
(* reservations and attempts, without a bound on the revisions.            *)
(*                                                                         *)
(* Authority: an active binding stands on an active repository and that on *)
(* an active installation, and was made after the last loss of either      *)
(* (AuthorityInv).  Receipts: every intent was made *)
(* by a delivery whose receipt holds exactly its push (ReceiptInv).        *)
(* Checkout: a start is exclusive, since the request in its phases holds   *)
(* the started flag of the entry, or the entry is gone for good; nothing   *)
(* returns a reservation to "reserved", so it is minted for once.          *)
(***************************************************************************)
EXTENDS Checkout, Webhooks, TLAPS

Installed == [active : BOOLEAN, revision : Nat]
Known == [home : Installation, active : BOOLEAN, revision : Nat]
Bound == [repository : Repository, target : Target, active : BOOLEAN, revision : Nat]

\* The three tables hold rows of their types or none.
AuthorityRows ==
    /\ installation \in [Installation -> Installed \cup {None}]
    /\ repository \in [Repository -> Known \cup {None}]
    /\ binding \in [Project -> Bound \cup {None}]

\* An active repository belongs to an active installation.
RepositoryHasHome ==
    \A r \in Repository : Active(repository[r]) => Active(installation[repository[r].home])

\* An active binding has been made since its repository was last withdrawn.
Consented == \A p \in Project : Active(binding[p]) => p \in consent

AuthorityInv ==
    AuthorityRows /\ RepositoryHasHome /\ ActiveBindingHasAuthority /\ Consented

-----------------------------------------------------------------------------
\* A row that is deactivated stays a row, and is not active.
LEMMA DeactivatedRow ==
    /\ \A i \in Installed : Deactivated(i) \in Installed /\ ~Active(Deactivated(i))
    /\ \A r \in Known : Deactivated(r) \in Known /\ ~Active(Deactivated(r))
    /\ \A b \in Bound : Deactivated(b) \in Bound /\ ~Active(Deactivated(b))
  <1>1. ASSUME NEW i \in Installed
        PROVE  Deactivated(i) \in Installed /\ ~Active(Deactivated(i))
    <2> DEFINE j == [i EXCEPT !.active = FALSE]
    <2>1. j \in Installed
      BY Zenon, <1>1 DEF Installed
    <2>2. i.revision + 1 \in Nat
      BY <1>1 DEF Installed
    <2>3. [j EXCEPT !.revision = i.revision + 1] \in Installed
      <3> HIDE DEF j
      <3> QED
        BY Zenon, <2>1, <2>2 DEF Installed
    <2>4. ~Deactivated(i).active
      BY Zenon, <1>1 DEF Installed, Deactivated
    <2> QED
      BY Zenon, <2>3, <2>4 DEF Active, Deactivated
  <1>2. ASSUME NEW r \in Known
        PROVE  Deactivated(r) \in Known /\ ~Active(Deactivated(r))
    <2> DEFINE j == [r EXCEPT !.active = FALSE]
    <2>1. j \in Known
      BY Zenon, <1>2 DEF Known
    <2>2. r.revision + 1 \in Nat
      BY <1>2 DEF Known
    <2>3. [j EXCEPT !.revision = r.revision + 1] \in Known
      <3> HIDE DEF j
      <3> QED
        BY Zenon, <2>1, <2>2 DEF Known
    <2>4. ~Deactivated(r).active
      BY Zenon, <1>2 DEF Known, Deactivated
    <2> QED
      BY Zenon, <2>3, <2>4 DEF Active, Deactivated
  <1>3. ASSUME NEW b \in Bound
        PROVE  Deactivated(b) \in Bound /\ ~Active(Deactivated(b))
    <2> DEFINE j == [b EXCEPT !.active = FALSE]
    <2>1. j \in Bound
      BY Zenon, <1>3 DEF Bound
    <2>2. b.revision + 1 \in Nat
      BY <1>3 DEF Bound
    <2>3. [j EXCEPT !.revision = b.revision + 1] \in Bound
      <3> HIDE DEF j
      <3> QED
        BY Zenon, <2>1, <2>2 DEF Bound
    <2>4. ~Deactivated(b).active
      BY Zenon, <1>3 DEF Bound, Deactivated
    <2> QED
      BY Zenon, <2>3, <2>4 DEF Active, Deactivated
  <1> QED
    BY Zenon, <1>1, <1>2, <1>3

\* Nothing is known to the control plane at first.
LEMMA InitAuthority == AuthorityInit => AuthorityInv
  BY Zenon DEF AuthorityInit, AuthorityInv, AuthorityRows, RepositoryHasHome,
     ActiveBindingHasAuthority, Consented, Active

\* What deactivates the repositories in D and the bindings to them keeps the
\* active bindings authorized; E is what it withdraws.
LEMMA DropKeepsAuthority ==
    ASSUME AuthorityInv, NEW D, NEW E, AuthorityRows', RepositoryHasHome', Withdraw(E),
           \A r \in E : Active(repository[r]) => r \in D,
           \A p \in Project : Active(binding'[p]) =>
              binding'[p] = binding[p] /\ binding[p].repository \notin D,
           \A r \in Repository \ D : Active(repository[r]) => Active(repository'[r])
    PROVE  AuthorityInv'
  <1> SUFFICES ASSUME NEW p \in Project, Active(binding'[p])
               PROVE  Authorized(p)' /\ p \in consent'
    BY Zenon DEF AuthorityInv, ActiveBindingHasAuthority, Consented, Active
  <1> DEFINE r == binding[p].repository
  <1>1. binding'[p] = binding[p] /\ r \notin D /\ Active(binding[p])
    BY Zenon DEF Active
  <1>2. r \in Repository
    BY Zenon, <1>1 DEF AuthorityInv, AuthorityRows, Bound, Active
  <1>3. Active(repository[r])
    BY Zenon, <1>1 DEF AuthorityInv, ActiveBindingHasAuthority, Authorized
  <1>4. Active(repository'[r])
    BY Zenon, <1>1, <1>2, <1>3
  <1>5. Active(installation'[repository'[r].home])
    BY Zenon, <1>2, <1>4 DEF RepositoryHasHome, Active
  <1>6. p \in consent'
    BY Zenon, <1>1, <1>3 DEF AuthorityInv, Consented, Withdraw, BoundTo
  <1> QED
    BY Zenon, <1>1, <1>4, <1>5, <1>6 DEF Authorized, Active

\* A suspension deactivates everything under its installation.
LEMMA SuspendKeepsAuthority ==
    ASSUME AuthorityInv, NEW i \in Installation, suspendInstallation(i)
    PROVE  AuthorityInv'
  <1>1. /\ installation[i] \in Installed
        /\ installation' = [installation EXCEPT ![i] = Deactivated(@)]
        /\ repository' = [r \in Repository |->
                        IF r \in RepositoriesOf(i) THEN Deactivated(repository[r])
                                                   ELSE repository[r]]
        /\ binding' = [p \in Project |->
                     IF p \in BoundTo(RepositoriesOf(i)) THEN Deactivated(binding[p])
                                                         ELSE binding[p]]
    BY Zenon DEF suspendInstallation, AuthorityInv, AuthorityRows
  <1>2. AuthorityRows'
    BY Zenon, <1>1, DeactivatedRow DEF AuthorityInv, AuthorityRows, RepositoriesOf, BoundTo
  <1>3. \A r \in Repository : Active(repository'[r]) =>
           /\ repository'[r] = repository[r] /\ repository[r].home # i
           /\ repository[r].home \in Installation
    BY Zenon, <1>1, DeactivatedRow DEF AuthorityInv, AuthorityRows, RepositoriesOf, Known,
       Active
  <1>4. \A j \in Installation : j # i => installation'[j] = installation[j]
    BY Zenon, <1>1 DEF AuthorityInv, AuthorityRows
  <1>5. RepositoryHasHome'
    BY <1>3, <1>4 DEF AuthorityInv, RepositoryHasHome, Active
  <1>6. \A p \in Project : Active(binding'[p]) =>
           binding'[p] = binding[p] /\ binding[p].repository \notin RepositoriesOf(i)
    BY Zenon, <1>1, DeactivatedRow DEF AuthorityInv, AuthorityRows, BoundTo, Active
  <1>7. \A r \in Repository \ RepositoriesOf(i) :
           Active(repository[r]) => Active(repository'[r])
    BY Zenon, <1>1
  <1>8. Withdraw(RepositoriesOf(i))
    BY Zenon DEF suspendInstallation
  <1> QED
    BY Zenon, <1>2, <1>5, <1>6, <1>7, <1>8, DropKeepsAuthority

\* A removal deactivates its repositories and the bindings to them.
LEMMA RemoveKeepsAuthority ==
    ASSUME AuthorityInv, NEW i \in Installation, NEW R, removeRepositories(i, R)
    PROVE  AuthorityInv'
  <1>1. /\ R \subseteq RepositoriesOf(i) /\ installation' = installation
        /\ repository' = [r \in Repository |->
                        IF r \in R THEN Deactivated(repository[r]) ELSE repository[r]]
        /\ binding' = [p \in Project |->
                     IF p \in BoundTo(R) THEN Deactivated(binding[p]) ELSE binding[p]]
    BY Zenon DEF removeRepositories
  <1>2. AuthorityRows'
    BY Zenon, <1>1, DeactivatedRow DEF AuthorityInv, AuthorityRows, RepositoriesOf, BoundTo
  <1>3. \A r \in Repository : Active(repository'[r]) => repository'[r] = repository[r]
    BY Zenon, <1>1, DeactivatedRow DEF AuthorityInv, AuthorityRows, RepositoriesOf
  <1>4. RepositoryHasHome'
    BY Zenon, <1>1, <1>3 DEF AuthorityInv, RepositoryHasHome, Active
  <1>5. \A p \in Project : Active(binding'[p]) =>
           binding'[p] = binding[p] /\ binding[p].repository \notin R
    BY Zenon, <1>1, DeactivatedRow DEF AuthorityInv, AuthorityRows, BoundTo, Active
  <1>6. \A r \in Repository \ R : Active(repository[r]) => Active(repository'[r])
    BY Zenon, <1>1
  <1> QED
    BY Zenon, <1>2, <1>4, <1>5, <1>6, DropKeepsAuthority DEF removeRepositories

\* Where deactivateBindings leaves a binding active, it left it alone.
LEMMA DroppedBindings ==
    ASSUME AuthorityRows, NEW R, deactivateBindings(R)
    PROVE  /\ binding' \in [Project -> Bound \cup {None}]
           /\ \A p \in Project : Active(binding'[p]) =>
                 binding'[p] = binding[p] /\ binding[p].repository \notin R
  BY Zenon, DeactivatedRow DEF AuthorityRows, deactivateBindings, BoundTo, Active

\* Disabling deactivates what was active under the installation.
LEMMA DisableKeepsAuthority ==
    ASSUME AuthorityInv, NEW i \in Installation, DisableInstallation(i)
    PROVE  AuthorityInv'
  <1>1. /\ installation[i] \in Installed
        /\ installation' = [installation EXCEPT ![i] = Deactivated(@)]
        /\ repository' = [r \in Repository |->
                        IF r \in ActiveOf(i) THEN Deactivated(repository[r])
                                             ELSE repository[r]]
        /\ deactivateBindings(ActiveOf(i))
    BY Zenon DEF DisableInstallation, AuthorityInv, AuthorityRows, Active
  <1>2. AuthorityRows'
    BY Zenon, <1>1, DeactivatedRow, DroppedBindings
    DEF AuthorityInv, AuthorityRows, RepositoriesOf, ActiveOf
  <1>3. \A r \in Repository : Active(repository'[r]) =>
           /\ repository'[r] = repository[r] /\ repository[r].home # i
           /\ repository[r].home \in Installation
    BY Zenon, <1>1, DeactivatedRow
    DEF AuthorityInv, AuthorityRows, RepositoriesOf, ActiveOf, Known, Active
  <1>4. \A j \in Installation : j # i => installation'[j] = installation[j]
    BY Zenon, <1>1 DEF AuthorityInv, AuthorityRows
  <1>5. RepositoryHasHome'
    BY Zenon, <1>3, <1>4 DEF AuthorityInv, RepositoryHasHome, Active
  <1>6. \A r \in Repository \ ActiveOf(i) : Active(repository[r]) => Active(repository'[r])
    BY Zenon, <1>1
  <1>7. Withdraw(RepositoriesOf(i))
    BY Zenon DEF DisableInstallation
  <1>8. \A r \in RepositoriesOf(i) : Active(repository[r]) => r \in ActiveOf(i)
    BY Zenon DEF ActiveOf, Active
  <1> QED
    BY Zenon, <1>1, <1>2, <1>5, <1>6, <1>7, <1>8, DroppedBindings, DropKeepsAuthority
    DEF AuthorityInv

\* A snapshot makes its own repositories active, the others of the
\* installation inactive, and leaves those of other installations alone.
LEMMA RefreshedRow ==
    ASSUME AuthorityRows, NEW i \in Installation, NEW S, NEW r \in Repository,
           r \in S => repository[r] # None
    PROVE  /\ refreshed(i, S, r) \in Known \cup {None}
           /\ r \in S => refreshed(i, S, r).home = i /\ Active(refreshed(i, S, r))
           /\ r \in ActiveOf(i) \ S => ~Active(refreshed(i, S, r))
           /\ r \notin S /\ r \notin ActiveOf(i) => refreshed(i, S, r) = repository[r]
  <1>1. CASE r \in S
    <2> DEFINE row == [home |-> i, active |-> TRUE, revision |-> repository[r].revision + 1]
    <2>1. refreshed(i, S, r) = row
      BY Zenon, <1>1 DEF refreshed
    <2>2. repository[r].revision \in Nat
      BY Zenon, <1>1 DEF AuthorityRows, Known
    <2>3. row \in Known /\ row.home = i /\ row.active
      BY <2>2 DEF Known
    <2>4. row # None
      BY Zenon, <2>3, AuthorityAssumption DEF Known
    <2> HIDE DEF row
    <2> QED
      BY Zenon, <1>1, <2>1, <2>3, <2>4 DEF Active
  <1>2. CASE r \notin S /\ r \in ActiveOf(i)
    <2>1. refreshed(i, S, r) = Deactivated(repository[r])
      BY Zenon, <1>2 DEF refreshed
    <2>2. repository[r] \in Known
      BY Zenon, <1>2 DEF AuthorityRows, ActiveOf, RepositoriesOf
    <2> QED
      BY Zenon, <1>2, <2>1, <2>2, DeactivatedRow
  <1>3. CASE r \notin S /\ r \notin ActiveOf(i)
    <2>1. refreshed(i, S, r) = repository[r]
      BY Zenon, <1>3 DEF refreshed
    <2> QED
      BY Zenon, <1>3, <2>1 DEF AuthorityRows
  <1> QED
    BY Zenon, <1>1, <1>2, <1>3

\* A reconciliation refreshes the known repositories of an installation that
\* is active.
LEMMA ReconcileKeepsAuthority ==
    ASSUME AuthorityInv, NEW i \in Installation, NEW S, ReconcileInstallation(i, S)
    PROVE  AuthorityInv'
  <1> DEFINE T == S \cap RepositoriesOf(i)
  <1>1. /\ Active(installation[i]) /\ installation' = installation
        /\ repository' = [r \in Repository |-> refreshed(i, T, r)]
        /\ deactivateBindings(ActiveOf(i) \ S)
    BY Zenon DEF ReconcileInstallation
  <1>2. AuthorityRows /\ \A r \in T : repository[r] # None
    BY Zenon DEF AuthorityInv, RepositoriesOf
  <1>3. /\ ActiveOf(i) \ S = ActiveOf(i) \ T
        /\ \A r \in Repository : r \in ActiveOf(i) => repository[r].home = i
    BY Zenon DEF ActiveOf, RepositoriesOf
  <1> HIDE DEF T
  <1>4. \A r \in Repository :
           /\ repository'[r] \in Known \cup {None}
           /\ r \in T => repository'[r].home = i /\ Active(repository'[r])
           /\ r \in ActiveOf(i) \ T => ~Active(repository'[r])
           /\ r \notin T /\ r \notin ActiveOf(i) => repository'[r] = repository[r]
    BY <1>1, <1>2, RefreshedRow
  <1>5. AuthorityRows'
    BY Zenon, <1>1, <1>2, <1>4, DroppedBindings DEF AuthorityRows
  <1>6. RepositoryHasHome'
    BY Zenon, <1>1, <1>4 DEF AuthorityInv, RepositoryHasHome, Active
  <1>7. \A r \in Repository \ (ActiveOf(i) \ S) : Active(repository[r]) => Active(repository'[r])
    BY Zenon, <1>3, <1>4
  <1>8. Withdraw(RepositoriesOf(i) \ S)
    BY Zenon DEF ReconcileInstallation
  <1>9. \A r \in RepositoriesOf(i) \ S : Active(repository[r]) => r \in ActiveOf(i) \ S
    BY Zenon DEF ActiveOf, Active
  <1> QED
    BY Zenon, <1>1, <1>2, <1>5, <1>6, <1>7, <1>8, <1>9, DroppedBindings, DropKeepsAuthority

\* A completed setup makes its installation active, adds what it does not
\* know and refreshes the rest.
LEMMA HandoffKeepsAuthority ==
    ASSUME AuthorityInv, NEW i \in Installation, NEW S, CompleteHandoff(i, S)
    PROVE  AuthorityInv'
  <1> DEFINE new == [active |-> TRUE, revision |-> 1]
             added == [home |-> i, active |-> TRUE, revision |-> 1]
  <1>1. /\ installation' = [installation EXCEPT ![i] =
                              IF @ = None THEN new ELSE [@ EXCEPT !.active = TRUE]]
        /\ repository' = [r \in Repository |->
                            IF r \in S /\ repository[r] = None THEN added ELSE refreshed(i, S, r)]
        /\ deactivateBindings(ActiveOf(i) \ S)
        /\ AuthorityRows
    BY Zenon DEF CompleteHandoff, AuthorityInv
  <1>2. installation'[i] \in Installed /\ installation'[i].active
    <2>1. CASE installation[i] = None
      BY Zenon, <1>1, <2>1 DEF AuthorityRows, Installed
    <2>2. CASE installation[i] # None
      <3>1. installation[i] \in Installed /\ installation'[i] = [installation[i] EXCEPT !.active = TRUE]
        BY Zenon, <1>1, <2>2 DEF AuthorityRows
      <3>2. [installation[i] EXCEPT !.active = TRUE] \in Installed
        BY Zenon, <3>1 DEF Installed
      <3>3. [installation[i] EXCEPT !.active = TRUE].active
        BY Zenon, <3>1 DEF Installed
      <3> QED
        BY Zenon, <3>1, <3>2, <3>3
    <2> QED
      BY Zenon, <2>1, <2>2
  <1>3. Active(installation'[i])
    BY Zenon, <1>2, AuthorityAssumption DEF Active, Installed
  <1>4. \A j \in Installation : j # i => installation'[j] = installation[j]
    BY Zenon, <1>1 DEF AuthorityRows
  <1>5. installation' \in [Installation -> Installed \cup {None}]
    BY Zenon, <1>1, <1>2, <1>4 DEF AuthorityRows
  <1>6. added \in Known /\ Active(added) /\ added.home = i
    <2>1. added \in Known /\ added.active /\ added.home = i
      BY Zenon DEF Known
    <2> HIDE DEF added
    <2> QED
      BY Zenon, <2>1, AuthorityAssumption DEF Known, Active
  <1> HIDE DEF added, new
  <1>7. \A r \in Repository :
           /\ repository'[r] \in Known \cup {None}
           /\ r \in S => repository'[r].home = i /\ Active(repository'[r])
           /\ r \in ActiveOf(i) \ S => ~Active(repository'[r])
           /\ r \notin S /\ r \notin ActiveOf(i) => repository'[r] = repository[r]
    <2> SUFFICES ASSUME NEW r \in Repository
                 PROVE  /\ repository'[r] \in Known \cup {None}
                        /\ r \in S => repository'[r].home = i /\ Active(repository'[r])
                        /\ r \in ActiveOf(i) \ S => ~Active(repository'[r])
                        /\ r \notin S /\ r \notin ActiveOf(i) => repository'[r] = repository[r]
      BY Zenon
    <2>1. CASE r \in S /\ repository[r] = None
      BY Zenon, <1>1, <1>6, <2>1
    <2>2. CASE ~(r \in S /\ repository[r] = None)
      BY Zenon, <1>1, <2>2, RefreshedRow
    <2> QED
      BY Zenon, <2>1, <2>2
  <1>8. AuthorityRows'
    BY Zenon, <1>1, <1>5, <1>7, DroppedBindings DEF AuthorityRows
  <1>9. RepositoryHasHome'
    <2> SUFFICES ASSUME NEW r \in Repository, Active(repository'[r])
                 PROVE  Active(installation'[repository'[r].home])
      BY Zenon DEF RepositoryHasHome, Active
    <2>1. CASE r \in S
      BY Zenon, <1>3, <1>7, <2>1
    <2>2. CASE r \notin S
      <3>1. repository'[r] = repository[r] /\ repository[r].home \in Installation
        BY Zenon, <1>1, <1>7, <2>2 DEF AuthorityRows, Known, Active
      <3>2. Active(installation[repository[r].home])
        BY Zenon, <3>1 DEF AuthorityInv, RepositoryHasHome
      <3> QED
        BY Zenon, <1>3, <1>4, <3>1, <3>2
    <2> QED
      BY Zenon, <2>1, <2>2
  <1>10. \A r \in Repository \ (ActiveOf(i) \ S) : Active(repository[r]) => Active(repository'[r])
    BY Zenon, <1>7
  <1>11. Withdraw(RepositoriesOf(i) \ S)
    BY Zenon DEF CompleteHandoff
  <1>12. \A r \in RepositoriesOf(i) \ S : Active(repository[r]) => r \in ActiveOf(i) \ S
    BY Zenon DEF ActiveOf, Active
  <1> QED
    BY Zenon, <1>1, <1>8, <1>9, <1>10, <1>11, <1>12, DroppedBindings, DropKeepsAuthority

\* A binding is made to an active repository of an active installation.
LEMMA BindKeepsAuthority ==
    ASSUME AuthorityInv, NEW p \in Project, NEW r \in Repository, NEW t \in Target,
           BindRepository(p, r, t)
    PROVE  AuthorityInv'
  <1> DEFINE row == [repository |-> r, target |-> t, active |-> TRUE,
                     revision |-> IF binding[p] = None THEN 1 ELSE binding[p].revision + 1]
  <1>1. /\ binding' = [binding EXCEPT ![p] = row]
        /\ Active(repository[r]) /\ Active(installation[repository[r].home])
        /\ installation' = installation /\ repository' = repository
        /\ AuthorityRows
    BY Zenon DEF BindRepository, AuthorityInv
  <1>2. row \in Bound /\ row.repository = r
    <2>1. (IF binding[p] = None THEN 1 ELSE binding[p].revision + 1) \in Nat
      BY <1>1 DEF AuthorityRows, Bound
    <2> QED
      BY Zenon, <2>1 DEF Bound
  <1> HIDE DEF row
  <1>3. binding'[p] = row /\ \A q \in Project : q # p => binding'[q] = binding[q]
    BY Zenon, <1>1 DEF AuthorityRows
  <1>4. AuthorityRows'
    BY Zenon, <1>1, <1>2 DEF AuthorityRows
  <1>5. RepositoryHasHome'
    BY Zenon, <1>1 DEF AuthorityInv, RepositoryHasHome, Active
  <1>6. ActiveBindingHasAuthority'
    BY <1>1, <1>2, <1>3 DEF AuthorityInv, ActiveBindingHasAuthority, Authorized, Active
  <1>7. Consented'
    <2>1. consent' = consent \cup {p}
      BY Zenon DEF BindRepository
    <2> QED
      BY Zenon, <1>3, <2>1 DEF AuthorityInv, Consented, Active
  <1> QED
    BY Zenon, <1>4, <1>5, <1>6, <1>7 DEF AuthorityInv

-----------------------------------------------------------------------------
\* Authority is kept by every step of ingress and of the administrator.
LEMMA AuthorityStep == AuthorityInv /\ [WebhookNext]_webhookVars => AuthorityInv'
  <1> SUFFICES ASSUME AuthorityInv, [WebhookNext]_webhookVars PROVE AuthorityInv'
    BY Zenon
  <1>1. CASE UNCHANGED authority
    BY Zenon, <1>1 DEF authority, AuthorityInv, AuthorityRows, RepositoryHasHome,
       ActiveBindingHasAuthority, Consented, Authorized, Active
  <1>2. ASSUME NEW d \in Delivery, NEW b \in Body, ProcessLifecycle(d, b) PROVE AuthorityInv'
    <2>1. CASE LifecycleEffect(b)
      <3>1. b.kind \in {"suspend", "unsuspend", "added", "removed"}
        BY Zenon, <1>2 DEF ProcessLifecycle
      <3>2. b.installation \in Installation
        BY Zenon, <3>1 DEF Body, Push, InstallationEvent, RepositoriesEvent, Malformed
      <3> QED
        BY Zenon, <1>1, <2>1, <3>1, <3>2, SuspendKeepsAuthority, RemoveKeepsAuthority
        DEF LifecycleEffect
    <2> QED
      BY Zenon, <1>1, <1>2, <2>1 DEF ProcessLifecycle, LifecycleAgain, Refuse
  <1>3. CASE Administer
    BY Zenon, <1>3, HandoffKeepsAuthority, BindKeepsAuthority, DisableKeepsAuthority,
       ReconcileKeepsAuthority DEF Administer, SetupStep, DisableOrReconcile
  <1>4. ASSUME NEW d \in Delivery, NEW b \in Body, ProcessPush(d, b) \/ Reject(d, b)
        PROVE  UNCHANGED authority
    BY <1>4 DEF ProcessPush, FirstPush, PushAgain, Refuse, Reject
  <1>5. NoAnswer \/ UNCHANGED webhookVars => UNCHANGED authority
    BY Zenon DEF NoAnswer, webhookVars
  <1> QED
    BY Zenon, <1>1, <1>2, <1>3, <1>4, <1>5 DEF WebhookNext, ServeHTTP

\* A project whose binding is active may deploy: its repository and its
\* installation are active too, for any number of each and whatever events,
\* setups, reconciliations and rebinds came before (github_repository.go).
THEOREM BindingsHaveAuthority == WebhookSpec => []ActiveBindingHasAuthority
  <1>1. WebhookInit => AuthorityInv
    BY Zenon, InitAuthority DEF WebhookInit
  <1>2. AuthorityInv => ActiveBindingHasAuthority
    BY Zenon DEF AuthorityInv
  <1> QED
    BY <1>1, <1>2, AuthorityStep, PTL DEF WebhookSpec

\* A project that may deploy was bound by an administrator since its
\* repository was last taken away: no setup or reconciliation brings an earlier
\* binding back (CompleteHandoff, ReconcileInstallation), for any number of
\* installations, repositories and projects.
THEOREM NoneSilentlyReauthorized == WebhookSpec => []NoSilentReauthorization
  <1>1. WebhookInit => AuthorityInv
    BY Zenon, InitAuthority DEF WebhookInit
  <1>2. AuthorityInv => NoSilentReauthorization
    BY Zenon DEF AuthorityInv, Consented, NoSilentReauthorization, Authorized
  <1> QED
    BY <1>1, <1>2, AuthorityStep, PTL DEF WebhookSpec

-----------------------------------------------------------------------------
Receipt == [body : Body, processing : {"processed", "rejected"}]

\* Every intent was made by the push its delivery's receipt holds.
ReceiptInv ==
    /\ receipt \in [Delivery -> Receipt \cup {None}]
    /\ \A n \in intents :
          /\ n.delivery \in Delivery
          /\ receipt[n.delivery] # None
          /\ receipt[n.delivery].processing = "processed"
          /\ receipt[n.delivery].body.repository = n.repository
          /\ receipt[n.delivery].body.ref = n.ref
          /\ receipt[n.delivery].body.commit = n.commit

\* What a request leaves behind: no trace, or the receipt of a delivery that
\* had none, with the intent of its push.
Recorded(d, b) ==
    /\ receipt[d] = None
    /\ \E processing \in {"processed", "rejected"} : Record(d, b, processing)
    /\ \/ intents' = intents
       \/ /\ b.kind = "push" /\ Record(d, b, "processed")
          /\ \E p \in Project : /\ \A m \in intents : ~SameIntent(m, NewIntent(p, d, b))
                                /\ intents' = intents \cup {NewIntent(p, d, b)}

\* The requests, reduced to that.
LEMMA RequestEffect ==
    ASSUME NEW d, NEW b, ServeHTTP(d, b)
    PROVE  \/ UNCHANGED <<authority, receipt, intents>>
           \/ Recorded(d, b)
  <1>1. ASSUME ProcessPush(d, b)
        PROVE  UNCHANGED <<authority, receipt, intents>> \/ Recorded(d, b)
    <2>1. CASE Refuse(d, b, 400)
      BY Zenon, <2>1 DEF Refuse
    <2>2. ASSUME NEW p \in PushTargets(b), receipt[d] = None, FirstPush(p, d, b)
          PROVE  UNCHANGED <<authority, receipt, intents>> \/ Recorded(d, b)
      BY <1>1, <2>1, <2>2 DEF ProcessPush, FirstPush, Recorded, PushTargets
    <2>3. PushAgain(d, b) => UNCHANGED <<authority, receipt, intents>>
      BY Zenon DEF PushAgain, Refuse
    <2> QED
      BY Zenon, <1>1, <2>1, <2>2, <2>3 DEF ProcessPush
  <1>2. ASSUME ProcessLifecycle(d, b)
        PROVE  UNCHANGED <<authority, receipt, intents>> \/ Recorded(d, b)
    BY <1>2 DEF ProcessLifecycle, LifecycleAgain, Refuse, Recorded
  <1>3. ASSUME Reject(d, b)
        PROVE  UNCHANGED <<authority, receipt, intents>> \/ Recorded(d, b)
    BY <1>3 DEF Reject, Refuse, Recorded
  <1> QED
    BY Zenon, <1>1, <1>2, <1>3 DEF ServeHTTP

\* Receipts and intents are kept in agreement by every step.
LEMMA ReceiptStep == ReceiptInv /\ [WebhookNext]_webhookVars => ReceiptInv'
  <1> SUFFICES ASSUME ReceiptInv, [WebhookNext]_webhookVars PROVE ReceiptInv'
    BY Zenon
  <1>1. CASE UNCHANGED <<receipt, intents>>
    BY Zenon, <1>1 DEF ReceiptInv
  <1>2. ASSUME NEW d \in Delivery, NEW b \in Body, Recorded(d, b) PROVE ReceiptInv'
    <2>1. PICK processing \in {"processed", "rejected"} : Record(d, b, processing)
      BY Zenon, <1>2 DEF Recorded
    <2> DEFINE row == [body |-> b, processing |-> processing]
    <2>2. row \in Receipt /\ row.body = b /\ row.processing = processing
      BY Zenon, <1>2, <2>1 DEF Receipt
    <2>3. row # None
      <3> HIDE DEF row
      <3> QED
        BY Zenon, <2>2, ReceiptAssumption DEF Receipt
    <2>4. receipt' = [receipt EXCEPT ![d] = row]
      BY Zenon, <2>1 DEF Record
    <2> HIDE DEF row
    <2>5. /\ receipt' \in [Delivery -> Receipt \cup {None}]
          /\ receipt'[d] = row /\ \A c \in Delivery : c # d => receipt'[c] = receipt[c]
      BY Zenon, <2>2, <2>4 DEF ReceiptInv
    <2>6. \A n \in intents : n.delivery \in Delivery /\ n.delivery # d
      BY Zenon, <1>2 DEF ReceiptInv, Recorded
    <2>7. CASE intents' = intents
      BY Zenon, <2>5, <2>6, <2>7 DEF ReceiptInv
    <2>8. ASSUME NEW p \in Project, Record(d, b, "processed"),
                 intents' = intents \cup {NewIntent(p, d, b)}
          PROVE  ReceiptInv'
      <3> DEFINE new == NewIntent(p, d, b)
      <3>1. /\ new.delivery = d /\ new.repository = b.repository /\ new.ref = b.ref
            /\ new.commit = b.commit /\ intents' = intents \cup {new}
        BY Zenon, <2>8 DEF NewIntent
      <3>2. receipt'[d] = [body |-> b, processing |-> "processed"]
        BY Zenon, <2>8 DEF Record, ReceiptInv
      <3>3. receipt'[d].body = b /\ receipt'[d].processing = "processed" /\ receipt'[d] # None
        BY <2>3, <2>5, <3>2
      <3> HIDE DEF new
      <3> QED
        BY <2>5, <2>6, <3>1, <3>3 DEF ReceiptInv
    <2> QED
      BY Zenon, <1>2, <2>7, <2>8 DEF Recorded
  <1>3. NoAnswer \/ Administer \/ UNCHANGED webhookVars => UNCHANGED <<receipt, intents>>
    BY Zenon DEF NoAnswer, Administer, webhookVars
  <1> QED
    BY Zenon, <1>1, <1>2, <1>3, RequestEffect DEF WebhookNext

\* Receipts and intents agree in every reachable state.
LEMMA ReceiptsAgree == WebhookSpec => []ReceiptInv
  <1>1. WebhookInit => ReceiptInv
    BY Zenon DEF WebhookInit, ReceiptInv
  <1> QED
    BY <1>1, ReceiptStep, PTL DEF WebhookSpec

\* However many deliveries and however a project is rebound between them, a
\* commit of a branch gets one intent, hence one deployment and one job
\* (insertIntentAndJob).
THEOREM IntentsAreUnique == WebhookSpec => []OneIntentPerCommit
  <1>1. WebhookInit => OneIntentPerCommit
    BY Zenon DEF WebhookInit, OneIntentPerCommit
  <1>2. OneIntentPerCommit /\ [WebhookNext]_webhookVars => OneIntentPerCommit'
    <2> SUFFICES ASSUME OneIntentPerCommit, [WebhookNext]_webhookVars
                 PROVE  OneIntentPerCommit'
      BY Zenon
    <2>1. CASE intents' = intents
      BY Zenon, <2>1 DEF OneIntentPerCommit
    <2>2. ASSUME NEW d, NEW b, Recorded(d, b) PROVE OneIntentPerCommit'
      BY <2>1, <2>2 DEF Recorded, OneIntentPerCommit, SameIntent
    <2>3. NoAnswer \/ Administer \/ UNCHANGED webhookVars => intents' = intents
      BY Zenon DEF NoAnswer, Administer, webhookVars
    <2> QED
      BY Zenon, <2>1, <2>2, <2>3, RequestEffect DEF WebhookNext
  <1> QED
    BY <1>1, <1>2, PTL DEF WebhookSpec

\* A recorded delivery has no second effect, whatever comes with it and
\* whatever happened since (recordDelivery).
THEOREM RedeliveriesHaveNoEffect == WebhookSpec => RedeliveryHasNoEffect
  <1>1. [WebhookNext]_webhookVars =>
          [answer' # None /\ receipt[answer'.delivery] # None =>
             UNCHANGED <<authority, receipt, intents>>]_webhookVars
    <2> SUFFICES ASSUME WebhookNext, answer' # None, receipt[answer'.delivery] # None
                 PROVE  UNCHANGED <<authority, receipt, intents>>
      BY Zenon
    <2>1. ASSUME NEW d, NEW b, ServeHTTP(d, b) PROVE answer'.delivery = d
      <3>1. \E code : Answer(d, b, code)
        BY <2>1 DEF ServeHTTP, ProcessPush, FirstPush, PushAgain, ProcessLifecycle,
           LifecycleAgain, Reject, Refuse
      <3> QED
        BY <3>1 DEF Answer
    <2>2. ~NoAnswer /\ ~Administer
      BY Zenon DEF NoAnswer, Administer
    <2> QED
      BY Zenon, <2>1, <2>2, RequestEffect DEF WebhookNext, Recorded
  <1> QED
    BY <1>1, PTL DEF WebhookSpec, RedeliveryHasNoEffect

\* A push answered 204 is queued and its receipt is there: also when its
\* commit had an intent from another delivery, and when the answer is given
\* again (ProcessPush, resultForDelivery).
THEOREM AcceptedPushesAreQueued == WebhookSpec => []AcceptedPushIsQueued
  <1>1. WebhookInit => AcceptedPushIsQueued
    BY Zenon DEF WebhookInit, AcceptedPushIsQueued
  <1>2. ReceiptInv /\ AcceptedPushIsQueued /\ [WebhookNext]_webhookVars => AcceptedPushIsQueued'
    <2> SUFFICES ASSUME ReceiptInv, AcceptedPushIsQueued, [WebhookNext]_webhookVars,
                        answer' # None, answer'.code = 204, answer'.body.kind = "push"
                 PROVE  AcceptedPushIsQueued'
      BY Zenon DEF AcceptedPushIsQueued
    <2>1. CASE UNCHANGED webhookVars
      BY Zenon, <2>1 DEF webhookVars, AcceptedPushIsQueued
    <2>2. ASSUME NEW d \in Delivery, NEW b \in Body, ServeHTTP(d, b)
          PROVE  AcceptedPushIsQueued'
      <3>1. PICK code : Answer(d, b, code)
        BY <2>2 DEF ServeHTTP, ProcessPush, FirstPush, PushAgain, ProcessLifecycle,
           LifecycleAgain, Reject, Refuse
      <3>2. answer'.delivery = d /\ answer'.body = b /\ b.kind = "push"
        BY Zenon, <3>1 DEF Answer
      <3>3. ~Refuse(d, b, 400) /\ ~Refuse(d, b, 503)
        BY DEF Refuse, Answer
      <3>4. PICK p \in PushTargets(b) :
               IF receipt[d] = None THEN FirstPush(p, d, b) ELSE PushAgain(d, b)
        BY Zenon, <2>2, <3>2, <3>3 DEF ServeHTTP, ProcessPush, ProcessLifecycle, Reject
      <3>5. CASE receipt[d] = None
        <4> DEFINE new == NewIntent(p, d, b)
        <4>1. /\ Record(d, b, "processed")
              /\ intents' = IF \E m \in intents : SameIntent(m, new) THEN intents
                                                                    ELSE intents \cup {new}
          BY Zenon, <3>3, <3>4, <3>5 DEF FirstPush
        <4>2. receipt'[d] = [body |-> b, processing |-> "processed"]
          BY Zenon, <4>1 DEF Record, ReceiptInv
        <4>3. new.repository = b.repository /\ new.ref = b.ref /\ new.commit = b.commit
          BY Zenon DEF NewIntent
        <4> HIDE DEF new
        <4>4. \E n \in intents' :
                 n.repository = b.repository /\ n.ref = b.ref /\ n.commit = b.commit
          BY <4>1, <4>3 DEF SameIntent
        <4> QED
          BY Zenon, <3>2, <4>2, <4>4 DEF AcceptedPushIsQueued
      <3>6. CASE receipt[d] # None
        <4>1. /\ UNCHANGED <<receipt, intents>> /\ receipt[d].body = b
              /\ \E n \in intents : n.delivery = d
          BY <3>3, <3>4, <3>6 DEF PushAgain, Refuse, Answer
        <4>2. PICK n \in intents : n.delivery = d
          BY Zenon, <4>1
        <4>3. /\ receipt[d] \in Receipt /\ receipt[d].processing = "processed"
              /\ n.repository = b.repository /\ n.ref = b.ref /\ n.commit = b.commit
          BY <3>6, <4>1, <4>2 DEF ReceiptInv
        <4>4. receipt[d] = [body |-> b, processing |-> "processed"]
          BY Zenon, <4>1, <4>3 DEF Receipt
        <4> QED
          BY <3>2, <4>1, <4>3, <4>4 DEF AcceptedPushIsQueued
      <3> QED
        BY Zenon, <3>5, <3>6
    <2>3. ~NoAnswer /\ ~Administer
      BY Zenon DEF NoAnswer, Administer
    <2> QED
      BY Zenon, <2>1, <2>2, <2>3 DEF WebhookNext
  <1> QED
    BY <1>1, <1>2, ReceiptsAgree, PTL DEF WebhookSpec

-----------------------------------------------------------------------------
(* Checkout, under the same authority.                                     *)

\* The phases in which a request holds the claim of a start.
Starting == {"claimed", "begun", "minted", "activated"}

Call == [pc : {"idle"}] \cup [pc : {"authorized"}, attempt : Attempt]
        \cup [pc : Starting \cup {"running", "leased"}, res : Reservation]
        \cup [pc : {"closing", "closed", "unclosed"}, res : Reservation, lease : BOOLEAN]

HasReservation(c) == c.pc \notin {"idle", "authorized"}

\* The request q is in a start of x.
Starts(q, x) == call[q].pc \in Starting /\ call[q].res = x

CheckoutRows ==
    /\ job \in [Attempt -> Job \cup {None}]
    /\ res \in [Reservation -> ReservationRow \cup {None}]
    /\ entry \in [Reservation -> RegistryEntry \cup {None}]
    /\ call \in [Request -> Call]
    /\ minted \in [Reservation -> Nat]
    /\ \A a \in current : a \in Attempt /\ job[a] # None

\* Entries and requests speak of reservations and jobs that exist, and an
\* entry's reservation is for the repository of its job.
Linked ==
    /\ \A x \in Reservation : entry[x] # None =>
          /\ res[x] # None
          /\ job[entry[x].attempt] # None
          /\ res[x].repository = job[entry[x].attempt].repository
    /\ \A q \in Request : HasReservation(call[q]) => res[call[q].res] # None
    /\ \A q \in Request : call[q].pc = "authorized" => job[call[q].attempt] # None

\* One start at a time, which keeps its entry claimed; none once it runs.
StartExclusive ==
    \A x \in Reservation :
       /\ \A q, r \in Request : Starts(q, x) /\ Starts(r, x) => q = r
       /\ \A q \in Request : Starts(q, x) => entry[x] = None \/ entry[x].started
       /\ res[x] # None /\ res[x].state = "running" =>
             /\ \A q \in Request : ~Starts(q, x)
             /\ entry[x] = None \/ entry[x].started

\* A token is minted after the reservation left "reserved", and by nobody
\* else than the start that took it from there.
MintedOnce ==
    \A x \in Reservation :
       /\ minted[x] <= 1
       /\ minted[x] > 0 => res[x] # None /\ res[x].state # "reserved"
       /\ \A q \in Request : call[q].pc = "begun" /\ call[q].res = x =>
             minted[x] = 0 /\ res[x].state # "reserved"

CheckoutInv == CheckoutRows /\ Linked /\ StartExclusive /\ MintedOnce

-----------------------------------------------------------------------------
\* A step of one request: it moves to c, and of its reservation x the row
\* becomes w, the entry e and the number of tokens m.
RequestMoves(q, x, c, w, e, m) ==
    /\ call' = [call EXCEPT ![q] = c] /\ res' = [res EXCEPT ![x] = w]
    /\ entry' = [entry EXCEPT ![x] = e] /\ minted' = [minted EXCEPT ![x] = m]
    /\ UNCHANGED <<job, current>>
    /\ res[x] # None => /\ w # None /\ w.repository = res[x].repository
                        /\ w.state = "reserved" => res[x].state = "reserved"
    /\ e # None => entry[x] # None /\ e.attempt = entry[x].attempt
    /\ HasReservation(c) => c.res = x /\ res[x] # None
    /\ c.pc = "authorized" => job[c.attempt] # None
    /\ w # None /\ w.state = "running" =>
          /\ c.pc \notin Starting
          /\ Starts(q, x) \/ (res[x] # None /\ res[x].state = "running")
          /\ e = None \/ e.started
    /\ c.pc \in Starting =>
          /\ Starts(q, x) \/ (entry[x] # None /\ ~entry[x].started)
          /\ e = None \/ e.started
    /\ e # None /\ ~e.started => ~entry[x].started \/ (Starts(q, x) /\ c.pc \notin Starting)
    /\ c.pc = "begun" => m = 0 /\ w.state # "reserved"
    /\ m <= 1
    /\ m > 0 => w # None /\ w.state # "reserved"
    /\ m # minted[x] => Starts(q, x) /\ c.pc # "begun"

\* Such a step keeps the invariant.
LEMMA RequestStep ==
    ASSUME CheckoutInv, NEW q \in Request, NEW x \in Reservation, NEW c \in Call,
           NEW w \in ReservationRow \cup {None}, NEW e \in RegistryEntry \cup {None}, NEW m \in Nat,
           RequestMoves(q, x, c, w, e, m)
    PROVE  CheckoutInv'
  <1> USE DEF RequestMoves
  <1>1. /\ call'[q] = c /\ \A r \in Request : r # q => call'[r] = call[r]
        /\ res'[x] = w /\ entry'[x] = e /\ minted'[x] = m
        /\ \A y \in Reservation : y # x =>
              res'[y] = res[y] /\ entry'[y] = entry[y] /\ minted'[y] = minted[y]
    BY Zenon DEF CheckoutInv, CheckoutRows
  <1>2. CheckoutRows'
    <2>1. /\ call' \in [Request -> Call] /\ res' \in [Reservation -> ReservationRow \cup {None}]
          /\ entry' \in [Reservation -> RegistryEntry \cup {None}]
          /\ minted' \in [Reservation -> Nat]
      BY Zenon DEF CheckoutInv, CheckoutRows
    <2> QED
      BY Zenon, <2>1 DEF CheckoutInv, CheckoutRows, Call, Job, ReservationRow, RegistryEntry
  <1>3. \A r \in Request : HasReservation(call[r]) => call[r].res \in Reservation
    BY Zenon DEF CheckoutInv, CheckoutRows, Call, HasReservation
  <1>4. Linked'
    <2>1. \A y \in Reservation : entry'[y] # None =>
             /\ res'[y] # None /\ job[entry'[y].attempt] # None
             /\ res'[y].repository = job[entry'[y].attempt].repository
      BY <1>1 DEF CheckoutInv, Linked
    <2>2. \A r \in Request : HasReservation(call'[r]) => res'[call'[r].res] # None
      BY <1>1, <1>3 DEF CheckoutInv, Linked
    <2>3. \A r \in Request : call'[r].pc = "authorized" => job[call'[r].attempt] # None
      BY <1>1 DEF CheckoutInv, Linked
    <2> QED
      BY Zenon, <2>1, <2>2, <2>3 DEF Linked, HasReservation
  <1>5. \A r \in Request, y \in Reservation : Starts(r, y)' =>
           \/ r # q /\ Starts(r, y)
           \/ r = q /\ y = x /\ c.pc \in Starting
    BY <1>1 DEF Starts, HasReservation, Starting
  <1>6. StartExclusive'
    <2> SUFFICES ASSUME NEW y \in Reservation
                 PROVE  /\ \A p, r \in Request : Starts(p, y)' /\ Starts(r, y)' => p = r
                        /\ \A r \in Request : Starts(r, y)' => entry'[y] = None \/ entry'[y].started
                        /\ res'[y] # None /\ res'[y].state = "running" =>
                             /\ \A r \in Request : ~Starts(r, y)'
                             /\ entry'[y] = None \/ entry'[y].started
      BY Zenon DEF StartExclusive
    <2>1. CASE y # x
      BY <1>1, <1>5, <2>1 DEF CheckoutInv, StartExclusive
    <2>2. CASE y = x
      <3>1. \A r \in Request : r # q /\ Starts(r, x) => ~Starts(q, x) /\ (entry[x] = None \/ entry[x].started)
        BY Zenon DEF CheckoutInv, StartExclusive
      <3>2. \A p, r \in Request : Starts(p, x)' /\ Starts(r, x)' => p = r
        BY Zenon, <1>5, <3>1 DEF CheckoutInv, StartExclusive
      <3>3. \A r \in Request : Starts(r, x)' => e = None \/ e.started
        BY Zenon, <1>5, <3>1
      <3>4. w # None /\ w.state = "running" =>
               (\A r \in Request : ~Starts(r, x)') /\ (e = None \/ e.started)
        BY Zenon, <1>5, <3>1 DEF CheckoutInv, StartExclusive
      <3> QED
        BY <1>1, <2>2, <3>2, <3>3, <3>4
    <2> QED
      BY Zenon, <2>1, <2>2
  <1>7. MintedOnce'
    <2> SUFFICES ASSUME NEW y \in Reservation
                 PROVE  /\ minted'[y] <= 1
                        /\ minted'[y] > 0 => res'[y] # None /\ res'[y].state # "reserved"
                        /\ \A r \in Request : call'[r].pc = "begun" /\ call'[r].res = y =>
                              minted'[y] = 0 /\ res'[y].state # "reserved"
      BY Zenon DEF MintedOnce
    <2>1. CASE y # x
      BY <1>1, <2>1 DEF CheckoutInv, MintedOnce, HasReservation
    <2>2. CASE y = x
      <3>1. ASSUME NEW r \in Request, r # q, call[r].pc = "begun", call[r].res = x
            PROVE  m = 0 /\ w.state # "reserved"
        <4>1. Starts(r, x) /\ res[x] # None /\ minted[x] = 0 /\ res[x].state # "reserved"
          BY Zenon, <3>1 DEF Starts, Starting, CheckoutInv, MintedOnce, Linked, HasReservation
        <4>2. ~Starts(q, x)
          BY Zenon, <3>1, <4>1 DEF CheckoutInv, StartExclusive
        <4> QED
          BY Zenon, <4>1, <4>2
      <3> QED
        BY <1>1, <2>2, <3>1
    <2> QED
      BY Zenon, <2>1, <2>2
  <1> QED
    BY Zenon, <1>2, <1>4, <1>6, <1>7 DEF CheckoutInv

\* A step that leads no request into a phase with a reservation and no
\* reservation to "running": entries are dropped or made for a reservation
\* made by the same step, and states only leave "reserved".
LEMMA QuietStep ==
    ASSUME CheckoutInv, CheckoutRows', UNCHANGED minted,
           \A a \in Attempt : job[a] # None => job'[a] = job[a],
           \A q \in Request : \/ call'[q] = call[q]
                              \/ call'[q].pc = "idle"
                              \/ call'[q].pc = "authorized" /\ job'[call'[q].attempt] # None,
           \A x \in Reservation : res[x] # None =>
              /\ res'[x] # None /\ res'[x].repository = res[x].repository
              /\ res'[x].state = res[x].state \/ res'[x].state \notin {"reserved", "running"},
           \A x \in Reservation : res[x] = None /\ res'[x] # None => res'[x].state # "running",
           \A x \in Reservation :
              \/ entry'[x] = entry[x]
              \/ entry'[x] = None
              \/ /\ res[x] = None /\ res'[x] # None
                 /\ job[entry'[x].attempt] # None
                 /\ res'[x].repository = job[entry'[x].attempt].repository
    PROVE  CheckoutInv'
  <1>1. /\ \A q \in Request : HasReservation(call[q]) => call[q].res \in Reservation
        /\ \A q \in Request : call[q].pc = "authorized" => call[q].attempt \in Attempt
        /\ \A x \in Reservation : entry[x] # None => entry[x].attempt \in Attempt
        /\ \A x \in Reservation : entry'[x] # None => entry'[x].attempt \in Attempt
    <2>1. \A c \in Call : /\ HasReservation(c) => c.res \in Reservation
                          /\ c.pc = "authorized" => c.attempt \in Attempt
      BY Zenon DEF Call, HasReservation, Starting
    <2> QED
      BY <2>1 DEF CheckoutInv, CheckoutRows, RegistryEntry
  <1>2. Linked'
    <2>1. \A x \in Reservation : entry'[x] # None =>
             /\ res'[x] # None /\ job'[entry'[x].attempt] # None
             /\ res'[x].repository = job'[entry'[x].attempt].repository
      BY <1>1 DEF CheckoutInv, Linked
    <2>2. \A q \in Request : HasReservation(call'[q]) => res'[call'[q].res] # None
      BY <1>1 DEF CheckoutInv, Linked, HasReservation
    <2>3. \A q \in Request : call'[q].pc = "authorized" => job'[call'[q].attempt] # None
      BY <1>1 DEF CheckoutInv, Linked
    <2> QED
      BY Zenon, <2>1, <2>2, <2>3 DEF Linked, HasReservation
  <1>3. \A q \in Request, x \in Reservation : Starts(q, x)' => Starts(q, x) /\ res[x] # None
    BY DEF Starts, Starting, CheckoutInv, Linked, HasReservation
  <1>4. StartExclusive'
    BY Zenon, <1>3 DEF CheckoutInv, StartExclusive, Linked
  <1>5. MintedOnce'
    BY <1>3 DEF CheckoutInv, MintedOnce, Starts, Starting
  <1> QED
    BY Zenon, <1>2, <1>4, <1>5 DEF CheckoutInv

-----------------------------------------------------------------------------
\* A change of state leaves what was reserved alone.
LEMMA ChangedRow ==
    /\ \A w \in ReservationRow, s \in State :
          /\ [w EXCEPT !.state = s] \in ReservationRow
          /\ [w EXCEPT !.state = s].state = s
          /\ [w EXCEPT !.state = s].project = w.project
          /\ [w EXCEPT !.state = s].repository = w.repository
          /\ [w EXCEPT !.state = s].bindingRevision = w.bindingRevision
    /\ \A w \in ReservationRow :
          /\ [w EXCEPT !.elapsed = TRUE] \in ReservationRow
          /\ [w EXCEPT !.elapsed = TRUE].state = w.state
          /\ [w EXCEPT !.elapsed = TRUE].project = w.project
          /\ [w EXCEPT !.elapsed = TRUE].repository = w.repository
          /\ [w EXCEPT !.elapsed = TRUE].bindingRevision = w.bindingRevision
  BY Zenon DEF ReservationRow

\* A change of an entry's flags leaves its attempt alone.
LEMMA ChangedEntry ==
    /\ \A e \in RegistryEntry, b \in BOOLEAN :
          /\ [e EXCEPT !.started = b] \in RegistryEntry
          /\ [e EXCEPT !.started = b].attempt = e.attempt
          /\ [e EXCEPT !.started = b].started = b
    /\ \A e \in RegistryEntry :
          /\ [e EXCEPT !.lease = TRUE] \in RegistryEntry
          /\ [e EXCEPT !.lease = TRUE].attempt = e.attempt
          /\ [e EXCEPT !.lease = TRUE].started = e.started
          /\ [e EXCEPT !.closed = TRUE] \in RegistryEntry
          /\ [e EXCEPT !.closed = TRUE].attempt = e.attempt
          /\ [e EXCEPT !.closed = TRUE].started = e.started
  BY Zenon DEF RegistryEntry

\* A request goes on with the reservation it has.
LEMMA ChangedCall ==
    /\ Idle \in Call /\ Idle.pc = "idle"
    /\ \A c \in Call : HasReservation(c) => c.res \in Reservation
    /\ \A c \in Call, pc \in Starting \cup {"running", "leased"} :
          c.pc \in Starting \cup {"running"} =>
             /\ [c EXCEPT !.pc = pc] \in Call /\ [c EXCEPT !.pc = pc].pc = pc
             /\ [c EXCEPT !.pc = pc].res = c.res
    /\ \A c \in Call, pc \in {"closed", "unclosed"} :
          c.pc = "closing" =>
             /\ [c EXCEPT !.pc = pc] \in Call /\ [c EXCEPT !.pc = pc].pc = pc
             /\ [c EXCEPT !.pc = pc].res = c.res
  <1>1. Idle \in Call /\ Idle.pc = "idle"
    BY Zenon DEF Idle, Call
  <1>2. \A c \in Call : HasReservation(c) => c.res \in Reservation
    BY Zenon DEF Call, HasReservation
  <1>3. ASSUME NEW c \in Call, NEW pc \in Starting \cup {"running", "leased"},
               c.pc \in Starting \cup {"running"}
        PROVE  /\ [c EXCEPT !.pc = pc] \in Call /\ [c EXCEPT !.pc = pc].pc = pc
               /\ [c EXCEPT !.pc = pc].res = c.res
    <2>1. c \in [pc : Starting \cup {"running", "leased"}, res : Reservation]
      BY Zenon, <1>3 DEF Call, Starting
    <2>2. [c EXCEPT !.pc = pc] \in [pc : Starting \cup {"running", "leased"}, res : Reservation]
      BY Zenon, <2>1
    <2> QED
      BY Zenon, <2>1, <2>2 DEF Call
  <1>4. ASSUME NEW c \in Call, NEW pc \in {"closed", "unclosed"}, c.pc = "closing"
        PROVE  /\ [c EXCEPT !.pc = pc] \in Call /\ [c EXCEPT !.pc = pc].pc = pc
               /\ [c EXCEPT !.pc = pc].res = c.res
    <2> DEFINE Closing == [pc : {"closing", "closed", "unclosed"}, res : Reservation, lease : BOOLEAN]
    <2>1. c \in Closing
      BY Zenon, <1>4 DEF Call, Starting
    <2>2. [c EXCEPT !.pc = pc] \in Closing
      BY Zenon, <2>1
    <2> QED
      BY Zenon, <2>1, <2>2 DEF Call
  <1> QED
    BY Zenon, <1>1, <1>2, <1>3, <1>4

\* What a request with a reservation finds: rows of their types, and the
\* tables as themselves where a step writes back what was there.
LEMMA OwnReservation ==
    ASSUME CheckoutInv, NEW q \in Request, HasReservation(call[q])
    PROVE  LET x == call[q].res
           IN  /\ call[q] \in Call /\ x \in Reservation /\ res[x] \in ReservationRow
               /\ entry[x] \in RegistryEntry \cup {None} /\ minted[x] \in Nat
               /\ res = [res EXCEPT ![x] = res[x]]
               /\ entry = [entry EXCEPT ![x] = entry[x]]
               /\ minted = [minted EXCEPT ![x] = minted[x]]
               /\ minted[x] <= 1
               /\ minted[x] > 0 => res[x].state # "reserved"
               /\ res[x].state = "running" =>
                     ~Starts(q, x) /\ (entry[x] = None \/ entry[x].started)
               /\ Starts(q, x) => entry[x] = None \/ entry[x].started
               /\ call[q].pc = "begun" => minted[x] = 0 /\ res[x].state # "reserved"
               /\ res[x] # None
  <1> DEFINE x == call[q].res
  <1>1. call[q] \in Call /\ x \in Reservation
    BY Zenon, ChangedCall DEF CheckoutInv, CheckoutRows
  <1>2. res[x] # None
    BY Zenon DEF CheckoutInv, Linked
  <1>3. /\ res[x] \in ReservationRow
        /\ entry[x] \in RegistryEntry \cup {None} /\ minted[x] \in Nat
        /\ res = [res EXCEPT ![x] = res[x]]
        /\ entry = [entry EXCEPT ![x] = entry[x]]
        /\ minted = [minted EXCEPT ![x] = minted[x]]
    BY Zenon, <1>1, <1>2 DEF CheckoutInv, CheckoutRows
  <1>4. /\ minted[x] <= 1
        /\ minted[x] > 0 => res[x].state # "reserved"
        /\ call[q].pc = "begun" => minted[x] = 0 /\ res[x].state # "reserved"
    BY Zenon, <1>1, <1>2 DEF CheckoutInv, MintedOnce
  <1>5. /\ res[x].state = "running" => ~Starts(q, x) /\ (entry[x] = None \/ entry[x].started)
        /\ Starts(q, x) => entry[x] = None \/ entry[x].started
    BY Zenon, <1>1, <1>2 DEF CheckoutInv, StartExclusive
  <1> QED
    BY Zenon, <1>1, <1>2, <1>3, <1>4, <1>5

\* A start claims its entry, which no start had.
LEMMA ClaimKeeps ==
    ASSUME CheckoutInv, NEW q \in Request, NEW x \in Reservation, claimStart(q, x)
    PROVE  CheckoutInv'
  <1> DEFINE c == [pc |-> "claimed", res |-> x]
             e == [entry[x] EXCEPT !.started = TRUE]
  <1>1. /\ entry[x] # None /\ ~entry[x].started
        /\ entry' = [entry EXCEPT ![x] = e] /\ call' = [call EXCEPT ![q] = c]
        /\ res' = res /\ minted' = minted /\ UNCHANGED <<job, current>>
    BY Zenon DEF claimStart, mayStart, history
  <1>2. res[x] # None
    BY Zenon, <1>1 DEF CheckoutInv, Linked
  <1>3. c \in Call /\ c.pc = "claimed" /\ c.res = x
    BY Zenon DEF Call, Starting
  <1>4. entry[x] \in RegistryEntry /\ res[x] \in ReservationRow \cup {None} /\ minted[x] \in Nat
    BY Zenon, <1>1 DEF CheckoutInv, CheckoutRows
  <1>5. e \in RegistryEntry /\ e.attempt = entry[x].attempt /\ e.started
    BY <1>4, ChangedEntry, Zenon
  <1>6. e # None
    BY <1>5, CheckoutAssumption, Zenon
  <1>7. res' = [res EXCEPT ![x] = res[x]] /\ minted' = [minted EXCEPT ![x] = minted[x]]
    BY Zenon, <1>1 DEF CheckoutInv, CheckoutRows
  <1>8. minted[x] <= 1 /\ (minted[x] > 0 => res[x].state # "reserved")
    BY Zenon DEF CheckoutInv, MintedOnce
  <1>9. res[x].state # "running"
    BY Zenon, <1>1, <1>2 DEF CheckoutInv, StartExclusive
  <1> HIDE DEF c, e
  <1>10. RequestMoves(q, x, c, res[x], e, minted[x])
    BY <1>1, <1>2, <1>3, <1>4, <1>5, <1>7, <1>8, <1>9, Zenon
    DEF RequestMoves, Starting, HasReservation
  <1> QED
    BY Zenon, <1>3, <1>4, <1>5, <1>10, RequestStep

\* The phases of a start, up to "running".
LEMMA StartKeeps ==
    ASSUME CheckoutInv, NEW q \in Request,
           \/ BeginMintAttempt(q) \/ MintCheckoutToken(q)
           \/ ActivateMintAttempt(q) \/ StartCheckout(q)
    PROVE  CheckoutInv'
  <1> DEFINE x == call[q].res
  <1>1. call[q].pc \in Starting /\ HasReservation(call[q]) /\ Starts(q, x)
    BY Zenon DEF BeginMintAttempt, MintCheckoutToken, ActivateMintAttempt, StartCheckout,
       Starting, HasReservation, Starts
  <1>2. /\ call[q] \in Call /\ x \in Reservation /\ res[x] \in ReservationRow
        /\ entry[x] \in RegistryEntry \cup {None} /\ minted[x] \in Nat
        /\ res = [res EXCEPT ![x] = res[x]]
        /\ entry = [entry EXCEPT ![x] = entry[x]]
        /\ minted = [minted EXCEPT ![x] = minted[x]]
        /\ minted[x] <= 1
        /\ minted[x] > 0 => res[x].state # "reserved"
        /\ entry[x] = None \/ entry[x].started
        /\ call[q].pc = "begun" => minted[x] = 0 /\ res[x].state # "reserved"
        /\ res[x] # None /\ res[x].state # "running"
    BY Zenon, <1>1, OwnReservation
  <1>3. ASSUME NEW s \in State \ {"reserved"}, NEW pc \in Starting \cup {"running"},
               SetState(x, s), Goto(q, pc), entry' = entry, minted' = minted,
               UNCHANGED <<job, current>>,
               pc = "begun" => minted[x] = 0, s = "running" => pc = "running"
        PROVE  CheckoutInv'
    <2> DEFINE c == [call[q] EXCEPT !.pc = pc]
               w == [res[x] EXCEPT !.state = s]
    <2>1. call' = [call EXCEPT ![q] = c] /\ res' = [res EXCEPT ![x] = w]
      BY Zenon, <1>3 DEF SetState, Goto
    <2>2. c \in Call /\ c.pc = pc /\ c.res = x
      BY <1>1, <1>2, <1>3, ChangedCall
    <2>3. w \in ReservationRow /\ w.state = s /\ w.repository = res[x].repository
      BY <1>2, <1>3, ChangedRow
    <2>4. w # None
      BY Zenon, <2>3, CheckoutAssumption
    <2> HIDE DEF c, w, x
    <2> QED
      <3>1. RequestMoves(q, x, c, w, entry[x], minted[x])
        BY Zenon, <1>1, <1>2, <1>3, <2>1, <2>2, <2>3, <2>4
           DEF RequestMoves, Starting, HasReservation
      <3> QED
        BY Zenon, <1>2, <2>2, <2>3, <3>1, RequestStep
  <1>4. CASE MintCheckoutToken(q)
    <2> DEFINE c == [call[q] EXCEPT !.pc = "minted"]
    <2>1. /\ call' = [call EXCEPT ![q] = c] /\ call[q].pc = "begun"
          /\ res' = res /\ entry' = entry /\ UNCHANGED <<job, current>>
      BY Zenon, <1>4 DEF MintCheckoutToken, Goto
    <2>2. "minted" \in Starting
      BY Zenon DEF Starting
    <2>3. c \in Call /\ c.pc = "minted" /\ c.res = x
      BY <1>1, <1>2, <2>2, ChangedCall
    <2>4. minted' = [minted EXCEPT ![x] = 1] /\ 1 \in Nat
      <3>1. minted' = [minted EXCEPT ![x] = minted[x] + 1]
        BY Zenon, <1>4 DEF MintCheckoutToken
      <3>2. minted[x] + 1 = 1
        BY <1>2, <2>1
      <3> QED
        BY <3>1, <3>2, Zenon
    <2>5. 1 <= 1 /\ res[x].state # "reserved"
      BY <1>2, <2>1
    <2> HIDE DEF c, x
    <2>6. RequestMoves(q, x, c, res[x], entry[x], 1)
      BY Zenon, <1>1, <1>2, <2>1, <2>3, <2>4, <2>5 DEF RequestMoves, Starting, HasReservation
    <2> QED
      BY Zenon, <1>2, <2>3, <2>4, <2>6, RequestStep
  <1>5. CASE BeginMintAttempt(q)
    <2>1. minted[x] = 0
      BY <1>2, <1>5 DEF BeginMintAttempt, mintable, Valid
    <2> QED
      BY Zenon, <1>3, <1>5, <2>1 DEF BeginMintAttempt, history, State, LiveStates, Starting
  <1>6. CASE ActivateMintAttempt(q)
    BY Zenon, <1>3, <1>6 DEF ActivateMintAttempt, history, State, LiveStates, Starting
  <1>7. CASE StartCheckout(q)
    BY Zenon, <1>3, <1>7 DEF StartCheckout, history, State, LiveStates, Starting
  <1> QED
    BY Zenon, <1>4, <1>5, <1>6, <1>7

\* The other steps of a request on its reservation leave the state alone or
\* make it "consumed", and the claim of the entry alone unless it is their own.
LEMMA SettleKeeps ==
    ASSUME CheckoutInv, NEW q \in Request, HasReservation(call[q]),
           NEW c \in Call, c.pc \notin Starting \cup {"authorized"},
           HasReservation(c) => c.res = call[q].res,
           call' = [call EXCEPT ![q] = c],
           res' = res \/ SetState(call[q].res, "consumed"),
           \/ entry' = entry
           \/ /\ entry[call[q].res] # None
              /\ \/ entry' = [entry EXCEPT ![call[q].res].closed = TRUE]
                 \/ entry' = [entry EXCEPT ![call[q].res].lease = TRUE]
                 \/ /\ entry' = [entry EXCEPT ![call[q].res].started = FALSE]
                    /\ call[q].pc \in Starting,
           UNCHANGED <<minted, job, current>>
    PROVE  CheckoutInv'
  <1> DEFINE x == call[q].res
             w == res'[x]
             e == entry'[x]
  <1>1. /\ call[q] \in Call /\ x \in Reservation /\ res[x] \in ReservationRow
        /\ entry[x] \in RegistryEntry \cup {None} /\ minted[x] \in Nat
        /\ res = [res EXCEPT ![x] = res[x]]
        /\ entry = [entry EXCEPT ![x] = entry[x]]
        /\ minted = [minted EXCEPT ![x] = minted[x]]
        /\ minted[x] <= 1
        /\ minted[x] > 0 => res[x].state # "reserved"
        /\ res[x].state = "running" => ~Starts(q, x) /\ (entry[x] = None \/ entry[x].started)
        /\ res[x] # None
    BY Zenon, OwnReservation
  <1>2. res \in [Reservation -> ReservationRow \cup {None}] /\ entry \in [Reservation -> RegistryEntry \cup {None}]
    BY Zenon DEF CheckoutInv, CheckoutRows
  <1>3. /\ res' = [res EXCEPT ![x] = w] /\ w \in ReservationRow
        /\ w.repository = res[x].repository
        /\ w.state = res[x].state \/ w.state = "consumed"
    <2>1. CASE res' = res
      BY ZenonT(60), <1>1, <2>1
    <2>2. CASE SetState(x, "consumed")
      <3>1. "consumed" \in State
        BY Zenon DEF State
      <3>2. w = [res[x] EXCEPT !.state = "consumed"] /\ res' = [res EXCEPT ![x] = w]
        BY <1>1, <1>2, <2>2, ZenonT(30) DEF SetState
      <3> QED
        BY <1>1, <3>1, <3>2, ChangedRow
    <2> QED
      BY Zenon, <2>1, <2>2
  <1>4. w # None
    BY Zenon, <1>3, CheckoutAssumption
  <1>5. /\ entry' = [entry EXCEPT ![x] = e] /\ e \in RegistryEntry \cup {None}
        /\ e # None => entry[x] # None /\ e.attempt = entry[x].attempt
        /\ e # None => e.started = entry[x].started \/ call[q].pc \in Starting
    <2>1. CASE entry' = entry
      BY Zenon, <1>1, <2>1
    <2>2. CASE entry[x] # None /\ entry' = [entry EXCEPT ![x].closed = TRUE]
      <3>1. e = [entry[x] EXCEPT !.closed = TRUE] /\ entry' = [entry EXCEPT ![x] = e]
        BY <1>1, <1>2, <2>2, ZenonT(30)
      <3>2. entry[x] \in RegistryEntry
        BY Zenon, <1>1, <2>2
      <3>3. e \in RegistryEntry /\ e.attempt = entry[x].attempt /\ e.started = entry[x].started
        BY <3>1, <3>2, ChangedEntry
      <3> HIDE DEF e
      <3> QED
        BY Zenon, <2>2, <3>1, <3>3
    <2>3. CASE entry[x] # None /\ entry' = [entry EXCEPT ![x].lease = TRUE]
      <3>1. e = [entry[x] EXCEPT !.lease = TRUE] /\ entry' = [entry EXCEPT ![x] = e]
        BY <1>1, <1>2, <2>3, ZenonT(30)
      <3>2. entry[x] \in RegistryEntry
        BY Zenon, <1>1, <2>3
      <3>3. e \in RegistryEntry /\ e.attempt = entry[x].attempt /\ e.started = entry[x].started
        BY <3>1, <3>2, ChangedEntry
      <3> HIDE DEF e
      <3> QED
        BY Zenon, <2>3, <3>1, <3>3
    <2>4. CASE /\ entry[x] # None /\ entry' = [entry EXCEPT ![x].started = FALSE]
               /\ call[q].pc \in Starting
      <3>1. e = [entry[x] EXCEPT !.started = FALSE] /\ entry' = [entry EXCEPT ![x] = e]
        BY <1>1, <1>2, <2>4, ZenonT(30)
      <3>2. entry[x] \in RegistryEntry
        BY Zenon, <1>1, <2>4
      <3>3. e \in RegistryEntry /\ e.attempt = entry[x].attempt
        BY <3>1, <3>2, ChangedEntry, ZenonT(30)
      <3> HIDE DEF e
      <3> QED
        BY <2>4, <3>1, <3>3, ZenonT(30)
    <2> QED
      BY Zenon, <2>1, <2>2, <2>3, <2>4
  <1>6. call[q].pc \in Starting <=> Starts(q, x)
    BY Zenon DEF Starts
  <1> HIDE DEF x, w, e
  <1>7. RequestMoves(q, x, c, w, e, minted[x])
    <2>1. c.pc # "begun" /\ c.pc # "authorized" /\ (HasReservation(c) => c.res = x)
      BY Zenon DEF Starting, x
    <2>2. w.state = "running" =>
             res[x].state = "running" /\ (e = None \/ e.started)
      BY Zenon, <1>1, <1>3, <1>5, <1>6
    <2>3. e # None /\ ~e.started => ~entry[x].started \/ Starts(q, x)
      BY Zenon, <1>5, <1>6
    <2> QED
      BY Zenon, <1>1, <1>3, <1>4, <1>5, <2>1, <2>2, <2>3 DEF RequestMoves
  <1> QED
    BY Zenon, <1>1, <1>3, <1>5, <1>7, RequestStep

\* The steps of SettleKeeps: the end of a failed start, the keeping and the
\* delivery of the lease, and a close.
LEMMA EndKeeps ==
    ASSUME CheckoutInv, NEW q \in Request,
           \/ FailStart(q) \/ KeepLease(q) \/ DeliverToken(q)
           \/ CloseCheckout(q) \/ RevokeOnClose(q)
    PROVE  CheckoutInv'
  <1> DEFINE x == call[q].res
  <1>1. call[q] \in Call
    BY Zenon DEF CheckoutInv, CheckoutRows
  <1>2. Idle \in Call /\ Idle.pc \notin Starting \cup {"authorized"} /\ ~HasReservation(Idle)
    BY Zenon, ChangedCall DEF Starting, HasReservation
  <1>3. CASE FailStart(q)
    <2>1. HasReservation(call[q]) /\ call[q].pc \in Starting
      BY Zenon, <1>3 DEF FailStart, HasReservation, Starting
    <2>2. call' = [call EXCEPT ![q] = Idle] /\ UNCHANGED <<minted, job, current>>
      BY Zenon, <1>3 DEF FailStart, Finish, history
    <2>3. res' = res \/ SetState(x, "consumed")
      BY Zenon, <1>3 DEF FailStart, closeReservation
    <2>4. \/ entry' = entry
          \/ entry[x] # None /\ entry' = [entry EXCEPT ![x].started = FALSE]
      BY Zenon, <1>3 DEF FailStart, releaseStart
    <2> QED
      BY <1>2, <2>1, <2>2, <2>3, <2>4, SettleKeeps, Zenon
  <1>4. CASE KeepLease(q)
    <2> DEFINE c == [call[q] EXCEPT !.pc = "leased"]
    <2>1. HasReservation(call[q]) /\ call[q].pc = "running"
      BY Zenon, <1>4 DEF KeepLease, HasReservation
    <2>2. c \in Call /\ c.pc = "leased" /\ c.res = x
      BY <1>1, <2>1, ChangedCall
    <2>3. call' = [call EXCEPT ![q] = c] /\ res' = res /\ UNCHANGED <<minted, job, current>>
      BY Zenon, <1>4 DEF KeepLease, Goto, history
    <2>4. \/ entry' = entry
          \/ entry[x] # None /\ entry' = [entry EXCEPT ![x].lease = TRUE]
      BY Zenon, <1>4 DEF KeepLease, setLease
    <2>5. c.pc \notin Starting \cup {"authorized"}
      BY Zenon, <2>2 DEF Starting
    <2> HIDE DEF c
    <2> QED
      BY <2>1, <2>2, <2>3, <2>4, <2>5, SettleKeeps, Zenon
  <1>5. CASE DeliverToken(q)
    <2>1. /\ HasReservation(call[q]) /\ call' = [call EXCEPT ![q] = Idle]
          /\ res' = res /\ entry' = entry /\ UNCHANGED <<minted, job, current>>
      BY Zenon, <1>5 DEF DeliverToken, HasReservation, Finish, history
    <2> QED
      BY <1>2, <2>1, SettleKeeps, Zenon
  <1>6. CASE CloseCheckout(q)
    <2>1. /\ HasReservation(call[q]) /\ call[q].pc = "closing"
          /\ res' = res \/ SetState(x, "consumed")
          /\ UNCHANGED <<minted, job, current>>
      BY Zenon, <1>6 DEF CloseCheckout, HasReservation, history
    <2>2. \/ entry' = entry
          \/ entry[x] # None /\ entry' = [entry EXCEPT ![x].closed = TRUE]
      BY Zenon, <1>6 DEF CloseCheckout, markClosed
    <2>3. ASSUME NEW pc \in {"closed", "unclosed"}, Goto(q, pc)
          PROVE  CheckoutInv'
      <3> DEFINE c == [call[q] EXCEPT !.pc = pc]
      <3>1. c \in Call /\ c.pc = pc /\ c.res = x /\ call' = [call EXCEPT ![q] = c]
        BY <1>1, <2>1, <2>3, ChangedCall, Zenon DEF Goto
      <3>2. c.pc \notin Starting \cup {"authorized"}
        BY Zenon, <3>1 DEF Starting
      <3> HIDE DEF c
      <3> QED
        BY <2>1, <2>2, <3>1, <3>2, SettleKeeps, Zenon
    <2>4. CASE Finish(q)
      BY <1>2, <2>1, <2>2, <2>4, SettleKeeps, Zenon DEF Finish
    <2> QED
      BY Zenon, <1>6, <2>3, <2>4 DEF CloseCheckout
  <1>7. CASE RevokeOnClose(q)
    <2>1. /\ HasReservation(call[q]) /\ call' = [call EXCEPT ![q] = Idle]
          /\ res' = res /\ UNCHANGED <<minted, job, current>>
      BY Zenon, <1>7 DEF RevokeOnClose, HasReservation, Finish, history
    <2>2. \/ entry' = entry
          \/ entry[x] # None /\ entry' = [entry EXCEPT ![x].closed = TRUE]
      BY Zenon, <1>7 DEF RevokeOnClose, markClosed
    <2> QED
      BY <1>2, <2>1, <2>2, SettleKeeps, Zenon
  <1> QED
    BY Zenon, <1>3, <1>4, <1>5, <1>6, <1>7

\* A close begins with the entry as it is.
LEMMA MatchKeeps ==
    ASSUME CheckoutInv, NEW q \in Request, NEW x \in Reservation, matchClose(q, x)
    PROVE  CheckoutInv'
  <1> DEFINE c == [pc |-> "closing", res |-> x, lease |-> entry[x].lease]
  <1>1. /\ entry[x] # None /\ call' = [call EXCEPT ![q] = c]
        /\ res' = res /\ entry' = entry /\ minted' = minted /\ UNCHANGED <<job, current>>
    BY Zenon DEF matchClose, history
  <1>2. entry[x] \in RegistryEntry /\ res[x] \in ReservationRow \cup {None} /\ minted[x] \in Nat
    BY Zenon, <1>1 DEF CheckoutInv, CheckoutRows
  <1>3. res[x] # None
    BY Zenon, <1>1 DEF CheckoutInv, Linked
  <1>4. entry[x].lease \in BOOLEAN
    BY Zenon, <1>2 DEF RegistryEntry
  <1>5. c \in Call /\ c.pc = "closing" /\ c.res = x
    BY Zenon, <1>4 DEF Call
  <1>6. /\ res' = [res EXCEPT ![x] = res[x]] /\ entry' = [entry EXCEPT ![x] = entry[x]]
        /\ minted' = [minted EXCEPT ![x] = minted[x]]
    BY Zenon, <1>1 DEF CheckoutInv, CheckoutRows
  <1>7. minted[x] <= 1 /\ (minted[x] > 0 => res[x].state # "reserved")
    BY Zenon DEF CheckoutInv, MintedOnce
  <1>8. res[x].state = "running" => entry[x].started
    BY Zenon, <1>1, <1>3 DEF CheckoutInv, StartExclusive
  <1> HIDE DEF c
  <1>9. RequestMoves(q, x, c, res[x], entry[x], minted[x])
    BY <1>1, <1>3, <1>5, <1>6, <1>7, <1>8, Zenon DEF RequestMoves, Starting, HasReservation
  <1> QED
    BY Zenon, <1>2, <1>5, <1>9, RequestStep

\* What is reserved: the repository and the revisions of the moment.
LEMMA ReservedRow ==
    ASSUME AuthorityRows, NEW p \in Project, Authorized(p)
    PROVE  /\ Reserved(p) \in ReservationRow
           /\ Reserved(p).project = p
           /\ Reserved(p).repository = binding[p].repository
           /\ Reserved(p).bindingRevision = binding[p].revision
  <1>1. binding[p] \in Bound
    BY Zenon DEF AuthorityRows, Authorized, Active
  <1>2. binding[p].repository \in Repository /\ binding[p].revision \in Nat
    BY Zenon, <1>1 DEF Bound
  <1>3. repository[binding[p].repository] \in Known
    BY Zenon, <1>2 DEF AuthorityRows, Authorized, Active
  <1>4. /\ repository[binding[p].repository].home \in Installation
        /\ repository[binding[p].repository].revision \in Nat
    BY Zenon, <1>3 DEF Known
  <1>5. installation[repository[binding[p].repository].home] \in Installed
    BY Zenon, <1>4 DEF AuthorityRows, Authorized, Active
  <1>6. installation[repository[binding[p].repository].home].revision \in Nat
    BY Zenon, <1>5 DEF Installed
  <1> QED
    BY Zenon, <1>2, <1>4, <1>6 DEF Reserved, ReservationRow, State, LiveStates

\* The effect of a reservation on the table.
LEMMA ReserveEffect ==
    ASSUME CheckoutRows, Linked, AuthorityRows, NEW q \in Request, NEW x \in Reservation,
           ReserveCheckout(q, x)
    PROVE  LET a == call[q].attempt
               p == job[a].project
           IN  /\ a \in Attempt /\ job[a] \in Job /\ p \in Project /\ Authorized(p) /\ res[x] = None
               /\ res' \in [Reservation -> ReservationRow \cup {None}]
               /\ res'[x] # None /\ res'[x].state \in {"reserved", "consumed"}
               /\ res'[x].project = p
               /\ res'[x].repository = binding[p].repository
               /\ res'[x].bindingRevision = binding[p].revision
               /\ \A y \in Reservation \ {x} :
                     \/ res'[y] = res[y]
                     \/ res[y] # None /\ res'[y] = [res[y] EXCEPT !.state = "expired"]
  <1> DEFINE a == call[q].attempt
             p == job[a].project
  <1>1. a \in Attempt
    BY Zenon DEF CheckoutRows, Call, ReserveCheckout, Starting
  <1>2. job[a] \in Job /\ Authorized(p) /\ res[x] = None
    BY Zenon, <1>1 DEF CheckoutRows, Linked, ReserveCheckout
  <1>3. p \in Project
    BY Zenon, <1>2 DEF Job
  <1>4. PICK s \in {"reserved", "consumed"} :
              res' = [y \in Reservation |->
                        IF y = x THEN [Reserved(p) EXCEPT !.state = s]
                        ELSE IF Sweepable(y) /\ res[y].project = p
                             THEN [res[y] EXCEPT !.state = "expired"]
                             ELSE res[y]]
    BY Zenon DEF ReserveCheckout
  <1>5. s \in State /\ "expired" \in State
    BY Zenon, <1>4 DEF State, LiveStates
  <1>6. /\ res'[x] = [Reserved(p) EXCEPT !.state = s]
        /\ \A y \in Reservation \ {x} :
              \/ res'[y] = res[y]
              \/ res[y] # None /\ res'[y] = [res[y] EXCEPT !.state = "expired"]
    BY Zenon, <1>4 DEF Sweepable, Live
  <1>7. /\ res'[x] \in ReservationRow /\ res'[x].state = s /\ res'[x].project = p
        /\ res'[x].repository = binding[p].repository
        /\ res'[x].bindingRevision = binding[p].revision
    <2>1. /\ Reserved(p) \in ReservationRow /\ Reserved(p).project = p
          /\ Reserved(p).repository = binding[p].repository
          /\ Reserved(p).bindingRevision = binding[p].revision
      BY Zenon, <1>2, <1>3, ReservedRow
    <2> DEFINE row == Reserved(p)
    <2> HIDE DEF row
    <2>2. row \in ReservationRow /\ res'[x] = [row EXCEPT !.state = s]
      BY Zenon, <1>6, <2>1 DEF row
    <2>3. /\ res'[x] \in ReservationRow /\ res'[x].state = s /\ res'[x].project = row.project
          /\ res'[x].repository = row.repository
          /\ res'[x].bindingRevision = row.bindingRevision
      BY <1>5, <2>2, ChangedRow
    <2> QED
      BY Zenon, <2>1, <2>3 DEF row
  <1>8. \A y \in Reservation : res'[y] \in ReservationRow \cup {None}
    <2>1. \A y \in Reservation \ {x} : res'[y] \in ReservationRow \cup {None}
      <3> SUFFICES ASSUME NEW y \in Reservation \ {x}, res[y] # None,
                          res'[y] = [res[y] EXCEPT !.state = "expired"]
                   PROVE  res'[y] \in ReservationRow
        BY <1>6, Zenon DEF CheckoutRows
      <3>1. res[y] \in ReservationRow
        BY Zenon DEF CheckoutRows
      <3> QED
        BY <1>5, <3>1, ChangedRow
    <2> QED
      BY Zenon, <1>7, <2>1
  <1>9. res'[x] # None
    BY Zenon, <1>7, CheckoutAssumption
  <1>10. res' \in [Reservation -> ReservationRow \cup {None}]
    BY Zenon, <1>4, <1>8
  <1> QED
    BY <1>1, <1>2, <1>3, <1>4, <1>6, <1>7, <1>9, <1>10, Zenon

\* A reservation is registered for the job's repository or not at all.
LEMMA ReserveKeeps ==
    ASSUME CheckoutInv, AuthorityRows, NEW q \in Request, NEW x \in Reservation,
           ReserveCheckout(q, x)
    PROVE  CheckoutInv'
  <1> DEFINE a == call[q].attempt
             p == job[a].project
             e == [attempt |-> a, lease |-> FALSE, started |-> FALSE, closed |-> FALSE]
  <1>1. /\ a \in Attempt /\ job[a] \in Job /\ res[x] = None
        /\ res' \in [Reservation -> ReservationRow \cup {None}]
        /\ res'[x] # None /\ res'[x].state \in {"reserved", "consumed"}
        /\ res'[x].repository = binding[p].repository
        /\ \A y \in Reservation \ {x} :
              \/ res'[y] = res[y]
              \/ res[y] # None /\ res'[y] = [res[y] EXCEPT !.state = "expired"]
    BY Zenon, ReserveEffect DEF CheckoutInv
  <1>2. /\ call' = [call EXCEPT ![q] = Idle] /\ UNCHANGED <<minted, job, current>>
        /\ entry' = entry \/ (SameRepository(a) /\ entry' = [entry EXCEPT ![x] = e])
    BY Zenon DEF ReserveCheckout, Finish, history
  <1>3. e \in RegistryEntry /\ e.attempt = a
    BY Zenon, <1>1 DEF RegistryEntry
  <1>4. job[a] # None
    BY Zenon, <1>1, CheckoutAssumption
  <1>5. SameRepository(a) => res'[x].repository = job[a].repository
    BY Zenon, <1>1 DEF SameRepository
  <1> HIDE DEF e, p
  <1>6. CheckoutRows'
    BY <1>1, <1>2, <1>3, ChangedCall DEF CheckoutInv, CheckoutRows
  <1>7. \A r \in Request : call'[r] = call[r] \/ call'[r].pc = "idle"
    BY Zenon, <1>2, ChangedCall DEF CheckoutInv, CheckoutRows
  <1>8. \A y \in Reservation : res[y] # None =>
           /\ res'[y] # None /\ res'[y].repository = res[y].repository
           /\ res'[y].state = res[y].state \/ res'[y].state \notin {"reserved", "running"}
    <2> SUFFICES ASSUME NEW y \in Reservation, res[y] # None,
                        res'[y] = [res[y] EXCEPT !.state = "expired"]
                 PROVE  /\ res'[y] # None /\ res'[y].repository = res[y].repository
                        /\ res'[y].state \notin {"reserved", "running"}
      BY Zenon, <1>1
    <2>1. res[y] \in ReservationRow /\ "expired" \in State
      BY Zenon DEF CheckoutInv, CheckoutRows, State
    <2> QED
      BY <2>1, ChangedRow, CheckoutAssumption
  <1>9. \A y \in Reservation : res[y] = None /\ res'[y] # None => res'[y].state # "running"
    BY Zenon, <1>1
  <1>10. \A y \in Reservation :
           \/ entry'[y] = entry[y]
           \/ /\ res[y] = None /\ res'[y] # None
              /\ job[entry'[y].attempt] # None
              /\ res'[y].repository = job[entry'[y].attempt].repository
    BY Zenon, <1>1, <1>2, <1>3, <1>4, <1>5 DEF CheckoutInv, CheckoutRows
  <1> QED
    BY Zenon, <1>2, <1>6, <1>7, <1>8, <1>9, <1>10, QuietStep

-----------------------------------------------------------------------------
\* Background steps: authority, leases of attempts, time and restarts.
LEMMA BackgroundKeeps ==
    ASSUME CheckoutInv,
           \/ \E q \in Request, a \in Attempt : AuthorizeCheckout(q, a)
           \/ \E q \in Request : Answered(q)
           \/ AuthorityChanges \/ InvalidateReservations
           \/ \E x \in Reservation : InvalidateCheckoutReservation(x) \/ Elapse(x) \/ sweepEntry(x)
           \/ \E a \in Attempt, j \in Job : LeaseAttempt(a, j)
           \/ \E a \in Attempt : EndAttempt(a)
           \/ Restart \/ UNCHANGED checkoutVars
    PROVE  CheckoutInv'
  <1>1. ASSUME NEW q \in Request, NEW c \in Call, call' = [call EXCEPT ![q] = c],
               c.pc = "idle" \/ (c.pc = "authorized" /\ job[c.attempt] # None),
               UNCHANGED <<job, current, res, entry, minted>>
        PROVE  CheckoutInv'
    <2>1. CheckoutRows'
      BY Zenon, <1>1 DEF CheckoutInv, CheckoutRows
    <2>2. \A r \in Request : \/ call'[r] = call[r]
                             \/ call'[r].pc = "idle"
                             \/ call'[r].pc = "authorized" /\ job'[call'[r].attempt] # None
      BY Zenon, <1>1 DEF CheckoutInv, CheckoutRows
    <2> QED
      BY Zenon, <1>1, <2>1, <2>2, QuietStep
  <1>2. ASSUME NEW q \in Request, NEW a \in Attempt, AuthorizeCheckout(q, a)
        PROVE  CheckoutInv'
    <2> DEFINE c == [pc |-> "authorized", attempt |-> a]
    <2>1. c \in Call /\ c.pc = "authorized" /\ c.attempt = a
      BY Zenon DEF Call
    <2>2. job[a] # None /\ call' = [call EXCEPT ![q] = c]
      BY Zenon, <1>2 DEF AuthorizeCheckout, CheckoutInv, CheckoutRows
    <2> HIDE DEF c
    <2> QED
      BY <1>1, <1>2, <2>1, <2>2, Zenon DEF AuthorizeCheckout, history
  <1>3. ASSUME NEW q \in Request, Answered(q) PROVE CheckoutInv'
    BY <1>1, <1>3, ChangedCall, Zenon DEF Answered, Finish, history
  <1>4. ASSUME res' \in [Reservation -> ReservationRow \cup {None}],
               \A x \in Reservation : res'[x] # res[x] =>
                  /\ res[x] # None
                  /\ \/ res'[x] = [res[x] EXCEPT !.state = "invalidated"]
                     \/ res'[x] = [res[x] EXCEPT !.elapsed = TRUE],
               UNCHANGED <<job, current, entry, call, minted>>
        PROVE  CheckoutInv'
    <2>1. CheckoutRows'
      BY Zenon, <1>4 DEF CheckoutInv, CheckoutRows
    <2>2. ASSUME NEW x \in Reservation, res[x] # None
          PROVE  /\ res'[x] # None /\ res'[x].repository = res[x].repository
                 /\ res'[x].state = res[x].state \/ res'[x].state \notin {"reserved", "running"}
      <3>1. res[x] \in ReservationRow /\ "invalidated" \in State
        BY Zenon, <2>2 DEF CheckoutInv, CheckoutRows, State
      <3>2. CASE res'[x] = res[x]
        BY Zenon, <2>2, <3>2
      <3>3. CASE res'[x] = [res[x] EXCEPT !.state = "invalidated"]
        BY <3>1, <3>3, ChangedRow, CheckoutAssumption
      <3>4. CASE res'[x] = [res[x] EXCEPT !.elapsed = TRUE]
        BY <3>1, <3>4, ChangedRow, CheckoutAssumption
      <3> QED
        BY Zenon, <1>4, <3>2, <3>3, <3>4
    <2>3. \A x \in Reservation : res[x] = None => res'[x] = None
      BY Zenon, <1>4
    <2> QED
      BY Zenon, <1>4, <2>1, <2>2, <2>3, QuietStep
  <1>5. CASE UNCHANGED <<job, current, res, entry, call, minted>>
    BY Zenon, <1>4, <1>5 DEF CheckoutInv, CheckoutRows
  <1>6. AuthorityChanges => UNCHANGED <<job, current, res, entry, call, minted>>
    BY Zenon DEF AuthorityChanges, NoteBroken, memory
  <1>7. CASE InvalidateReservations
    <2>1. PICK i \in Installation :
             LET X == {x \in Reservation : Live(x) /\ repository[res[x].repository].home = i}
             IN  res' = [x \in Reservation |->
                           IF x \in X THEN [res[x] EXCEPT !.state = "invalidated"] ELSE res[x]]
      BY Zenon, <1>7 DEF InvalidateReservations
    <2>2. \A x \in Reservation : res'[x] # res[x] =>
             res[x] # None /\ res'[x] = [res[x] EXCEPT !.state = "invalidated"]
      BY Zenon, <2>1 DEF Live
    <2>3. ASSUME NEW x \in Reservation PROVE res'[x] \in ReservationRow \cup {None}
      <3>1. res[x] \in ReservationRow \cup {None} /\ "invalidated" \in State
        BY Zenon DEF CheckoutInv, CheckoutRows, State
      <3>2. CASE res'[x] = res[x]
        BY Zenon, <3>1, <3>2
      <3>3. CASE res[x] # None /\ res'[x] = [res[x] EXCEPT !.state = "invalidated"]
        <4>1. res[x] \in ReservationRow
          BY Zenon, <3>1, <3>3
        <4> QED
          BY <3>1, <3>3, <4>1, ChangedRow
      <3> QED
        BY Zenon, <2>2, <3>2, <3>3
    <2>4. res' \in [Reservation -> ReservationRow \cup {None}]
      BY Zenon, <2>1, <2>3
    <2> QED
      BY Zenon, <1>4, <1>7, <2>2, <2>4 DEF InvalidateReservations, NoteBroken
  <1>8. ASSUME NEW x \in Reservation, Elapse(x) PROVE CheckoutInv'
    <2>1. res[x] # None /\ res' = [res EXCEPT ![x] = [res[x] EXCEPT !.elapsed = TRUE]]
      BY Zenon, <1>8 DEF Elapse, Live
    <2>2. res[x] \in ReservationRow
      BY Zenon, <2>1 DEF CheckoutInv, CheckoutRows
    <2>3. [res[x] EXCEPT !.elapsed = TRUE] \in ReservationRow
      BY Zenon, <2>2, ChangedRow
    <2>4. /\ res' \in [Reservation -> ReservationRow \cup {None}]
          /\ \A y \in Reservation : res'[y] # res[y] =>
                res[y] # None /\ res'[y] = [res[y] EXCEPT !.elapsed = TRUE]
      BY <2>1, <2>3, Zenon DEF CheckoutInv, CheckoutRows
    <2> QED
      BY Zenon, <1>4, <1>8, <2>4 DEF Elapse, memory, history
  <1>9. ASSUME NEW x \in Reservation, sweepEntry(x) PROVE CheckoutInv'
    <2>1. CheckoutRows' /\ \A y \in Reservation : entry'[y] = entry[y] \/ entry'[y] = None
      BY Zenon, <1>9 DEF sweepEntry, CheckoutInv, CheckoutRows, history
    <2> QED
      BY Zenon, <1>9, <2>1, QuietStep DEF sweepEntry, history
  <1>10. ASSUME NEW a \in Attempt, NEW j \in Job, LeaseAttempt(a, j) PROVE CheckoutInv'
    <2>1. /\ job[a] = None /\ job' = [job EXCEPT ![a] = j] /\ current' = current \cup {a}
          /\ UNCHANGED <<res, entry, call, minted>>
      BY Zenon, <1>10 DEF LeaseAttempt, memory, history
    <2>2. j # None
      BY Zenon, CheckoutAssumption
    <2>3. CheckoutRows' /\ \A b \in Attempt : job[b] # None => job'[b] = job[b]
      BY Zenon, <2>1, <2>2 DEF CheckoutInv, CheckoutRows
    <2> QED
      BY Zenon, <2>1, <2>3, QuietStep
  <1>11. ASSUME NEW a \in Attempt, EndAttempt(a) PROVE CheckoutInv'
    <2>1. UNCHANGED <<job, res, entry, call, minted>> /\ CheckoutRows'
      BY Zenon, <1>11 DEF EndAttempt, memory, history, CheckoutInv, CheckoutRows
    <2> QED
      BY Zenon, <2>1, QuietStep
  <1>12. CASE Restart
    <2>1. /\ CheckoutRows' /\ UNCHANGED <<job, res, minted>>
          /\ \A x \in Reservation : entry'[x] = None
          /\ \A q \in Request : call'[q].pc = "idle"
      BY Zenon, <1>12, ChangedCall DEF Restart, history, CheckoutInv, CheckoutRows
    <2> QED
      BY Zenon, <2>1, QuietStep
  <1>13. /\ UNCHANGED checkoutVars => UNCHANGED <<job, current, res, entry, call, minted>>
         /\ \A x \in Reservation : InvalidateCheckoutReservation(x) =>
               UNCHANGED <<job, current, res, entry, call, minted>>
    BY Zenon DEF checkoutVars, memory, history, InvalidateCheckoutReservation
  <1> QED
    BY Zenon, <1>2, <1>3, <1>5, <1>6, <1>7, <1>8, <1>9, <1>10, <1>11, <1>12, <1>13

\* Every step keeps the invariant of the checkout service.
LEMMA CheckoutStep ==
    CheckoutInv /\ AuthorityRows /\ [CheckoutNext]_checkoutVars => CheckoutInv'
  BY Zenon, ClaimKeeps, StartKeeps, EndKeeps, MatchKeeps, ReserveKeeps, BackgroundKeeps
  DEF CheckoutNext, Step

-----------------------------------------------------------------------------
\* A reservation that holds its binding's current revision was made for the
\* binding as it is, active ever since; a binding changes with its revision.
Unbroken ==
    /\ \A x \in broken : x \in Reservation /\ res[x] # None
    /\ \A x \in Reservation : res[x] # None =>
          LET b == binding[res[x].project]
          IN  /\ b # None
              /\ res[x].bindingRevision <= b.revision
              /\ res[x].bindingRevision = b.revision =>
                    x \notin broken /\ Active(b) /\ b.repository = res[x].repository

\* A binding that is there stays as it is or moves to a later revision.
Advanced ==
    \A p \in Project : binding[p] # None =>
       \/ binding'[p] = binding[p]
       \/ binding'[p] # None /\ binding'[p].revision > binding[p].revision

\* Deactivation is a later revision.
LEMMA DeactivatedAdvances ==
    ASSUME NEW b \in Bound
    PROVE  Deactivated(b) # None /\ Deactivated(b).revision > b.revision
  <1>1. Deactivated(b) # None
    BY Zenon, DeactivatedRow, AuthorityAssumption DEF Bound
  <1>2. b.revision \in Nat /\ Deactivated(b).revision = b.revision + 1
    BY Zenon DEF Bound, Deactivated
  <1> QED
    BY <1>1, <1>2

\* Every change of authority keeps AuthorityInv and raises the revision of
\* the bindings it changes.
LEMMA AuthorityEffect ==
    ASSUME AuthorityInv,
           \/ SetupStep
           \/ \E i \in Installation : DisableOrReconcile(i)
           \/ \E i \in Installation : suspendInstallation(i)
           \/ \E i \in Installation, R \in SUBSET Repository : removeRepositories(i, R)
    PROVE  AuthorityInv' /\ Advanced
  <1>1. AuthorityInv'
    BY Zenon, HandoffKeepsAuthority, BindKeepsAuthority, DisableKeepsAuthority,
       ReconcileKeepsAuthority,
       SuspendKeepsAuthority, RemoveKeepsAuthority DEF SetupStep, DisableOrReconcile
  <1>2. \A p \in Project : binding[p] # None => binding[p] \in Bound
    BY Zenon DEF AuthorityInv, AuthorityRows
  <1>3. ASSUME \A p \in Project : binding'[p] = binding[p] \/ binding'[p] = Deactivated(binding[p])
        PROVE  Advanced
    BY Zenon, <1>2, <1>3, DeactivatedAdvances DEF Advanced
  <1>4. ASSUME NEW R, deactivateBindings(R) PROVE Advanced
    BY Zenon, <1>3, <1>4 DEF deactivateBindings
  <1>5. ASSUME NEW i \in Installation, suspendInstallation(i) PROVE Advanced
    BY Zenon, <1>3, <1>5 DEF suspendInstallation
  <1>6. ASSUME NEW i \in Installation, NEW R \in SUBSET Repository, removeRepositories(i, R)
        PROVE  Advanced
    BY Zenon, <1>3, <1>6 DEF removeRepositories
  <1>7. ASSUME NEW p \in Project, NEW r \in Repository, NEW t \in Target, BindRepository(p, r, t)
        PROVE  Advanced
    <2> DEFINE row == [repository |-> r, target |-> t, active |-> TRUE,
                       revision |-> IF binding[p] = None THEN 1 ELSE binding[p].revision + 1]
    <2>1. binding' = [binding EXCEPT ![p] = row]
      BY Zenon, <1>7 DEF BindRepository
    <2>2. ASSUME binding[p] # None PROVE row # None /\ row.revision > binding[p].revision
      <3>1. binding[p].revision \in Nat
        BY Zenon, <1>2, <2>2 DEF Bound
      <3>2. row \in Bound
        BY <3>1, <2>2 DEF Bound
      <3>3. row # None
        <4> HIDE DEF row
        <4> QED
          BY Zenon, <3>2, AuthorityAssumption DEF Bound
      <3> QED
        BY <2>2, <3>1, <3>3
    <2> HIDE DEF row
    <2> QED
      BY Zenon, <2>1, <2>2 DEF Advanced, AuthorityInv, AuthorityRows
  <1>8. CASE SetupStep
    BY <1>1, <1>4, <1>7, <1>8, Zenon DEF SetupStep, CompleteHandoff
  <1>9. ASSUME NEW i \in Installation, DisableOrReconcile(i) PROVE Advanced
    BY <1>4, <1>9, Zenon DEF DisableOrReconcile, DisableInstallation, ReconcileInstallation
  <1>10. Advanced
    BY <1>5, <1>6, <1>8, <1>9, Zenon
  <1> QED
    BY Zenon, <1>1, <1>10

\* What a step may do to a row: only StartCheckout makes it run, and only a
\* close consumes one that runs.
RowMoves(x) ==
    \/ res'[x] = res[x]
    \/ res[x] # None /\ res'[x] = [res[x] EXCEPT !.elapsed = TRUE]
    \/ /\ res[x] # None
       /\ \E s \in State :
             /\ res'[x] = [res[x] EXCEPT !.state = s]
             /\ s = "running" => revalidate(x)
             /\ s = "consumed" /\ res[x].state = "running" =>
                   \E q \in Request : call[q].pc = "closing" /\ call[q].res = x
    \/ res[x] = None /\ \E q \in Request : ReserveCheckout(q, x)

\* Every step does that to every row.
LEMMA RowEffect ==
    ASSUME CheckoutInv, AuthorityRows, [CheckoutNext]_checkoutVars, NEW x \in Reservation
    PROVE  RowMoves(x)
  <1>0. /\ res \in [Reservation -> ReservationRow \cup {None}]
        /\ {"minting", "active", "running", "consumed", "expired", "invalidated"} \subseteq State
    BY Zenon DEF CheckoutInv, CheckoutRows, State, LiveStates
  <1>1. CASE res' = res
    BY Zenon, <1>1 DEF RowMoves
  <1>2. ASSUME NEW y \in Reservation, NEW s \in State, res[y] # None, SetState(y, s),
               s = "running" => revalidate(y),
               s = "consumed" /\ res[y].state = "running" =>
                   \E q \in Request : call[q].pc = "closing" /\ call[q].res = y
        PROVE  RowMoves(x)
    <2>1. CASE x = y
      <3>1. res'[x] = [res[x] EXCEPT !.state = s]
        BY Zenon, <1>0, <1>2, <2>1 DEF SetState
      <3> QED
        BY Zenon, <1>2, <2>1, <3>1 DEF RowMoves
    <2>2. CASE x # y
      <3>1. res'[x] = res[x]
        BY Zenon, <1>0, <1>2, <2>2 DEF SetState
      <3> QED
        BY Zenon, <3>1 DEF RowMoves
    <2> QED
      BY Zenon, <2>1, <2>2
  <1>3. ASSUME NEW q \in Request, NEW y \in Reservation, ReserveCheckout(q, y)
        PROVE  RowMoves(x)
    <2>1. CASE x = y
      <3>1. res[x] = None
        BY Zenon, <1>3, <2>1 DEF ReserveCheckout
      <3> QED
        BY Zenon, <1>3, <2>1, <3>1 DEF RowMoves
    <2>2. CASE x # y
      <3>1. \/ res'[x] = res[x]
            \/ res[x] # None /\ res'[x] = [res[x] EXCEPT !.state = "expired"]
        BY <1>3, <2>2, ReserveEffect DEF CheckoutInv
      <3> QED
        BY Zenon, <1>0, <3>1 DEF RowMoves
    <2> QED
      BY Zenon, <2>1, <2>2
  <1>4. ASSUME NEW q \in Request, Step(q) PROVE RowMoves(x)
    <2>1. ASSUME HasReservation(call[q])
          PROVE  /\ call[q].res \in Reservation /\ res[call[q].res] # None
                 /\ res[call[q].res].state = "running" => ~Starts(q, call[q].res)
      BY Zenon, <2>1, OwnReservation
    <2>2. CASE BeginMintAttempt(q) \/ ActivateMintAttempt(q) \/ StartCheckout(q)
      <3>1. HasReservation(call[q])
        BY Zenon, <2>2 DEF BeginMintAttempt, ActivateMintAttempt, StartCheckout, HasReservation
      <3>2. \E s \in {"minting", "active", "running"} :
               SetState(call[q].res, s) /\ (s = "running" => revalidate(call[q].res))
        BY Zenon, <2>2 DEF BeginMintAttempt, ActivateMintAttempt, StartCheckout, Valid
      <3> QED
        BY Zenon, <1>0, <1>2, <2>1, <3>1, <3>2
    <2>3. CASE FailStart(q)
      <3>1. HasReservation(call[q]) /\ Starts(q, call[q].res)
        BY Zenon, <2>3 DEF FailStart, HasReservation, Starts, Starting
      <3>2. res' = res \/ SetState(call[q].res, "consumed")
        BY Zenon, <2>3 DEF FailStart, closeReservation
      <3> QED
        BY Zenon, <1>0, <1>1, <1>2, <2>1, <3>1, <3>2
    <2>4. CASE CloseCheckout(q)
      <3>1. HasReservation(call[q]) /\ call[q].pc = "closing"
        BY Zenon, <2>4 DEF CloseCheckout, HasReservation
      <3>2. res' = res \/ SetState(call[q].res, "consumed")
        BY Zenon, <2>4 DEF CloseCheckout
      <3> QED
        BY Zenon, <1>0, <1>1, <1>2, <2>1, <3>1, <3>2
    <2>5. Answered(q) \/ MintCheckoutToken(q) \/ KeepLease(q) \/ DeliverToken(q)
          \/ RevokeOnClose(q) => res' = res
      BY Zenon DEF Answered, MintCheckoutToken, KeepLease, DeliverToken, RevokeOnClose
    <2> QED
      BY Zenon, <1>1, <1>4, <2>2, <2>3, <2>4, <2>5 DEF Step
  <1>5. CASE InvalidateReservations
    <2>1. PICK i \in Installation :
             LET X == {y \in Reservation : Live(y) /\ repository[res[y].repository].home = i}
             IN  res' = [y \in Reservation |->
                           IF y \in X THEN [res[y] EXCEPT !.state = "invalidated"] ELSE res[y]]
      BY Zenon, <1>5 DEF InvalidateReservations
    <2>2. \/ res'[x] = res[x]
          \/ res[x] # None /\ res'[x] = [res[x] EXCEPT !.state = "invalidated"]
      BY Zenon, <2>1 DEF Live
    <2> QED
      BY Zenon, <1>0, <2>2 DEF RowMoves
  <1>6. ASSUME NEW y \in Reservation, Elapse(y) PROVE RowMoves(x)
    <2>1. \/ res'[x] = res[x]
          \/ res[x] # None /\ res'[x] = [res[x] EXCEPT !.elapsed = TRUE]
      BY <1>0, <1>6, Zenon DEF Elapse, Live
    <2> QED
      BY Zenon, <2>1 DEF RowMoves
  <1>7. /\ \A q \in Request, a \in Attempt : AuthorizeCheckout(q, a) => res' = res
        /\ \A q \in Request, y \in Reservation :
              claimStart(q, y) \/ matchClose(q, y) => res' = res
        /\ \A y \in Reservation :
              InvalidateCheckoutReservation(y) \/ sweepEntry(y) => res' = res
        /\ \A a \in Attempt, j \in Job : LeaseAttempt(a, j) => res' = res
        /\ \A a \in Attempt : EndAttempt(a) => res' = res
        /\ AuthorityChanges \/ Restart \/ UNCHANGED checkoutVars => res' = res
    BY Zenon DEF AuthorizeCheckout, claimStart, matchClose, InvalidateCheckoutReservation,
       sweepEntry,
       LeaseAttempt, EndAttempt, AuthorityChanges, Restart, checkoutVars
  <1> QED
    BY Zenon, <1>1, <1>3, <1>4, <1>5, <1>6, <1>7 DEF CheckoutNext

\* A reservation keeps what it was made for, and none disappears.
LEMMA RowsKept ==
    ASSUME CheckoutInv, AuthorityRows, [CheckoutNext]_checkoutVars,
           NEW x \in Reservation, res[x] # None
    PROVE  /\ res'[x] # None /\ res'[x].project = res[x].project
           /\ res'[x].repository = res[x].repository
           /\ res'[x].bindingRevision = res[x].bindingRevision
  <1>1. res[x] \in ReservationRow
    BY Zenon DEF CheckoutInv, CheckoutRows
  <1>2. \/ res'[x] = res[x]
        \/ res'[x] = [res[x] EXCEPT !.elapsed = TRUE]
        \/ \E s \in State : res'[x] = [res[x] EXCEPT !.state = s]
    BY Zenon, RowEffect DEF RowMoves
  <1>3. CASE res'[x] = [res[x] EXCEPT !.elapsed = TRUE]
    BY Zenon, <1>1, <1>3, ChangedRow, CheckoutAssumption
  <1>4. ASSUME NEW s \in State, res'[x] = [res[x] EXCEPT !.state = s]
        PROVE  /\ res'[x] # None /\ res'[x].project = res[x].project
               /\ res'[x].repository = res[x].repository
               /\ res'[x].bindingRevision = res[x].bindingRevision
    BY <1>1, <1>4, ChangedRow, CheckoutAssumption
  <1> QED
    BY <1>2, <1>3, <1>4, Zenon

\* A reservation is made on an authorized binding, at its revision.
LEMMA UnbrokenStep ==
    ASSUME CheckoutInv, AuthorityInv, Unbroken, [CheckoutNext]_checkoutVars
    PROVE  AuthorityInv' /\ Unbroken'
  <1> USE DEF Unbroken
  <1>1. AuthorityRows /\ \A x \in Reservation : res[x] # None =>
           /\ res[x] \in ReservationRow /\ res[x].project \in Project
           /\ res[x].bindingRevision \in Nat
    BY Zenon DEF AuthorityInv, CheckoutInv, CheckoutRows, ReservationRow
  <1>2. CASE UNCHANGED <<authority, broken>>
    <2>1. AuthorityInv'
      BY Zenon, <1>2 DEF authority, AuthorityInv, AuthorityRows, RepositoryHasHome,
         ActiveBindingHasAuthority, Consented, Authorized, Active
    <2>2. binding' = binding /\ broken' = broken
      BY Zenon, <1>2 DEF authority
    <2>3. ASSUME NEW x \in Reservation, res[x] = None, NEW q \in Request, ReserveCheckout(q, x)
          PROVE  LET b == binding[res'[x].project]
                 IN  /\ b # None /\ res'[x].bindingRevision = b.revision /\ b.revision \in Nat
                     /\ x \notin broken /\ Active(b) /\ b.repository = res'[x].repository
      <3> DEFINE p == job[call[q].attempt].project
      <3>1. /\ p \in Project /\ Authorized(p) /\ res'[x].project = p
            /\ res'[x].repository = binding[p].repository
            /\ res'[x].bindingRevision = binding[p].revision
        BY <1>1, <2>3, ReserveEffect DEF CheckoutInv
      <3>2. binding[p] \in Bound /\ binding[p] # None /\ Active(binding[p])
        BY <1>1, <3>1, Zenon DEF AuthorityRows, Authorized, Active
      <3>3. binding[p].revision \in Nat
        BY Zenon, <3>2 DEF Bound
      <3> QED
        BY <2>3, <3>1, <3>2, <3>3, ZenonT(60)
    <2>4. ASSUME NEW x \in Reservation, res'[x] # None
          PROVE  LET b == binding[res'[x].project]
                 IN  /\ b # None /\ res'[x].bindingRevision <= b.revision
                     /\ res'[x].bindingRevision = b.revision =>
                           x \notin broken /\ Active(b) /\ b.repository = res'[x].repository
      <3>1. CASE res[x] # None
        BY Zenon, <1>1, <3>1, RowsKept
      <3>2. CASE res[x] = None
        <4>1. \E q \in Request : ReserveCheckout(q, x)
          BY <1>1, <2>4, <3>2, RowEffect, Zenon DEF RowMoves
        <4> QED
          BY <2>3, <3>2, <4>1
      <3> QED
        BY Zenon, <3>1, <3>2
    <2>5. \A x \in broken : res'[x] # None
      BY Zenon, <1>1, RowsKept
    <2> QED
      BY Zenon, <2>1, <2>2, <2>4, <2>5 DEF Active
  <1>3. CASE AuthorityChanges \/ InvalidateReservations
    <2>1. AuthorityInv' /\ Advanced
      BY Zenon, <1>3, AuthorityEffect DEF AuthorityChanges, InvalidateReservations
    <2>2. broken' = broken \cup
             {x \in Reservation : /\ res[x] # None
                                  /\ \/ res[x].project \in {p \in Project : ~Authorized(p)'}
                                     \/ binding'[res[x].project].repository # res[x].repository}
      BY Zenon, <1>3 DEF AuthorityChanges, InvalidateReservations, NoteBroken
    <2>3. \A x \in broken' : x \in Reservation /\ res'[x] # None
      BY Zenon, <1>1, <2>2, RowsKept
    <2>4. ASSUME NEW x \in Reservation, res'[x] # None PROVE res[x] # None
      BY Zenon, <1>3, <2>4 DEF AuthorityChanges, InvalidateReservations, Live
    <2>5. ASSUME NEW x \in Reservation, res[x] # None
          PROVE  LET b == binding'[res[x].project]
                 IN  /\ b # None /\ res[x].bindingRevision <= b.revision
                     /\ res[x].bindingRevision = b.revision =>
                           x \notin broken' /\ Active(b) /\ b.repository = res[x].repository
      <3> PICK p \in Project : p = res[x].project
        BY Zenon, <1>1, <2>5
      <3>1. /\ p \in Project /\ res[x].bindingRevision \in Nat
            /\ binding[p] # None /\ res[x].bindingRevision <= binding[p].revision
        BY Zenon, <1>1, <2>5
      <3>2. binding[p].revision \in Nat
        BY Zenon, <1>1, <3>1 DEF AuthorityRows, Bound
      <3>3. CASE binding'[p] = binding[p]
        <4>1. Active(binding'[p]) => Authorized(p)'
          BY ZenonT(60), <2>1, <3>1 DEF AuthorityInv, ActiveBindingHasAuthority, Active
        <4> QED
          BY Zenon, <2>2, <2>5, <3>1, <3>3, <4>1
      <3>4. CASE binding'[p] # None /\ binding'[p].revision > binding[p].revision
        <4>1. binding'[p].revision \in Nat
          BY Zenon, <2>1, <3>1, <3>4 DEF AuthorityInv, AuthorityRows, Bound
        <4> QED
          BY <3>1, <3>2, <3>4, <4>1
      <3> QED
        BY Zenon, <2>1, <3>1, <3>3, <3>4 DEF Advanced
    <2>6. ASSUME NEW x \in Reservation, res'[x] # None
          PROVE  LET b == binding'[res'[x].project]
                 IN  /\ b # None /\ res'[x].bindingRevision <= b.revision
                     /\ res'[x].bindingRevision = b.revision =>
                           x \notin broken' /\ Active(b) /\ b.repository = res'[x].repository
      BY Zenon, <1>1, <2>4, <2>5, <2>6, RowsKept
    <2> QED
      BY Zenon, <2>1, <2>3, <2>6 DEF Active
  <1>4. AuthorityChanges \/ InvalidateReservations \/ UNCHANGED <<authority, broken>>
    BY ZenonT(30) DEF CheckoutNext, Step, checkoutVars, history, AuthorizeCheckout,
       ReserveCheckout, claimStart,
       matchClose, Answered, BeginMintAttempt, MintCheckoutToken, ActivateMintAttempt,
       StartCheckout, FailStart, KeepLease, DeliverToken, CloseCheckout, RevokeOnClose,
       InvalidateCheckoutReservation, Elapse, sweepEntry, LeaseAttempt, EndAttempt, Restart
  <1> QED
    BY Zenon, <1>2, <1>3, <1>4

-----------------------------------------------------------------------------
\* What every reachable state of the checkout service keeps.
LEMMA CheckoutInvariant == CheckoutSpec => [](CheckoutInv /\ AuthorityInv /\ Unbroken)
  <1>1. CheckoutInit => CheckoutInv /\ AuthorityInv /\ Unbroken
    <2> SUFFICES ASSUME CheckoutInit PROVE CheckoutInv /\ AuthorityInv /\ Unbroken
      BY Zenon
    <2>1. AuthorityInv
      BY Zenon, InitAuthority DEF CheckoutInit
    <2>2. CheckoutRows /\ \A q \in Request : call[q].pc = "idle"
      BY Zenon, ChangedCall DEF CheckoutInit, CheckoutRows
    <2>3. Linked
      BY Zenon, <2>2 DEF CheckoutInit, Linked, HasReservation
    <2>4. StartExclusive
      BY Zenon, <2>2 DEF CheckoutInit, StartExclusive, Starts, Starting
    <2>5. MintedOnce
      BY <2>2 DEF CheckoutInit, MintedOnce
    <2>6. Unbroken
      BY Zenon DEF CheckoutInit, Unbroken
    <2> QED
      BY Zenon, <2>1, <2>2, <2>3, <2>4, <2>5, <2>6 DEF CheckoutInv
  <1>2. CheckoutInv /\ AuthorityInv /\ Unbroken /\ [CheckoutNext]_checkoutVars
        => (CheckoutInv /\ AuthorityInv /\ Unbroken)'
    BY Zenon, CheckoutStep, UnbrokenStep DEF AuthorityInv
  <1> QED
    BY <1>1, <1>2, PTL DEF CheckoutSpec

\* However starts fail, are retried and interleave, also over restarts, one
\* token is minted for a reservation (BeginMintAttempt).
THEOREM TokensAreMintedOnce == CheckoutSpec => []OneTokenPerReservation
  <1>1. CheckoutInv => OneTokenPerReservation
    BY Zenon DEF CheckoutInv, MintedOnce, OneTokenPerReservation
  <1> QED
    BY <1>1, CheckoutInvariant, PTL

\* A reservation the registry has an entry for is for the repository of the
\* entry's job (handleCheckoutBegin), whatever the project is bound to later.
THEOREM TokensFollowTheJob == CheckoutSpec => []TokenForFrozenRepository
  <1>1. CheckoutInv => TokenForFrozenRepository
    BY Zenon DEF CheckoutInv, Linked, TokenForFrozenRepository
  <1> QED
    BY <1>1, CheckoutInvariant, PTL

\* revalidateTx compares revisions, which every change of a binding raises:
\* when they agree, the authority was there all along.
THEOREM StartsAreAuthorized == CheckoutSpec => StartsOnUnbrokenAuthority
  <1>1. ASSUME CheckoutInv, AuthorityInv, Unbroken, [CheckoutNext]_checkoutVars,
               NEW x \in Reservation, Live(x), res[x].state # "running", res'[x].state = "running"
        PROVE  x \notin broken
    <2>1. res[x] # None /\ res[x] \in ReservationRow /\ AuthorityRows
      BY Zenon, <1>1 DEF Live, CheckoutInv, CheckoutRows, AuthorityInv
    <2>2. revalidate(x)
      <3>1. res'[x] # [res[x] EXCEPT !.elapsed = TRUE]
        BY <1>1, <2>1, ChangedRow, Zenon
      <3>2. PICK s \in State : res'[x] = [res[x] EXCEPT !.state = s] /\ (s = "running" => revalidate(x))
        BY <1>1, <2>1, <3>1, RowEffect, Zenon DEF RowMoves
      <3>3. s = "running"
        BY <1>1, <2>1, <3>2, ChangedRow
      <3> QED
        BY Zenon, <3>2, <3>3
    <2> QED
      BY Zenon, <1>1, <2>1, <2>2 DEF Unbroken, revalidate
  <1>2. CheckoutInv /\ AuthorityInv /\ Unbroken /\ [CheckoutNext]_checkoutVars
        => [\A x \in Reservation :
              Live(x) /\ res[x].state # "running" /\ res'[x].state = "running"
              => x \notin broken]_checkoutVars
    BY Zenon, <1>1
  <1> QED
    BY <1>2, CheckoutInvariant, PTL DEF CheckoutSpec, StartsOnUnbrokenAuthority

\* The clean-up of a failed start, the sweep of ReserveCheckout and every
\* other step but a close leave a running checkout unconsumed.
THEOREM RunningIsClosedByRequest == CheckoutSpec => RunningEndsByClose
  <1>1. ASSUME CheckoutInv, AuthorityInv, [CheckoutNext]_checkoutVars, NEW x \in Reservation,
               res[x] # None, res[x].state = "running", res'[x].state = "consumed"
        PROVE  \E q \in Request : call[q].pc = "closing" /\ call[q].res = x
    <2>1. res[x] \in ReservationRow /\ AuthorityRows
      BY Zenon, <1>1 DEF CheckoutInv, CheckoutRows, AuthorityInv
    <2>2. res'[x] # [res[x] EXCEPT !.elapsed = TRUE]
      BY <1>1, <2>1, ChangedRow, Zenon
    <2>3. PICK s \in State :
             /\ res'[x] = [res[x] EXCEPT !.state = s]
             /\ s = "consumed" /\ res[x].state = "running" =>
                   \E q \in Request : call[q].pc = "closing" /\ call[q].res = x
      BY <1>1, <2>1, <2>2, RowEffect, Zenon DEF RowMoves
    <2>4. s = "consumed"
      BY <1>1, <2>1, <2>3, ChangedRow
    <2> QED
      BY Zenon, <1>1, <2>3, <2>4
  <1>2. CheckoutInv /\ AuthorityInv /\ [CheckoutNext]_checkoutVars
        => [\A x \in Reservation :
              /\ res[x] # None
              /\ res[x].state = "running"
              /\ res'[x].state = "consumed"
              => \E q \in Request : call[q].pc = "closing" /\ call[q].res = x]_checkoutVars
    BY Zenon, <1>1
  <1> QED
    BY <1>2, CheckoutInvariant, PTL DEF CheckoutSpec, RunningEndsByClose
=============================================================================
