------------------------------ MODULE Webhooks ------------------------------
(***************************************************************************)
(* GitHub webhook ingress: a request with a valid signature is parsed,     *)
(* authorized, recorded and applied in one transaction, and answered 204,  *)
(* 400 (terminal) or 503 (to be sent again).  Any request may be sent any  *)
(* number of times and in any order, under its own delivery ID or another. *)
(* Requests without a valid signature are answered 401 and leave no trace. *)
(* A receipt is never seen pending: it is inserted and marked processed in *)
(* one transaction.                                                        *)
(***************************************************************************)
EXTENDS GitHubAuthority

CONSTANTS
    Delivery,   \* X-GitHub-Delivery values
    Commit,
    Nonce       \* tells apart two bodies that say the same

VARIABLES
    receipt,    \* webhook_deliveries: None, or [body, processing]
    intents,    \* automatic_deployment_intents, each with its deployment and
                \* queued job, which are inserted with it
    answer      \* the request just handled and its status code

webhookVars == <<authority, receipt, intents, answer>>

Push == [kind : {"push"}, installation : Installation, repository : Repository,
         ref : Ref, commit : Commit, nonce : Nonce]

\* deleted and suspend, created and unsuspend, are the same to the handler.
InstallationEvent == [kind : {"suspend", "unsuspend"}, installation : Installation,
                      nonce : Nonce]

RepositoriesEvent == [kind : {"added", "removed"}, installation : Installation,
                      repositories : (SUBSET Repository) \ {{}}, nonce : Nonce]

Malformed == [kind : {"malformed"}, nonce : Nonce]

Body == Push \cup InstallationEvent \cup RepositoriesEvent \cup Malformed

\* None is no receipt.
ASSUME ReceiptAssumption == None \notin [body : Body, processing : {"processed", "rejected"}]

WebhookInit ==
    /\ AuthorityInit
    /\ receipt = [d \in Delivery |-> None]
    /\ intents = {}
    /\ answer = None

Answer(d, b, code) == answer' = [delivery |-> d, body |-> b, code |-> code]

Record(d, b, processing) ==
    receipt' = [receipt EXCEPT ![d] = [body |-> b, processing |-> processing]]

\* webhook_deliveries_verified_body_digest_uq: every receipt that is stored
\* has a verified body.
BodyTaken(d, b) ==
    \E c \in Delivery \ {d} : receipt[c] # None /\ receipt[c].body = b

\* A status without any effect.
Refuse(d, b, code) ==
    /\ Answer(d, b, code)
    /\ UNCHANGED <<authority, receipt, intents>>

-----------------------------------------------------------------------------
(* Pushes.                                                                 *)

\* lockWebhookAuthorityForPush: the projects a push may deploy.
PushTargets(b) ==
    {p \in Project : /\ Authorized(p)
                     /\ binding[p].repository = b.repository
                     /\ repository[b.repository].home = b.installation
                     /\ binding[p].target.ref = b.ref}

\* The values of a new intent; its deployment ID is a hash of all of them
\* but the delivery.
NewIntent(p, d, b) ==
    [project |-> p, repository |-> b.repository, ref |-> b.ref, commit |-> b.commit,
     place |-> binding[p].target.place, delivery |-> d]

\* Mutant: unique by deployment ID.
SameIntentByDeployment(m, n) == [m EXCEPT !.delivery = n.delivery] = n

\* Mutant: unique by branch.
SameIntentByBranch(m, n) == m.project = n.project /\ m.ref = n.ref

\* The unique key of an intent.
SameIntent(m, n) ==
    /\ m.project = n.project
    /\ m.repository = n.repository
    /\ m.ref = n.ref
    /\ m.commit = n.commit

\* A push under a new delivery ID: an intent that exists is left as it is.
FirstPush(p, d, b) ==
    LET n == NewIntent(p, d, b)
    IN  IF BodyTaken(d, b)
        THEN Refuse(d, b, 400)
        ELSE /\ Record(d, b, "processed")
             /\ intents' = IF \E m \in intents : SameIntent(m, n) THEN intents
                                                                 ELSE intents \cup {n}
             /\ Answer(d, b, 204)
             /\ UNCHANGED authority

\* A delivery ID that has a receipt.  The identifiers of a receipt that has
\* none cannot be read, which is not a terminal error; the same body is
\* answered from the intent this very delivery made.
PushAgain(d, b) ==
    Refuse(d, b,
       IF receipt[d].body.kind \in {"malformed", "suspend", "unsuspend"} THEN 503
       ELSE IF receipt[d].body = b /\ \E n \in intents : n.delivery = d THEN 204
       ELSE 400)

ProcessPush(d, b) ==
    /\ b.kind = "push"
    /\ \/ PushTargets(b) = {} /\ Refuse(d, b, 400)
       \/ \E p \in PushTargets(b) :
             IF receipt[d] = None THEN FirstPush(p, d, b) ELSE PushAgain(d, b)

-----------------------------------------------------------------------------
(* Lifecycle events.                                                       *)

KnownToLifecycle(b) ==
    /\ installation[b.installation] # None
    /\ b.kind \in {"added", "removed"} =>
          b.repositories \subseteq RepositoriesOf(b.installation)

\* What is added or resumed is authorized by nobody yet.
LifecycleEffect(b) ==
    CASE b.kind = "suspend" -> suspendInstallation(b.installation)
      [] b.kind = "removed" -> removeRepositories(b.installation, b.repositories)
      [] OTHER -> UNCHANGED authority

\* Mutant: an event is applied each time it arrives.
LifecycleAgainApplied(d, b) ==
    /\ LifecycleEffect(b)
    /\ RevisionsBounded'
    /\ Answer(d, b, 204)
    /\ UNCHANGED <<receipt, intents>>

\* A delivery ID that has a receipt: nothing is applied again.
LifecycleAgain(d, b) == Refuse(d, b, IF receipt[d].body = b THEN 204 ELSE 400)

\* A body that came under another delivery ID violates an index, which is
\* not among the terminal errors here.
ProcessLifecycle(d, b) ==
    /\ b.kind \in {"suspend", "unsuspend", "added", "removed"}
    /\ \/ ~KnownToLifecycle(b) /\ Refuse(d, b, 400)
       \/ KnownToLifecycle(b) /\ receipt[d] # None /\ LifecycleAgain(d, b)
       \/ KnownToLifecycle(b) /\ receipt[d] = None /\ BodyTaken(d, b) /\ Refuse(d, b, 503)
       \/ /\ KnownToLifecycle(b) /\ receipt[d] = None /\ ~BodyTaken(d, b)
          /\ Record(d, b, "processed")
          /\ LifecycleEffect(b)
          /\ RevisionsBounded'
          /\ Answer(d, b, 204)
          /\ UNCHANGED intents

-----------------------------------------------------------------------------
\* A body that cannot be parsed: the rejection is recorded, and 400 is the
\* answer once it is.
Reject(d, b) ==
    /\ b.kind = "malformed"
    /\ \/ /\ receipt[d] = None /\ ~BodyTaken(d, b)
          /\ Record(d, b, "rejected")
          /\ Answer(d, b, 400)
          /\ UNCHANGED <<authority, intents>>
       \/ /\ receipt[d] = None /\ BodyTaken(d, b)
          /\ Refuse(d, b, 503)
       \/ /\ receipt[d] # None
          /\ Refuse(d, b, IF receipt[d].body = b THEN 400 ELSE 503)

\* The database fails the transaction of any request, or the answer to a
\* committed one is lost: nobody learns more of it.
NoAnswer ==
    /\ answer' = None
    /\ UNCHANGED <<authority, receipt, intents>>

Administer ==
    /\ \/ SetupStep
       \/ \E i \in Installation : DisableOrReconcile(i)
    /\ answer' = None
    /\ UNCHANGED <<receipt, intents>>

ServeHTTP(d, b) ==
    ProcessPush(d, b) \/ ProcessLifecycle(d, b) \/ Reject(d, b)

WebhookNext ==
    \/ \E d \in Delivery, b \in Body : ServeHTTP(d, b)
    \/ NoAnswer
    \/ Administer

WebhookSpec == WebhookInit /\ [][WebhookNext]_webhookVars
-----------------------------------------------------------------------------
(* Properties.                                                             *)

Row(fields) == fields \cup {None}

\* The type invariant of ingress and authority.
WebhookTypeOK ==
    /\ installation \in [Installation -> Row([active : BOOLEAN, revision : 1 .. MaxRevisions])]
    /\ repository \in [Repository -> Row([home : Installation, active : BOOLEAN,
                                          revision : 1 .. MaxRevisions])]
    /\ binding \in [Project -> Row([repository : Repository, target : Target,
                                    active : BOOLEAN, revision : 1 .. MaxRevisions])]
    /\ receipt \in [Delivery -> Row([body : Body, processing : {"processed", "rejected"}])]
    /\ intents \subseteq [project : Project, repository : Repository, ref : Ref,
                          commit : Commit, place : Place, delivery : Delivery]

\* However often a commit of a branch is pushed or delivered, and wherever
\* its project is bound to in between, one deployment of it is queued.
OneIntentPerCommit ==
    \A m, n \in intents :
       m.project = n.project /\ m.repository = n.repository
          /\ m.ref = n.ref /\ m.commit = n.commit => m = n

\* A push answered with success is queued: its receipt is durable and an
\* intent for exactly its repository, branch and commit exists.
AcceptedPushIsQueued ==
    answer # None /\ answer.code = 204 /\ answer.body.kind = "push" =>
       /\ receipt[answer.delivery] = [body |-> answer.body, processing |-> "processed"]
       /\ \E n \in intents : /\ n.repository = answer.body.repository
                             /\ n.ref = answer.body.ref
                             /\ n.commit = answer.body.commit

\* A delivery that was recorded once never has a second effect, in whatever
\* state it finds the installation: a suspension delivered again does not
\* undo the setup made after it.
RedeliveryHasNoEffect ==
    [][answer' # None /\ receipt[answer'.delivery] # None =>
          UNCHANGED <<authority, receipt, intents>>]_webhookVars

\* Docs: existing values are returned on exact redelivery: a push that was
\* processed is answered with success again while its project may deploy.
ExactRedeliverySucceeds ==
    [][answer' # None /\ answer'.code # 503
          /\ receipt[answer'.delivery] = [body |-> answer'.body, processing |-> "processed"]
          /\ answer'.body.kind = "push" /\ PushTargets(answer'.body) # {} =>
             answer'.code = 204]_webhookVars
=============================================================================
