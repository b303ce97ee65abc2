------------------------------ MODULE Checkout ------------------------------
(***************************************************************************)
(* Checkout credentials: an agent reserves a checkout for its attempt,     *)
(* starts it, which mints a GitHub token for one repository, and closes    *)
(* it.  The control plane keeps the reservation in the database, and in    *)
(* memory the registry of begun checkouts and the leases that hold tokens. *)
(* Requests are handled concurrently, in the steps between which they hold *)
(* no lock: the transactions, the calls of GitHub and the accesses of the  *)
(* registry.  Each may fail, and the process may restart.  A transaction   *)
(* or a revocation that fails did not happen, and the hour a token lives   *)
(* is not over yet.                                                        *)
(***************************************************************************)
EXTENDS GitHubAuthority

CONSTANTS
    Attempt,
    Reservation,    \* reservation IDs, taken at random and never again
    Request         \* bound: the requests handled at one time

Job == [project : Project, repository : Repository, place : Place]

LiveStates == {"reserved", "minting", "active", "running"}

State == LiveStates \cup {"consumed", "invalidated", "expired"}

ReservationRow ==
    [project : Project, repository : Repository, state : State, elapsed : BOOLEAN,
     bindingRevision : Nat, repositoryRevision : Nat, installationRevision : Nat]

RegistryEntry == [attempt : Attempt, lease : BOOLEAN, started : BOOLEAN, closed : BOOLEAN]

\* None is no job, no reservation and no entry of the registry.
ASSUME CheckoutAssumption == None \notin Job \cup ReservationRow \cup RegistryEntry

VARIABLES
    job,        \* attempts that were leased: None, or
                \* [project, repository, place]
    current,    \* attempts AuthorizeCheckout accepts
    res,        \* github_checkout_reservations: None, or a record
    entry,      \* CheckoutRegistry: None, or [attempt, lease, started, closed]
    lease,      \* CheckoutLease: None, or
                \* [registered (in activeLeases), delivered, invalidated]
    token,      \* the token minted for a reservation: none, live or dead
    call,       \* the requests in progress
    doomed,     \* invalidated reservations whose lease is still to be told
    broken,     \* history: reservations whose authority was interrupted
    minted      \* history: tokens minted for a reservation

memory == <<entry, lease, call, doomed>>
history == <<broken, minted>>
checkoutVars == <<authority, job, current, res, memory, token, history>>

Idle == [pc |-> "idle"]

CheckoutInit ==
    /\ AuthorityInit
    /\ job = [a \in Attempt |-> None]
    /\ current = {}
    /\ res = [x \in Reservation |-> None]
    /\ entry = [x \in Reservation |-> None]
    /\ lease = [x \in Reservation |-> None]
    /\ token = [x \in Reservation |-> "none"]
    /\ call = [q \in Request |-> Idle]
    /\ doomed = {}
    /\ broken = {}
    /\ minted = [x \in Reservation |-> 0]

Live(x) == res[x] # None /\ res[x].state \in LiveStates

SetState(x, s) == res' = [res EXCEPT ![x].state = s]

Goto(q, pc) == call' = [call EXCEPT ![q].pc = pc]

Finish(q) == call' = [call EXCEPT ![q] = Idle]

-----------------------------------------------------------------------------
(* Every request is authorized first, for an attempt that has its slot and *)
(* its lease and is not cancelled.  All of that may be over at the request's*)
(* next step.                                                              *)

AuthorizeCheckout(q, a) ==
    /\ call[q] = Idle
    /\ a \in current
    /\ call' = [call EXCEPT ![q] = [pc |-> "authorized", attempt |-> a]]
    /\ UNCHANGED <<authority, job, current, res, entry, lease, doomed, token, history>>

\* The next step refuses the request, finds it done already, or fails.
Answered(q) ==
    /\ call[q].pc = "authorized"
    /\ Finish(q)
    /\ UNCHANGED <<authority, job, current, res, entry, lease, doomed, token, history>>

-----------------------------------------------------------------------------
(* Begin.                                                                  *)

\* Mutant: a running checkout is expired as well.
SweepableRunning(x) == Live(x) /\ res[x].elapsed

\* Reservations the sweep in ReserveCheckout expires.
Sweepable(x) == Live(x) /\ res[x].state # "running" /\ res[x].elapsed

\* Reservations that keep the project from having another one.
InTheWay(p) == {y \in Reservation : Live(y) /\ res[y].project = p /\ ~Sweepable(y)}

Reserved(p) ==
    LET r == binding[p].repository
    IN  [project |-> p, repository |-> r, state |-> "reserved", elapsed |-> FALSE,
         bindingRevision |-> binding[p].revision,
         repositoryRevision |-> repository[r].revision,
         installationRevision |-> installation[repository[r].home].revision]

\* Mutant: the repository is not compared.
AnyRepository(a) == TRUE

\* The repository of the frozen job is the one the project is bound to now.
SameRepository(a) == binding[job[a].project].repository = job[a].repository

\* A reservation for another repository than the job's is closed again, if
\* that succeeds, and is not registered.
ReserveCheckout(q, x) ==
    LET a == call[q].attempt
        p == job[a].project
        ok == SameRepository(a)
    IN  /\ call[q].pc = "authorized"
        /\ res[x] = None
        /\ Authorized(p)
        /\ InTheWay(p) = {}
        /\ \E s \in {"reserved"} \cup (IF ok THEN {} ELSE {"consumed"}) :
              res' = [y \in Reservation |->
                        IF y = x THEN [Reserved(p) EXCEPT !.state = s]
                        ELSE IF Sweepable(y) /\ res[y].project = p
                             THEN [res[y] EXCEPT !.state = "expired"]
                             ELSE res[y]]
        /\ entry' = IF ok THEN [entry EXCEPT ![x] = [attempt |-> a, lease |-> FALSE,
                                                     started |-> FALSE, closed |-> FALSE]]
                          ELSE entry
        /\ Finish(q)
        /\ UNCHANGED <<authority, job, current, lease, doomed, token, history>>

-----------------------------------------------------------------------------
(* Start.                                                                  *)

\* Mutant: only the active flags are looked at.
revalidateActive(x) ==
    /\ Authorized(res[x].project)
    /\ binding[res[x].project].repository = res[x].repository

\* The chain is active and at the revisions that were reserved.
revalidate(x) ==
    LET p == res[x].project
        r == res[x].repository
    IN  /\ Authorized(p)
        /\ binding[p].repository = r
        /\ binding[p].revision = res[x].bindingRevision
        /\ repository[r].revision = res[x].repositoryRevision
        /\ installation[repository[r].home].revision = res[x].installationRevision

\* A reservation at a state, within its ten minutes and with its authority.
Valid(x, s) == res[x].state = s /\ ~res[x].elapsed /\ revalidate(x)

\* Mutant: a start in progress does not keep a second one out.
mayStartTwice(x, a) == entry[x] # None /\ entry[x].attempt = a /\ ~entry[x].closed

mayStart(x, a) ==
    /\ entry[x] # None
    /\ entry[x].attempt = a
    /\ ~entry[x].started
    /\ ~entry[x].closed

claimStart(q, x) ==
    /\ call[q].pc = "authorized"
    /\ mayStart(x, call[q].attempt)
    /\ entry' = [entry EXCEPT ![x].started = TRUE]
    /\ call' = [call EXCEPT ![q] = [pc |-> "claimed", res |-> x]]
    /\ UNCHANGED <<authority, job, current, res, lease, doomed, token, history>>

\* CloseCheckout of a failed start, which may fail itself.
closeReservation(x) ==
    \/ Live(x) /\ SetState(x, "consumed")
    \/ UNCHANGED res

\* A failed start claims its entry no more, unless a lease was set.
releaseStart(x) ==
    entry' = IF entry[x] # None /\ ~entry[x].lease
             THEN [entry EXCEPT ![x].started = FALSE]
             ELSE entry

revokeToken(x) == token' \in {token, [token EXCEPT ![x] = "dead"]}

\* Mutant: an attempt that was begun is begun again.
mintableAgain(x) == Valid(x, "reserved") \/ Valid(x, "minting")

mintable(x) == Valid(x, "reserved")

BeginMintAttempt(q) ==
    LET x == call[q].res
    IN  /\ call[q].pc = "claimed"
        /\ mintable(x)
        /\ SetState(x, "minting")
        /\ Goto(q, "begun")
        /\ UNCHANGED <<authority, job, current, entry, lease, doomed, token, history>>

MintCheckoutToken(q) ==
    LET x == call[q].res
    IN  /\ call[q].pc = "begun"
        /\ token' = [token EXCEPT ![x] = "live"]
        /\ minted' = [minted EXCEPT ![x] = @ + 1]
        /\ Goto(q, "minted")
        /\ UNCHANGED <<authority, job, current, res, entry, lease, doomed, broken>>

\* The lease is registered for invalidation right after the transaction: an
\* invalidation that comes between the two still fails StartCheckout.
ActivateMintAttempt(q) ==
    LET x == call[q].res
    IN  /\ call[q].pc = "minted"
        /\ Valid(x, "minting")
        /\ SetState(x, "active")
        /\ lease' = [lease EXCEPT ![x] = [registered |-> TRUE, delivered |-> FALSE,
                                          invalidated |-> FALSE]]
        /\ Goto(q, "activated")
        /\ UNCHANGED <<authority, job, current, entry, doomed, token, history>>

StartCheckout(q) ==
    LET x == call[q].res
    IN  /\ call[q].pc = "activated"
        /\ ~lease[x].invalidated /\ token[x] = "live"
        /\ Valid(x, "active")
        /\ SetState(x, "running")
        /\ Goto(q, "running")
        /\ UNCHANGED <<authority, job, current, entry, lease, doomed, token, history>>

Unregistered(x) == lease' = [lease EXCEPT ![x].registered = FALSE]

\* Any step of a start up to StartCheckout fails, because its condition does
\* not hold or because the database, GitHub or the request's context fails.
\* What is cleaned up then concerns this start alone.
FailStart(q) ==
    LET x == call[q].res
    IN  /\ call[q].pc \in {"claimed", "begun", "minted", "activated"}
        /\ closeReservation(x)
        /\ IF call[q].pc \in {"minted", "activated"} THEN revokeToken(x) ELSE UNCHANGED token
        /\ IF call[q].pc = "activated" THEN Unregistered(x) ELSE UNCHANGED lease
        /\ releaseStart(x)
        /\ Finish(q)
        /\ UNCHANGED <<authority, job, current, doomed, history>>

setLease(x) == entry' = IF entry[x] = None THEN entry ELSE [entry EXCEPT ![x].lease = TRUE]

KeepLease(q) ==
    /\ call[q].pc = "running"
    /\ setLease(call[q].res)
    /\ Goto(q, "leased")
    /\ UNCHANGED <<authority, job, current, res, lease, doomed, token, history>>

\* The token goes into the answer, which may be lost, unless the lease was
\* invalidated or has no token any more.
DeliverToken(q) ==
    LET x == call[q].res
    IN  /\ call[q].pc = "leased"
        /\ lease' = IF token[x] = "live" /\ ~lease[x].invalidated
                    THEN [lease EXCEPT ![x].delivered = TRUE]
                    ELSE lease
        /\ Finish(q)
        /\ UNCHANGED <<authority, job, current, res, entry, doomed, token, history>>

-----------------------------------------------------------------------------
(* Close.                                                                  *)

\* The entry as it is now decides whether there is a lease to close.
matchClose(q, x) ==
    /\ call[q].pc = "authorized"
    /\ entry[x] # None
    /\ entry[x].attempt = call[q].attempt
    /\ ~entry[x].closed
    /\ call' = [call EXCEPT ![q] = [pc |-> "closing", res |-> x, lease |-> entry[x].lease]]
    /\ UNCHANGED <<authority, job, current, res, entry, lease, doomed, token, history>>

markClosed(x) ==
    entry' = IF entry[x] = None THEN entry ELSE [entry EXCEPT ![x].closed = TRUE]

\* A reservation that was invalidated or expired cannot be closed.  Without a
\* lease, closing the reservation is all there is to do.
CloseCheckout(q) ==
    LET x == call[q].res
        closed == /\ Live(x) \/ res[x].state = "consumed"
                  /\ SetState(x, "consumed")
    IN  /\ call[q].pc = "closing"
        /\ \/ closed /\ call[q].lease /\ Goto(q, "closed") /\ UNCHANGED entry
           \/ closed /\ ~call[q].lease /\ Finish(q) /\ markClosed(x)
           \/ call[q].lease /\ Goto(q, "unclosed") /\ UNCHANGED <<res, entry>>
           \/ ~call[q].lease /\ Finish(q) /\ UNCHANGED <<res, entry>>
        /\ UNCHANGED <<authority, job, current, lease, doomed, token, history>>

\* A close has succeeded when both of its parts have.
RevokeOnClose(q) ==
    LET x == call[q].res
    IN  /\ call[q].pc \in {"closed", "unclosed"}
        /\ revokeToken(x)
        /\ Unregistered(x)
        /\ IF call[q].pc = "closed" /\ token'[x] # "live" THEN markClosed(x)
                                                          ELSE UNCHANGED entry
        /\ Finish(q)
        /\ UNCHANGED <<authority, job, current, res, doomed, history>>

-----------------------------------------------------------------------------
(* Around the requests.                                                    *)

\* Any interruption of a reservation's authority is remembered.
NoteBroken ==
    /\ LET lost == {p \in Project : ~Authorized(p)'}
       IN  broken' = broken \cup
              {x \in Reservation : /\ res[x] # None
                                   /\ \/ res[x].project \in lost
                                      \/ binding'[res[x].project].repository # res[x].repository}
    /\ UNCHANGED minted

\* Setup, binding and webhook events leave reservations to revalidation.
AuthorityChanges ==
    /\ \/ SetupStep
       \/ /\ \E i \in Installation : \/ suspendInstallation(i)
                                     \/ \E R \in SUBSET Repository : removeRepositories(i, R)
          /\ RevisionsBounded'
    /\ NoteBroken
    /\ UNCHANGED <<job, current, res, memory, token>>

\* Disable and reconcile invalidate the live reservations of the installation
\* in the same transaction; leases are told after it.
InvalidateReservations ==
    /\ \E i \in Installation :
          LET X == {x \in Reservation : Live(x) /\ repository[res[x].repository].home = i}
          IN  /\ DisableOrReconcile(i)
              /\ res' = [x \in Reservation |->
                           IF x \in X THEN [res[x] EXCEPT !.state = "invalidated"] ELSE res[x]]
              /\ doomed' = doomed \cup X
    /\ NoteBroken
    /\ UNCHANGED <<job, current, entry, lease, call, token>>

InvalidateCheckoutReservation(x) ==
    /\ x \in doomed
    /\ doomed' = doomed \ {x}
    /\ IF lease[x] # None /\ lease[x].registered
       THEN lease' = [lease EXCEPT ![x].invalidated = TRUE] /\ revokeToken(x)
       ELSE UNCHANGED <<lease, token>>
    /\ UNCHANGED <<authority, job, current, res, entry, call, history>>

\* An attempt of a job is leased, if its environment has none.  The job took
\* its repository and its environment from the binding of its time.
LeaseAttempt(a, j) ==
    /\ job[a] = None
    /\ \/ \E b \in Attempt : job[b] = j
       \/ /\ Authorized(j.project)
          /\ binding[j.project].repository = j.repository
          /\ binding[j.project].target.place = j.place
    /\ \A b \in current : job[b].place # j.place
    /\ job' = [job EXCEPT ![a] = j]
    /\ current' = current \cup {a}
    /\ UNCHANGED <<authority, res, memory, token, history>>

\* It ends, is cancelled or loses its lease.
EndAttempt(a) ==
    /\ a \in current
    /\ current' = current \ {a}
    /\ UNCHANGED <<authority, job, res, memory, token, history>>

\* expires_at passes.
Elapse(x) ==
    /\ Live(x) /\ ~res[x].elapsed
    /\ res' = [res EXCEPT ![x].elapsed = TRUE]
    /\ UNCHANGED <<authority, job, current, memory, token, history>>

\* The registry drops entries after thirty minutes.
sweepEntry(x) ==
    /\ entry[x] # None
    /\ Live(x) => res[x].elapsed
    /\ entry' = [entry EXCEPT ![x] = None]
    /\ UNCHANGED <<authority, job, current, res, lease, call, doomed, token, history>>

Restart ==
    /\ entry' = [x \in Reservation |-> None]
    /\ lease' = [x \in Reservation |-> None]
    /\ call' = [q \in Request |-> Idle]
    /\ doomed' = {}
    /\ UNCHANGED <<authority, job, current, res, token, history>>

-----------------------------------------------------------------------------
Step(q) ==
    \/ Answered(q)
    \/ BeginMintAttempt(q) \/ MintCheckoutToken(q) \/ ActivateMintAttempt(q)
    \/ StartCheckout(q) \/ FailStart(q) \/ KeepLease(q) \/ DeliverToken(q)
    \/ CloseCheckout(q) \/ RevokeOnClose(q)

CheckoutNext ==
    \/ \E q \in Request, a \in Attempt : AuthorizeCheckout(q, a)
    \/ \E q \in Request, x \in Reservation :
          ReserveCheckout(q, x) \/ claimStart(q, x) \/ matchClose(q, x)
    \/ \E q \in Request : Step(q)
    \/ AuthorityChanges \/ InvalidateReservations
    \/ \E x \in Reservation : InvalidateCheckoutReservation(x) \/ Elapse(x) \/ sweepEntry(x)
    \/ \E a \in Attempt, j \in Job : LeaseAttempt(a, j)
    \/ \E a \in Attempt : EndAttempt(a)
    \/ Restart

CheckoutSpec == CheckoutInit /\ [][CheckoutNext]_checkoutVars

-----------------------------------------------------------------------------
(* Properties.                                                             *)

CheckoutTypeOK ==
    /\ job \in [Attempt -> Job \cup {None}]
    /\ \A a \in current : job[a] # None
    /\ \A x \in Reservation : entry[x] # None => res[x] # None /\ entry[x].attempt \in Attempt
    /\ \A x \in Reservation : res[x] # None => res[x].state \in State
    /\ token \in [Reservation -> {"none", "live", "dead"}]

\* A checkout starts only if its project kept its authority over the
\* repository at every moment since the reservation: losing it and getting
\* it back, by setup or by binding again, is not enough for revalidateTx.
StartsOnUnbrokenAuthority ==
    [][\A x \in Reservation :
          Live(x) /\ res[x].state # "running" /\ res'[x].state = "running"
          => x \notin broken]_checkoutVars

\* A running checkout is consumed only by a close request of its own: the
\* cleanup of a failed start never ends the checkout of another start.
RunningEndsByClose ==
    [][\A x \in Reservation :
          /\ res[x] # None
          /\ res[x].state = "running"
          /\ res'[x].state = "consumed"
          => \E q \in Request : call[q].pc = "closing" /\ call[q].res = x]_checkoutVars

\* However often a start is retried after failures, BeginMintAttempt admits
\* one minting of a token for a reservation.
OneTokenPerReservation == \A x \in Reservation : minted[x] <= 1

\* A token is minted for the repository the attempt's job was frozen with,
\* also when the project is bound to another one between the push, the
\* authorization of a request and the reservation.
TokenForFrozenRepository ==
    \A x \in Reservation :
        token[x] # "none" /\ entry[x] # None
        => res[x].repository = job[entry[x].attempt].repository

\* Of a project's delivered tokens that were not revoked, at most one belongs
\* to a reservation that was neither closed nor invalidated, although
\* ReserveCheckout expires reservations whose ten minutes are over.
OneOpenToken ==
    \A x, y \in {z \in Reservation : /\ lease[z] # None /\ lease[z].delivered
                                     /\ token[z] = "live"
                                     /\ res[z].state \notin {"consumed", "invalidated"}} :
        res[x].project = res[y].project => x = y

\* handleCheckoutClose "releases the reservation and, if a credential was ever
\* minted, revokes it": once it has succeeded, a token that was delivered is
\* not alive.  (Violated: a close that comes between StartCheckout and
\* setLease closes the reservation only.)
ClosedTokenIsRevoked ==
    \A x \in Reservation :
        entry[x] # None /\ entry[x].closed /\ lease[x] # None /\ lease[x].delivered
        => token[x] # "live"
=============================================================================
