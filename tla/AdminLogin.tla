----------------------------- MODULE AdminLogin -----------------------------
(***************************************************************************)
(* Administrator authentication: the login and logout handlers of          *)
(* internal/web/web.go, the recovery command of internal/admincli and the  *)
(* repository calls they make.  A request is a process whose repository    *)
(* calls are atomic and interleave with those of the other requests, of    *)
(* the recovery command and of restarts with new throttle keys.            *)
(*                                                                         *)
(* The installation has one account.  Every reset installs a fresh         *)
(* verifier together with the next auth_revision, so the revision also     *)
(* names the password; 0 is an installation without an account and, as a   *)
(* submitted password, a wrong one.  The password policy is fixed by       *)
(* Bootstrap, so no login ever needs a rehash.                             *)
(***************************************************************************)
EXTENDS LoginThrottle

CONSTANTS
    Client,        \* client addresses
    Name,          \* canonical usernames a login may submit
    Admin,         \* the username of the account
    Request,       \* concurrent browser requests
    SessionLimit,  \* MaxActiveSessions (10)
    Idle,          \* SessionIdleTimeout
    Absolute,      \* SessionAbsoluteLife
    TouchInterval, \* SessionTouchInterval
    MaxRevision,   \* bound on auth_revision
    MaxSessions,   \* bound on the sessions ever created
    MaxRotations,  \* bound on the rotations of the two key rings
    MaxAttempts,   \* bound on the reservations
    MaxEvents,     \* bound on resets, sessions, rotations, reservations and ticks together
    MaxTime        \* bound on the clock

ASSUME LoginAssumption ==
    /\ Admin \in Name
    /\ {SessionLimit, Idle, Absolute, TouchInterval} \subseteq Nat \ {0}
    /\ Idle <= Absolute

VARIABLES
    now,        \* clock_timestamp()
    ring,       \* active version of the CSRF and of the username key ring
    revision,   \* users.auth_revision, 0 before bootstrap
    sessions,   \* admin_sessions by order of creation; proof: the verifier that was checked
    created,    \* sessions created so far
    throttle,   \* auth_throttle_buckets and auth_username_throttles
    request,    \* where each request is and what it holds
    attempts,   \* reservations made so far
    granted,    \* history: attempts granted to an identity in this window
    blockedTill \* history: the latest delay imposed on a username

vars == <<now, ring, revision, sessions, created, throttle, request, attempts, granted, blockedTill>>
store == <<revision, sessions, created>>
history == <<attempts, granted, blockedTill>>

Quiet == [at |-> "idle"]

Pair(c, n) == <<"pair", c, n>>
ClientIdentity(c) == <<"ip", c>>
Identities == {Pair(c, n) : c \in Client, n \in Name} \cup {ClientIdentity(c) : c \in Client}
NotGranted == [own |-> 0, shared |-> 0]

Init ==
    /\ now = 0
    /\ ring = [csrf |-> 1, username |-> 1]
    /\ revision = 0
    /\ sessions = <<>>
    /\ created = 0
    /\ throttle = [buckets |-> <<>>, backoff |-> <<>>]
    /\ request = [r \in Request |-> Quiet]
    /\ attempts = 0
    /\ granted = [i \in Identities |-> NotGranted]
    /\ blockedTill = [n \in Name |-> 0]

Room == now + revision + created + ring.csrf + ring.username - 2 + attempts < MaxEvents

-----------------------------------------------------------------------------
(* Throttle identities: the active key and every retained one *)

PairOf(c, n, user) ==
    [kind |-> "pair", active |-> ring.csrf, versions |-> 1 .. ring.csrf, id |-> <<c, n>>, tag |-> user]

UsernameOf(n) ==
    [kind |-> "username", active |-> ring.username, versions |-> 1 .. ring.username, id |-> n, tag |-> None]

ClientOf(c) ==
    [kind |-> "ip", active |-> ring.csrf, versions |-> 1 .. ring.csrf, id |-> c, tag |-> None]

\* The reservation is made before the user is looked up, so its pair carries no
\* recovery user.
LoginIdentities(c, n) == <<PairOf(c, n, None), UsernameOf(n), ClientOf(c)>>

-----------------------------------------------------------------------------
(* Sessions *)

Unrevoked == {s \in DOMAIN sessions : ~sessions[s].revoked}

Expired(s) == now >= sessions[s].idle \/ now >= sessions[s].absolute

\* What ValidateSession accepts.
Accepted(s) == s \in Unrevoked /\ sessions[s].revision = revision /\ ~Expired(s)

Revoke(table, ids) == [s \in DOMAIN table |-> IF s \in ids THEN [table[s] EXCEPT !.revoked = TRUE] ELSE table[s]]

\* The sessions past the newest SessionLimit of a table.
Excessive(table) ==
    {s \in DOMAIN table :
        /\ ~table[s].revoked
        /\ Cardinality({x \in DOMAIN table : ~table[x].revoked /\ x > s}) >= SessionLimit}

-----------------------------------------------------------------------------
(* Bootstrap, recovery and restart *)

\* The singleton row is locked; a second bootstrap is refused.
Bootstrap ==
    /\ revision = 0
    /\ revision' = 1
    /\ UNCHANGED <<now, ring, sessions, created, throttle, request, history>>

\* admin reset-password: new verifier and revision, every session revoked and
\* the recovery throttles cleared in one transaction.
ResetPassword ==
    /\ revision \in 1 .. MaxRevision - 1 /\ Room
    /\ revision' = revision + 1
    /\ sessions' = Revoke(sessions, Unrevoked)
    /\ throttle' = ClearRecovery(throttle, UsernameOf(Admin), Admin)
    /\ blockedTill' = [blockedTill EXCEPT ![Admin] = 0]
    /\ UNCHANGED <<now, ring, created, request, attempts, granted>>

\* The control plane stops, dropping its requests, and starts again with the
\* same keys or with a new active key that retains the old ones.
Restart(csrf, username) ==
    /\ csrf \in {ring.csrf, ring.csrf + 1} /\ username \in {ring.username, ring.username + 1}
    /\ csrf + username <= MaxRotations + 2 /\ Room
    /\ ring' = [csrf |-> csrf, username |-> username]
    /\ request' = [r \in Request |-> Quiet]
    /\ <<ring', request'>> # <<ring, request>>
    /\ UNCHANGED <<now, store, throttle, history>>

\* The grants of the history belong to the window of the clock.
Tick ==
    /\ now < MaxTime /\ Room
    /\ now' = now + 1
    /\ granted' = IF WindowOf(now) = WindowOf(now + 1) THEN granted ELSE [i \in Identities |-> NotGranted]
    /\ UNCHANGED <<ring, store, throttle, request, attempts, blockedTill>>

-----------------------------------------------------------------------------
(* postLogin *)

Grant(i, folded) == [granted[i] EXCEPT !.own = @ + (IF folded THEN 0 ELSE 1), !.shared = @ + (IF folded THEN 1 ELSE 0)]

\* Passwords a login may submit: one the account has or had, or a wrong one.
\* Those of other names all meet the dummy verifier.
Passwords(n) == IF n = Admin THEN 0 .. revision ELSE {0}

\* Before any password work the attempt is charged to its three identities; a
\* refused one is answered like a wrong password.
Reserve(r, c, n, p) ==
    LET res == ReserveThrottle(throttle, LoginIdentities(c, n), now)
    IN  /\ revision > 0 /\ request[r] = Quiet
        /\ attempts < MaxAttempts /\ Room /\ attempts' = attempts + 1
        /\ throttle' = res.t
        /\ request' = [request EXCEPT ![r] =
             IF res.allowed THEN [at |-> "reserved", client |-> c, name |-> n, password |-> p] ELSE Quiet]
        /\ granted' = IF ~res.allowed THEN granted
                      ELSE [granted EXCEPT ![Pair(c, n)] = Grant(Pair(c, n), "pair" \in res.shared),
                                           ![ClientIdentity(c)] = Grant(ClientIdentity(c), "ip" \in res.shared)]
        /\ blockedTill' = IF "username" \in res.shared THEN blockedTill
                          ELSE [blockedTill EXCEPT ![n] = Max({@, res.blocked})]
        /\ UNCHANGED <<now, ring, store>>

\* FindLoginUserByCanonicalUsername, then VerifyPassword against the verifier
\* that was read; an unknown username is verified against the dummy.
Verify(r) ==
    /\ request[r].at = "reserved"
    /\ request' = [request EXCEPT ![r] =
         IF @.name = Admin /\ @.password = revision
         THEN [at |-> "verified", client |-> @.client, revision |-> revision] ELSE Quiet]
    /\ UNCHANGED <<now, ring, store, throttle, history>>

\* Mutant: the verifier and the revision are not compared again.
AnyRevision(r) == request[r].revision <= revision

\* The account is still the one that was read before the password work.
SameUser(r) == request[r].revision = revision

\* CompleteLogin: only for the user as it was read.  The session is created,
\* the oldest one past the limit revoked and the pair and username cleared.
CompleteLogin(r) ==
    LET new   == created + 1
        row   == [revision |-> revision, proof |-> request[r].revision, last |-> now, idle |-> now + Idle,
                  absolute |-> now + Absolute, revoked |-> FALSE]
        table == With(sessions, new, row)
        c     == request[r].client
    IN  /\ request[r].at = "verified"
        /\ request' = [request EXCEPT ![r] = Quiet]
        /\ IF ~SameUser(r) \/ Cardinality(Excessive(table)) > 1
           THEN UNCHANGED <<sessions, created, throttle, history>>
           ELSE /\ created < MaxSessions /\ Room
                /\ created' = new
                /\ sessions' = Revoke(table, Excessive(table))
                /\ throttle' = ClearSuccess(throttle, PairOf(c, Admin, Admin), UsernameOf(Admin), Admin)
                /\ granted' = [granted EXCEPT ![Pair(c, Admin)].own = 0]
                /\ blockedTill' = [blockedTill EXCEPT ![Admin] = 0]
                /\ UNCHANGED attempts
        /\ UNCHANGED <<now, ring, revision>>

\* reserveInvalidForward: a trusted proxy whose forwarding chain is unusable is
\* charged on its own, and its login answered without credential work.
ReserveInvalidForward(c) ==
    LET proxy == [ClientOf(c) EXCEPT !.kind = "invalid_forward"]
    IN  /\ revision > 0
        /\ attempts < MaxAttempts /\ Room /\ attempts' = attempts + 1
        /\ throttle' = ReserveThrottle(throttle, <<proxy>>, now).t
        /\ UNCHANGED <<now, ring, store, request, granted, blockedTill>>

-----------------------------------------------------------------------------
(* session and logout *)

\* The idle expiry a touch writes.
TouchedIdle(s) == Min({sessions[s].absolute, now + Idle})

\* ValidateSession: an accepted session is touched at most once per interval,
\* and its idle expiry never passes its absolute one.
ValidateSession(r, s) ==
    /\ request[r] = Quiet /\ Accepted(s)
    /\ request' = [request EXCEPT ![r] = [at |-> "authenticated", session |-> s, revision |-> revision]]
    /\ sessions' = IF sessions[s].last > now - TouchInterval THEN sessions
                   ELSE [sessions EXCEPT ![s] = [@ EXCEPT !.last = now, !.idle = TouchedIdle(s)]]
    /\ UNCHANGED <<now, ring, revision, created, throttle, history>>

\* landing: the page is rendered and nothing is written.
Landing(r) ==
    /\ request[r].at = "authenticated"
    /\ request' = [request EXCEPT ![r] = Quiet]
    /\ UNCHANGED <<now, ring, store, throttle, history>>

\* RevokeSession locks the user and the session and compares the principal the
\* request was authenticated with; its expiries are not looked at again.
RevokeSession(r) ==
    LET s == request[r].session
    IN  /\ request[r].at = "authenticated"
        /\ request' = [request EXCEPT ![r] = Quiet]
        /\ sessions' = IF s \in Unrevoked /\ request[r].revision = revision THEN Revoke(sessions, {s}) ELSE sessions
        /\ UNCHANGED <<now, ring, revision, created, throttle, history>>

-----------------------------------------------------------------------------
(* Housekeeping *)

CleanThrottle ==
    /\ throttle' \in CleanupThrottle(throttle, now)
    /\ UNCHANGED <<now, ring, store, request, history>>

\* The oldest session that is revoked or expired.
CleanupSessions ==
    LET dead == {s \in DOMAIN sessions : sessions[s].revoked \/ Expired(s)}
    IN  /\ dead # {}
        /\ sessions' = Without(sessions, {Min(dead)})
        /\ UNCHANGED <<now, ring, revision, created, throttle, request, history>>

Next ==
    \/ Bootstrap \/ ResetPassword \/ Tick \/ CleanThrottle \/ CleanupSessions
    \/ \E csrf, username \in 1 .. MaxRotations + 1 : Restart(csrf, username)
    \/ \E c \in Client : ReserveInvalidForward(c)
    \/ \E r \in Request :
         \/ \E c \in Client, n \in Name : \E p \in Passwords(n) : Reserve(r, c, n, p)
         \/ Verify(r) \/ CompleteLogin(r) \/ Landing(r) \/ RevokeSession(r)
         \/ \E s \in DOMAIN sessions : ValidateSession(r, s)

Spec == Init /\ [][Next]_vars

-----------------------------------------------------------------------------
(* Properties *)

\* Types of the account, sessions, throttle tables and requests.
LoginTypeOK ==
    /\ now \in 0 .. MaxTime
    /\ ring \in [csrf : 1 .. MaxRotations + 1, username : 1 .. MaxRotations + 1]
    /\ revision \in 0 .. MaxRevision
    /\ created \in 0 .. MaxSessions /\ DOMAIN sessions \subseteq 1 .. created
    /\ \A s \in DOMAIN sessions :
         /\ sessions[s].revision \in 1 .. revision /\ sessions[s].revoked \in BOOLEAN
         /\ sessions[s].last <= sessions[s].idle /\ sessions[s].idle <= sessions[s].absolute
    /\ \A k \in DOMAIN throttle.buckets :
         k.version \in 0 .. MaxRotations + 1 /\ throttle.buckets[k].attempts \in 1 .. Limit(k.kind)
    /\ \A k \in DOMAIN throttle.backoff :
         k.version \in 0 .. MaxRotations + 1 /\ throttle.backoff[k].failures \in 0 .. FailureCap
    /\ \A r \in Request : request[r].at \in {"idle", "reserved", "verified", "authenticated"}

\* A login that verified the old password while a reset was running, or one
\* that raced another login, never leaves a session alive: every unrevoked
\* session carries the revision of the account now, and the password that was
\* verified for it is the one the account has now.
NoStaleSession == \A s \in Unrevoked : sessions[s].revision = revision /\ sessions[s].proof = revision

\* The account has at most SessionLimit unrevoked sessions.
SessionsWithinLimit == Cardinality(Unrevoked) <= SessionLimit

\* The three limits hold together, however logins interleave and keys rotate.
\* The account has at most SessionLimit unrevoked sessions, so a login never
\* meets the "revoked more than one session" error that would roll it back for
\* ever.  The two throttle tables hold at most max_rows rows, also when cleanup
\* never runs.  Between clears, a pair and a client are granted at most their
\* limit in a window on rows of their own, and all the identities folded into
\* an overflow row share one limit.
LimitsHold ==
    /\ SessionsWithinLimit
    /\ RowCount(throttle) <= MaxRows
    /\ \A c \in Client :
         /\ granted[ClientIdentity(c)].own <= ClientLimit
         /\ \A n \in Name : granted[Pair(c, n)].own <= PairLimit
    /\ MapThenSumSet(LAMBDA c : granted[ClientIdentity(c)].shared, Client) <= ClientLimit
    /\ MapThenSumSet(LAMBDA i : granted[i].shared, {Pair(c, n) : c \in Client, n \in Name}) <= PairLimit

\* A delay once imposed on a username is kept until it ends: no attempt is
\* granted before, from any client, after a rotation of the keys or a cleanup.
DelayIsKept ==
    [][\A r \in Request, n \in Name :
         request[r] = Quiet /\ request'[r].at = "reserved" /\ request'[r].name = n => blockedTill[n] <= now]_vars

\* ADR 0006 gives a username a delay that ends.  An attempt is refused only when
\* one of its identities is blocked or at its limit, or the table is full.
RefusedForCause ==
    [][\A r \in Request, c \in Client, n \in Name, p \in {0} :
         Reserve(r, c, n, p) /\ request' = request
           => \/ blockedTill[n] > now
              \/ \E k \in DOMAIN throttle.buckets :
                   /\ k.window = WindowOf(now) /\ k.id \in {<<c, n>>, c, None}
                   /\ throttle.buckets[k].attempts >= Limit(k.kind)
              \/ RowCount(throttle) >= MaxRows - OverflowSlots]_vars

\* ADR 0006: a password reset clears the throttle state needed for recovery, so
\* right after it no client is refused for the pair it makes with the account.
RecoveryAdmits ==
    [][revision' > revision =>
         \A k \in DOMAIN throttle'.buckets :
            k.kind = "pair" /\ k.id[2] = Admin /\ k.window = WindowOf(now)
              => throttle'.buckets[k].attempts < PairLimit]_vars
=============================================================================
