--------------------------- MODULE LoginThrottle ---------------------------
(***************************************************************************)
(* The durable login throttle of internal/store/postgres/auth_repository   *)
(* .go: fixed-window buckets for a (client, username) pair, a client and a *)
(* forwarding proxy, and a windowless exponential backoff for a username.  *)
(* Every reservation runs under one advisory lock, so it is one function   *)
(* of the two tables, the clock and the identities of the request.         *)
(*                                                                         *)
(* Rows are keyed by an identifier and the version of the key that         *)
(* digested it.  No bucket ever holds a blocked_until: the only branch     *)
(* that would set one is for usernames, which have their own table.  The   *)
(* attempts and failures of a bucket are always equal, so one number       *)
(* stands for both.                                                        *)
(***************************************************************************)
EXTENDS Integers, FiniteSets, FiniteSetsExt

CONSTANTS
    PairLimit,     \* attempts of a pair in a window (5)
    ClientLimit,   \* attempts of a client, or of a proxy, in a window (20)
    BackoffFrom,   \* failures of a username that start its delay (10)
    FailureCap,    \* failures are counted up to here (15)
    Window,        \* length of a window, of the longest delay and of the
                   \* inactivity that ends a backoff (15 minutes)
    BaseDelay,     \* the first delay (30 seconds)
    MaxRows,       \* auth_throttle_state.max_rows
    None

ASSUME ThrottleAssumption ==
    /\ {PairLimit, ClientLimit, BackoffFrom, Window, BaseDelay} \subseteq Nat \ {0}
    /\ FailureCap \in Nat /\ FailureCap >= BackoffFrom
    /\ MaxRows \in Nat /\ MaxRows >= 4
    /\ BaseDelay <= Window

\* Slots held back for the overflow rows, one for every kind.
OverflowSlots == 4

\* The key version of the overflow rows, whose identifier is the zero digest.
Overflow == 0

\* A table of rows: a function on the keys that have a row.
Without(table, keys) == Restrict(table, DOMAIN table \ keys)

With(table, key, row) == [k \in DOMAIN table \cup {key} |-> IF k = key THEN row ELSE table[k]]

RowCount(t) == Cardinality(DOMAIN t.buckets) + Cardinality(DOMAIN t.backoff)

WindowOf(time) == time \div Window

BucketKey(kind, version, id, time) == [kind |-> kind, version |-> version, id |-> id, window |-> WindowOf(time)]

OverflowKind == [pair |-> "pair_overflow", ip |-> "ip_overflow", invalid_forward |-> "invalid_forward_overflow"]

Limit(kind) == IF kind \in {"pair", "pair_overflow"} THEN PairLimit ELSE ClientLimit

\* The most rows that may exist before a new identity is folded into the
\* overflow row of its kind.
Full(t) == RowCount(t) >= MaxRows - OverflowSlots

\* No row at all may be added, not even an overflow row.
Exhausted(t) == RowCount(t) >= MaxRows

-----------------------------------------------------------------------------
(* reserveUsernameThrottle *)

\* 30 seconds doubled for every failure past the tenth, at most 15 minutes.
Delay(failures) == Min({BaseDelay * 2 ^ Min({failures - BackoffFrom, 5}), Window})

\* A row nobody has touched for 15 minutes counts for nothing, unless its
\* block is still live.
LiveRow(row, time) ==
    IF row.updated <= time - Window /\ row.blocked <= time
    THEN [row EXCEPT !.failures = 0, !.blocked = 0]
    ELSE row

\* Mutant: retained keys are not consulted.
ActiveUsernameKey(identity) == {[version |-> identity.active, id |-> identity.id]}

\* The keys a row of the username may have, the active one and its aliases.
UsernameKeys(identity) == {[version |-> v, id |-> identity.id] : v \in identity.versions}

\* The rows of the username under the active and the retained keys are merged
\* into the active one, refused or not; an unseen username with the table full
\* shares the overflow row.
ReserveUsername(t, identity, time) ==
    LET primary  == [version |-> identity.active, id |-> identity.id]
        found    == UsernameKeys(identity) \cap DOMAIN t.backoff
        shared   == found = {} /\ Full(t)
        folded   == IF shared THEN {"username"} ELSE {}
        target   == IF shared THEN [version |-> Overflow, id |-> None] ELSE primary
        sources  == IF shared THEN {target} \cap DOMAIN t.backoff ELSE found
        row(k)   == LiveRow(t.backoff[k], time)
        failures == Min({FailureCap, MapThenSumSet(LAMBDA k : row(k).failures, sources)})
        block    == Max({0} \cup {row(k).blocked : k \in {x \in sources : row(x).blocked > time}})
        merged   == IF shared THEN t.backoff ELSE Without(t.backoff, found \ {primary})
        next     == Min({FailureCap, failures + 1})
        delayed  == IF next >= BackoffFrom THEN time + Delay(next) ELSE 0
        put(n, b) == [t EXCEPT !.backoff = With(merged, target, [failures |-> n, blocked |-> b, updated |-> time])]
    IN  IF shared /\ Exhausted(t) /\ sources = {}
        THEN [t |-> t, allowed |-> FALSE, blocked |-> 0, shared |-> folded]
        ELSE IF block > 0
        THEN [t |-> IF ~shared /\ (primary \notin found \/ Cardinality(found) > 1)
                    THEN put(failures, block)
                    ELSE [t EXCEPT !.backoff = merged],
              allowed |-> FALSE, blocked |-> block, shared |-> folded]
        ELSE [t |-> put(next, delayed), allowed |-> TRUE, blocked |-> delayed, shared |-> folded]

-----------------------------------------------------------------------------
(* ReserveThrottle *)

\* Mutant: retained keys are not consulted.
ActiveBucketKey(identity, time) == {BucketKey(identity.kind, identity.active, identity.id, time)}

\* The keys a row of the identity may have in this window.
BucketKeys(identity, time) == {BucketKey(identity.kind, v, identity.id, time) : v \in identity.versions}

\* A bucket is charged under the active key once the live rows of the retained
\* keys have been moved into it.  A block found by an earlier identity of the
\* same reservation refuses this one too.
ReserveBucket(t, identity, blocked, time) ==
    LET primary  == BucketKey(identity.kind, identity.active, identity.id, time)
        found    == BucketKeys(identity, time) \cap DOMAIN t.buckets
        aliases  == found \ {primary}
        sum      == MapThenSumSet(LAMBDA k : t.buckets[k].attempts, found)
        tags     == {t.buckets[k].tag : k \in found} \cup {identity.tag}
        tag      == IF tags = {None} THEN None ELSE CHOOSE u \in tags : u # None
        moved    == IF aliases = {} THEN t
                    ELSE [t EXCEPT !.buckets =
                            With(Without(@, aliases), primary, [attempts |-> sum, tag |-> tag])]
        shared   == found = {} /\ Full(moved)
        target   == IF shared THEN BucketKey(OverflowKind[identity.kind], Overflow, None, time) ELSE primary
        known    == target \in DOMAIN moved.buckets
        attempts == IF known THEN moved.buckets[target].attempts ELSE 0
        refused  == \/ blocked > time
                    \/ shared /\ Exhausted(moved) /\ ~known
                    \/ attempts >= Limit(identity.kind)
        row      == [attempts |-> attempts + 1, tag |-> IF shared THEN None ELSE tag]
    IN  IF refused
        THEN [t |-> moved, allowed |-> FALSE, blocked |-> blocked, shared |-> {}]
        ELSE [t |-> [moved EXCEPT !.buckets = With(@, target, row)], allowed |-> TRUE,
              blocked |-> blocked, shared |-> IF shared THEN {identity.kind} ELSE {}]

\* The identities are charged in order; the first refusal ends the reservation
\* and commits what was charged before it.
ReserveThrottle(t, identities, time) ==
    LET charge(identity, acc) ==
            LET r == IF identity.kind = "username"
                     THEN ReserveUsername(acc.t, identity, time)
                     ELSE ReserveBucket(acc.t, identity, acc.blocked, time)
            IN  IF acc.allowed
                THEN [r EXCEPT !.blocked = Max({r.blocked, acc.blocked}), !.shared = @ \cup acc.shared]
                ELSE acc
        start == [t |-> t, allowed |-> TRUE, blocked |-> 0, shared |-> {}]
    IN  MapThenFoldSet(charge, start, LAMBDA i : identities[i], Max, DOMAIN identities)

-----------------------------------------------------------------------------
(* Clearing *)

PairRows(t, versions, id) == {k \in DOMAIN t.buckets : k.kind = "pair" /\ k.version \in versions /\ k.id = id}

UsernameRows(t, versions, id) == {[version |-> v, id |-> id] : v \in versions} \cap DOMAIN t.backoff

\* What CompleteLogin deletes: the pair in every window, unless it is tagged
\* for another user, and the username; never the client, never an overflow.
ClearSuccess(t, pair, username, user) ==
    [buckets |-> Without(t.buckets, {k \in PairRows(t, pair.versions, pair.id) : t.buckets[k].tag \in {user, None}}),
     backoff |-> Without(t.backoff, UsernameRows(t, username.versions, username.id))]

\* What ResetPassword deletes: the pairs tagged for the user, the untagged pairs
\* whose digest is one of the recovery digests, and the usernames with one of
\* them.  The caller's digests are those of the username.
ClearRecovery(t, username, user) ==
    [buckets |-> Without(t.buckets, {k \in DOMAIN t.buckets : k.kind = "pair" /\ t.buckets[k].tag = user}
                                    \cup {k \in PairRows(t, username.versions, username.id) : t.buckets[k].tag = None}),
     backoff |-> Without(t.backoff, UsernameRows(t, username.versions, username.id))]

ExpiredBuckets(t, time) == {k \in DOMAIN t.buckets : k.window * Window < time - Window}

ExpiredUsernames(t, time) == {k \in DOMAIN t.backoff : t.backoff[k].updated < time - Window /\ t.backoff[k].blocked <= time}

\* CleanupThrottle with a limit of one: the oldest expired bucket or, when there
\* is none, the username that has been silent for longest.
CleanupThrottle(t, time) ==
    {[t EXCEPT !.buckets = Without(@, {k})] :
        k \in {x \in ExpiredBuckets(t, time) : \A y \in ExpiredBuckets(t, time) : x.window <= y.window}}
    \cup {[t EXCEPT !.backoff = Without(@, {k})] :
        k \in {x \in ExpiredUsernames(t, time) :
                 /\ ExpiredBuckets(t, time) = {}
                 /\ \A y \in ExpiredUsernames(t, time) : t.backoff[x].updated <= t.backoff[y].updated}}

=============================================================================
