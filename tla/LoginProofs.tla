----------------------------- MODULE LoginProofs ----------------------------
(***************************************************************************)
(* Proof that no login leaves a stale session, for any number of requests, *)
(* clients, names and sessions and without a bound on time.  Password work *)
(* happens outside any transaction; what makes it safe is that             *)
(* CompleteLogin compares the revision it read before, and that a reset    *)
(* revokes every session together with the new revision.                   *)
(***************************************************************************)
EXTENDS AdminLogin, FiniteSetTheorems, WellFoundedInduction, TLAPS

SessionRow == [revision : Nat, proof : Nat, last : Nat, idle : Nat, absolute : Nat, revoked : BOOLEAN]

\* A table of session rows of which the unrevoked ones are of this revision.
Fresh(table, current) ==
    \A s \in DOMAIN table :
       /\ table[s] \in SessionRow
       /\ ~table[s].revoked => table[s].revision = current /\ table[s].proof = current

\* Before the bootstrap there is no session and no login in progress.
NothingYet == DOMAIN sessions = {} /\ \A r \in Request : request[r] = Quiet

LoginInv ==
    /\ now \in Nat /\ revision \in Nat
    /\ Fresh(sessions, revision)
    /\ revision = 0 => NothingYet

-----------------------------------------------------------------------------
\* A row that is revoked is a row, and is revoked.
LEMMA RevokedRow ==
    ASSUME NEW row \in SessionRow
    PROVE  [row EXCEPT !.revoked = TRUE] \in SessionRow /\ [row EXCEPT !.revoked = TRUE].revoked
  <1>1. [row EXCEPT !.revoked = TRUE] \in SessionRow
    BY Zenon DEF SessionRow
  <1>2. [row EXCEPT !.revoked = TRUE].revoked
    BY Zenon DEF SessionRow
  <1> QED
    BY Zenon, <1>1, <1>2

\* Revoking some sessions leaves the others as they were.
LEMMA RevokeKeepsFresh ==
    ASSUME NEW table, NEW ids, NEW current, Fresh(table, current)
    PROVE  Fresh(Revoke(table, ids), current)
  <1> SUFFICES ASSUME NEW s \in DOMAIN table
               PROVE  /\ Revoke(table, ids)[s] \in SessionRow
                      /\ ~Revoke(table, ids)[s].revoked =>
                            /\ Revoke(table, ids)[s].revision = current
                            /\ Revoke(table, ids)[s].proof = current
    BY Zenon DEF Fresh, Revoke
  <1>1. table[s] \in SessionRow
    BY Zenon DEF Fresh
  <1>2. CASE s \in ids
    <2>1. Revoke(table, ids)[s] = [table[s] EXCEPT !.revoked = TRUE]
      BY Zenon, <1>2 DEF Revoke
    <2> QED
      BY Zenon, <1>1, <2>1, RevokedRow
  <1>3. CASE s \notin ids
    <2>1. Revoke(table, ids)[s] = table[s]
      BY Zenon, <1>3 DEF Revoke
    <2> QED
      BY Zenon, <2>1 DEF Fresh
  <1> QED
    BY Zenon, <1>2, <1>3

\* With every unrevoked session revoked, the table is fresh for any revision.
LEMMA RevokeAllIsFresh ==
    ASSUME Fresh(sessions, revision), NEW current
    PROVE  Fresh(Revoke(sessions, Unrevoked), current)
  <1> SUFFICES ASSUME NEW s \in DOMAIN sessions
               PROVE  /\ Revoke(sessions, Unrevoked)[s] \in SessionRow
                      /\ Revoke(sessions, Unrevoked)[s].revoked
    BY Zenon DEF Fresh, Revoke
  <1>1. sessions[s] \in SessionRow
    BY Zenon DEF Fresh
  <1>2. CASE s \in Unrevoked
    <2>1. Revoke(sessions, Unrevoked)[s] = [sessions[s] EXCEPT !.revoked = TRUE]
      BY Zenon, <1>2 DEF Revoke
    <2> QED
      BY Zenon, <1>1, <2>1, RevokedRow
  <1>3. CASE s \notin Unrevoked
    <2>1. Revoke(sessions, Unrevoked)[s] = sessions[s]
      BY Zenon, <1>3 DEF Revoke
    <2> QED
      BY Zenon, <1>1, <1>3, <2>1 DEF Unrevoked
  <1> QED
    BY Zenon, <1>2, <1>3

-----------------------------------------------------------------------------
\* A login is completed only for the revision its password was verified at.
LEMMA LoginKeepsFresh ==
    ASSUME LoginInv, NEW r \in Request, CompleteLogin(r)
    PROVE  LoginInv'
  <1> DEFINE new == created + 1
             row == [revision |-> revision, proof |-> request[r].revision, last |-> now,
                     idle |-> now + Idle, absolute |-> now + Absolute, revoked |-> FALSE]
             table == With(sessions, new, row)
  <1>0. revision # 0
    BY DEF CompleteLogin, LoginInv, NothingYet, Quiet
  <1>1. now' = now /\ revision' = revision
    BY Zenon DEF CompleteLogin
  <1>2. CASE sessions' = sessions
    BY Zenon, <1>0, <1>1, <1>2 DEF LoginInv
  <1>3. CASE SameUser(r) /\ sessions' = Revoke(table, Excessive(table))
    <2>1. request[r].revision = revision /\ revision \in Nat /\ now \in Nat
      BY Zenon, <1>3 DEF SameUser, LoginInv
    <2>2. now + Idle \in Nat /\ now + Absolute \in Nat
      BY <2>1, LoginAssumption
    <2>3. row \in SessionRow /\ row.revision = revision /\ row.proof = revision
      BY Zenon, <2>1, <2>2 DEF SessionRow
    <2> HIDE DEF row, new
    <2>4. Fresh(table, revision)
      BY Zenon, <2>3 DEF Fresh, With, LoginInv
    <2> HIDE DEF table
    <2>5. Fresh(sessions', revision)
      BY Zenon, <1>3, <2>4, RevokeKeepsFresh
    <2> QED
      BY Zenon, <1>0, <1>1, <2>5 DEF LoginInv
  <1> QED
    BY Zenon, <1>2, <1>3 DEF CompleteLogin

\* A touch moves the times of a session only.
LEMMA TouchKeepsFresh ==
    ASSUME LoginInv, NEW r \in Request, NEW s \in DOMAIN sessions, ValidateSession(r, s)
    PROVE  LoginInv'
  <1>0. revision # 0
    BY Zenon DEF LoginInv, NothingYet
  <1>1. now' = now /\ revision' = revision
    BY Zenon DEF ValidateSession
  <1>2. CASE sessions' = sessions
    BY Zenon, <1>0, <1>1, <1>2 DEF LoginInv
  <1>3. CASE sessions' = [sessions EXCEPT ![s] = [@ EXCEPT !.last = now, !.idle = TouchedIdle(s)]]
    <2> DEFINE once == [sessions[s] EXCEPT !.last = now]
               row == [once EXCEPT !.idle = TouchedIdle(s)]
    <2>1. sessions[s] \in SessionRow /\ now \in Nat
      BY Zenon DEF LoginInv, Fresh
    <2>2. TouchedIdle(s) \in Nat
      BY <2>1, LoginAssumption DEF TouchedIdle, SessionRow, Min
    <2>3. once \in SessionRow
      BY Zenon, <2>1 DEF SessionRow
    <2>4. /\ once.revision = sessions[s].revision /\ once.proof = sessions[s].proof
          /\ once.revoked = sessions[s].revoked
      BY Zenon, <2>1 DEF SessionRow
    <2> HIDE DEF once
    <2>5. row \in SessionRow
      BY Zenon, <2>2, <2>3 DEF SessionRow
    <2>6. row.revision = once.revision /\ row.proof = once.proof /\ row.revoked = once.revoked
      BY Zenon, <2>3 DEF SessionRow
    <2>7. sessions' = [sessions EXCEPT ![s] = row]
      BY Zenon, <1>3 DEF once
    <2> HIDE DEF row
    <2>8. Fresh(sessions', revision)
      BY Zenon, <2>4, <2>5, <2>6, <2>7 DEF Fresh, LoginInv
    <2> QED
      BY Zenon, <1>0, <1>1, <2>8 DEF LoginInv
  <1> QED
    BY Zenon, <1>2, <1>3 DEF ValidateSession

\* Every step keeps the unrevoked sessions fresh.
LEMMA LoginStep == LoginInv /\ [Next]_vars => LoginInv'
  <1> SUFFICES ASSUME LoginInv, [Next]_vars PROVE LoginInv'
    BY Zenon
  <1>1. CASE UNCHANGED <<now, revision, sessions>> /\ (revision = 0 => NothingYet')
    BY Zenon, <1>1 DEF LoginInv
  <1>2. CASE Bootstrap
    BY Zenon, <1>2 DEF Bootstrap, LoginInv, NothingYet, Fresh
  <1>3. CASE ResetPassword
    <2>1. /\ revision' = revision + 1 /\ sessions' = Revoke(sessions, Unrevoked) /\ now' = now
      BY Zenon, <1>3 DEF ResetPassword
    <2> QED
      BY <2>1, RevokeAllIsFresh DEF LoginInv
  <1>4. CASE Tick
    BY <1>4 DEF Tick, LoginInv, NothingYet, store
  <1>5. CASE CleanupSessions
    <2>1. PICK k : sessions' = Without(sessions, {k})
      BY Zenon, <1>5 DEF CleanupSessions
    <2>2. Fresh(sessions', revision) /\ DOMAIN sessions' \subseteq DOMAIN sessions
      BY Zenon, <2>1 DEF LoginInv, Fresh, Without, Restrict
    <2> QED
      BY Zenon, <1>5, <2>2 DEF CleanupSessions, LoginInv, NothingYet
  <1>6. ASSUME NEW r \in Request, RevokeSession(r) PROVE LoginInv'
    <2>1. revision # 0
      BY <1>6 DEF RevokeSession, LoginInv, NothingYet, Quiet
    <2>2. Fresh(sessions', revision)
      BY Zenon, <1>6, RevokeKeepsFresh DEF RevokeSession, LoginInv
    <2> QED
      BY Zenon, <1>6, <2>1, <2>2 DEF RevokeSession, LoginInv
  <1>7. ASSUME NEW r \in Request, NEW c \in Client, NEW n \in Name, NEW p, Reserve(r, c, n, p)
        PROVE  LoginInv'
    <2>1. UNCHANGED <<now, revision, sessions>> /\ revision > 0
      BY Zenon, <1>7 DEF Reserve, store
    <2> QED
      BY <1>1, <2>1 DEF LoginInv
  <1>8. ASSUME NEW r \in Request, Verify(r) \/ Landing(r) PROVE LoginInv'
    <2>1. revision # 0
      BY <1>8 DEF Verify, Landing, LoginInv, NothingYet, Quiet
    <2> QED
      BY Zenon, <1>1, <1>8, <2>1 DEF Verify, Landing, store
  <1>9. ASSUME NEW csrf, NEW username, Restart(csrf, username) PROVE LoginInv'
    BY Zenon, <1>1, <1>9 DEF Restart, store, LoginInv, NothingYet
  <1>10. ASSUME NEW c \in Client, ReserveInvalidForward(c) PROVE LoginInv'
    BY Zenon, <1>1, <1>10 DEF ReserveInvalidForward, store, LoginInv, NothingYet
  <1>11. CASE CleanThrottle
    BY Zenon, <1>1, <1>11 DEF CleanThrottle, store, LoginInv, NothingYet
  <1>12. CASE UNCHANGED vars
    BY Zenon, <1>1, <1>12 DEF vars, LoginInv, NothingYet
  <1> QED
    BY Zenon, <1>2, <1>3, <1>4, <1>5, <1>6, <1>7, <1>8, <1>9, <1>10, <1>11, <1>12,
       LoginKeepsFresh, TouchKeepsFresh DEF Next

\* Every unrevoked session is of the account's present revision, and so is
\* the password that was verified for it, however many logins, resets and
\* revocations interleave (CompleteLogin, ResetPassword).
THEOREM SessionsAreFresh == Spec => []NoStaleSession
  <1>1. Init => LoginInv
    BY DEF Init, LoginInv, Fresh, NothingYet
  <1>2. LoginInv => NoStaleSession
    BY Zenon DEF LoginInv, Fresh, NoStaleSession, Unrevoked
  <1> QED
    BY <1>1, <1>2, LoginStep, PTL DEF Spec

-----------------------------------------------------------------------------
\* The unrevoked sessions of a table.
Alive(table) == {s \in DOMAIN table : ~table[s].revoked}

\* The table has a session for some of the numbers that were given out, and
\* no more unrevoked ones than the limit.
Bounded(table, last) == DOMAIN table \subseteq 1 .. last /\ Cardinality(Alive(table)) <= SessionLimit

\* The elements of a set that are greater than s.
Above(U, s) == {x \in U : x > s}

\* A set of naturals that is not empty has a least element.
LEMMA LeastElement ==
    ASSUME NEW S, S \subseteq Nat, S # {}
    PROVE  \E m \in S : \A x \in S : m <= x
  <1>1. PICK m \in S : \A x \in S : ~ (<<x, m>> \in OpToRel(<, Nat))
    BY Zenon, NatLessThanWellFounded, WFMin
  <1>2. \A x \in S : ~ (x < m)
    BY Zenon, <1>1 DEF OpToRel
  <1> QED
    BY <1>2

\* A table has finitely many sessions, and so has every part of it.
LEMMA FinitelyMany ==
    ASSUME NEW last \in Nat, NEW S, S \subseteq 1 .. last
    PROVE  IsFiniteSet(S) /\ Cardinality(S) \in Nat
  <1>1. IsFiniteSet(1 .. last)
    BY FS_Interval
  <1> QED
    BY Zenon, <1>1, FS_Subset, FS_CardinalityType

\* Of a finite set of naturals, at most n elements have fewer than n greater
\* ones.
LEMMA NewestAreFew ==
    ASSUME NEW last \in Nat, NEW U, U \subseteq 1 .. last, NEW n \in Nat \ {0},
           NEW R, R \subseteq U, \A s \in R : ~ (Cardinality(Above(U, s)) >= n)
    PROVE  Cardinality(R) <= n
  <1>1. CASE R = {}
    <2>1. Cardinality(R) = 0
      BY Zenon, <1>1, FS_EmptySet
    <2> QED
      BY <2>1
  <1>2. CASE R # {}
    <2>0. R \subseteq Nat
      OBVIOUS
    <2>1. PICK m \in R : \A x \in R : m <= x
      BY Zenon, <1>2, <2>0, LeastElement
    <2> DEFINE G == Above(U, m)
    <2>2. IsFiniteSet(R) /\ Cardinality(R) \in Nat /\ IsFiniteSet(G) /\ Cardinality(G) \in Nat
      <3>1. G \subseteq 1 .. last /\ R \subseteq 1 .. last
        BY Zenon DEF Above
      <3> QED
        BY Zenon, <3>1, FinitelyMany
    <2>3. R \ {m} \subseteq G
      BY <2>0, <2>1 DEF Above
    <2>4. Cardinality(R \ {m}) = Cardinality(R) - 1
      BY Zenon, <2>1, <2>2, FS_RemoveElement
    <2>5. Cardinality(R \ {m}) <= Cardinality(G)
      BY Zenon, <2>2, <2>3, FS_Subset
    <2>6. ~ (Cardinality(G) >= n)
      BY Zenon, <2>1
    <2> HIDE DEF G
    <2> QED
      BY <2>2, <2>4, <2>5, <2>6
  <1> QED
    BY Zenon, <1>1, <1>2

\* Of a set of at most n + 1 naturals, only one can have n greater ones.
LEMMA OldestIsOne ==
    ASSUME NEW last \in Nat, NEW U, U \subseteq 1 .. last, NEW n \in Nat, Cardinality(U) <= n + 1,
           NEW E, E \subseteq U, \A s \in E : Cardinality(Above(U, s)) >= n
    PROVE  Cardinality(E) <= 1
  <1>1. ASSUME NEW s \in E, NEW t \in E, s < t PROVE FALSE
    <2> DEFINE G == Above(U, s)
               H == Above(U, t)
    <2>1. /\ IsFiniteSet(U) /\ Cardinality(U) \in Nat /\ IsFiniteSet(G) /\ Cardinality(G) \in Nat
          /\ IsFiniteSet(H) /\ Cardinality(H) \in Nat
      <3>1. G \subseteq 1 .. last /\ H \subseteq 1 .. last
        BY Zenon DEF Above
      <3> QED
        BY Zenon, <3>1, FinitelyMany
    <2>2. t \notin H /\ H \cup {t} \subseteq G /\ s \notin G /\ G \cup {s} \subseteq U
      <3>1. s \in U /\ t \in U /\ s \in Nat /\ t \in Nat /\ \A x \in U : x \in Nat
        OBVIOUS
      <3>2. t \notin H /\ s \notin G
        BY <3>1 DEF Above
      <3>3. \A x \in H : x \in G
        BY <1>1, <3>1 DEF Above
      <3>4. t \in G /\ G \subseteq U
        BY Zenon, <1>1, <3>1 DEF Above
      <3> QED
        BY Zenon, <3>1, <3>2, <3>3, <3>4
    <2>3. Cardinality(H) >= n
      BY Zenon
    <2> HIDE DEF G, H
    <2>4. Cardinality(H \cup {t}) = Cardinality(H) + 1 /\ Cardinality(G \cup {s}) = Cardinality(G) + 1
      BY Zenon, <2>1, <2>2, FS_AddElement
    <2>5. Cardinality(H \cup {t}) <= Cardinality(G) /\ Cardinality(G \cup {s}) <= Cardinality(U)
      BY Zenon, <2>1, <2>2, FS_Subset
    <2> QED
      BY <2>1, <2>3, <2>4, <2>5
  <1>2. CASE E = {}
    <2>1. Cardinality(E) = 0
      BY Zenon, <1>2, FS_EmptySet
    <2> QED
      BY <2>1
  <1>3. CASE E # {}
    <2>1. PICK s \in E : TRUE
      BY Zenon, <1>3
    <2>2. ASSUME NEW t \in E PROVE t = s
      <3>1. s \in Nat /\ t \in Nat
        OBVIOUS
      <3> QED
        BY <1>1, <2>1, <3>1
    <2>3. E = {s}
      BY Zenon, <2>1, <2>2
    <2>4. Cardinality(E) = 1
      BY Zenon, <2>3, FS_Singleton
    <2> QED
      BY <2>4
  <1> QED
    BY Zenon, <1>2, <1>3

\* Revoking, and deleting, sessions leaves no more of them unrevoked.
LEMMA FewerStayBounded ==
    ASSUME NEW last \in Nat, NEW table, Bounded(table, last), NEW other,
           DOMAIN other \subseteq DOMAIN table, Alive(other) \subseteq Alive(table)
    PROVE  Bounded(other, last)
  <1>1. IsFiniteSet(Alive(table)) /\ Cardinality(Alive(table)) \in Nat
    BY Zenon, FinitelyMany DEF Alive, Bounded
  <1>2. /\ Cardinality(Alive(other)) <= Cardinality(Alive(table))
        /\ IsFiniteSet(Alive(other))
    BY Zenon, <1>1, FS_Subset
  <1>3. Cardinality(Alive(other)) \in Nat
    BY Zenon, <1>2, FS_CardinalityType
  <1> QED
    BY <1>1, <1>2, <1>3, LoginAssumption DEF Bounded

\* Among the sessions that are not revoked by Revoke(table, ids) are none of ids.
LEMMA AliveAfterRevoke ==
    ASSUME NEW table, \A s \in DOMAIN table : table[s] \in SessionRow, NEW ids
    PROVE  /\ DOMAIN Revoke(table, ids) = DOMAIN table
           /\ Alive(Revoke(table, ids)) = Alive(table) \ ids
  <1>1. DOMAIN Revoke(table, ids) = DOMAIN table
    BY Zenon DEF Revoke
  <1>2. ASSUME NEW s \in DOMAIN table, s \in ids PROVE Revoke(table, ids)[s].revoked
    <2>1. Revoke(table, ids)[s] = [table[s] EXCEPT !.revoked = TRUE]
      BY Zenon, <1>2 DEF Revoke
    <2> QED
      BY Zenon, <2>1, RevokedRow
  <1>3. ASSUME NEW s \in DOMAIN table, s \notin ids PROVE Revoke(table, ids)[s] = table[s]
    BY Zenon, <1>3 DEF Revoke
  <1> QED
    BY Zenon, <1>1, <1>2, <1>3 DEF Alive

-----------------------------------------------------------------------------
\* A login adds the newest session and at most one is past the limit then.
LEMMA LoginRevokesOne ==
    ASSUME created \in Nat, Bounded(sessions, created), NEW row
    PROVE  Cardinality(Excessive(With(sessions, created + 1, row))) <= 1
  <1> DEFINE new == created + 1
             table == With(sessions, new, row)
             U == Alive(table)
  <1>1. DOMAIN table = DOMAIN sessions \cup {new} /\ \A s \in DOMAIN sessions : table[s] = sessions[s]
    BY DEF With, Bounded
  <1>2. U \subseteq Alive(sessions) \cup {new} /\ DOMAIN table \subseteq 1 .. new
    <2> HIDE DEF table
    <2>1. ASSUME NEW s \in U, s # new PROVE s \in Alive(sessions)
      BY Zenon, <1>1, <2>1 DEF Alive
    <2>2. DOMAIN table \subseteq 1 .. new
      BY <1>1 DEF Bounded
    <2> QED
      BY Zenon, <2>1, <2>2
  <1>3. IsFiniteSet(Alive(sessions)) /\ Cardinality(Alive(sessions)) \in Nat
    BY Zenon, FinitelyMany DEF Alive, Bounded
  <1>4. Cardinality(Alive(sessions) \cup {new}) \in Nat /\ IsFiniteSet(Alive(sessions) \cup {new})
        /\ Cardinality(Alive(sessions) \cup {new}) <= Cardinality(Alive(sessions)) + 1
    BY <1>3, FS_AddElement
  <1>5. Cardinality(U) <= Cardinality(Alive(sessions) \cup {new})
    BY Zenon, <1>2, <1>4, FS_Subset
  <1>6. U \subseteq 1 .. new /\ new \in Nat
    BY <1>2 DEF Alive
  <1>7. Cardinality(U) \in Nat
    BY Zenon, <1>6, FinitelyMany
  <1>8. Cardinality(U) <= SessionLimit + 1
    BY <1>3, <1>4, <1>5, <1>7, LoginAssumption DEF Bounded
  <1>9. ASSUME NEW s \in Excessive(table)
        PROVE  s \in U /\ Cardinality(Above(U, s)) >= SessionLimit
    <2>1. Above(U, s) = {x \in DOMAIN table : ~table[x].revoked /\ x > s}
      BY Zenon DEF Above, Alive
    <2> QED
      BY Zenon, <1>9, <2>1 DEF Excessive, Alive
  <1>10. Excessive(table) \subseteq U /\ \A s \in Excessive(table) : Cardinality(Above(U, s)) >= SessionLimit
    BY Zenon, <1>9
  <1> HIDE DEF U, table, new
  <1>11. Cardinality(Excessive(table)) <= 1
    BY Zenon, <1>6, <1>8, <1>10, OldestIsOne, LoginAssumption
  <1> QED
    BY Zenon, <1>11 DEF table, new

\* After a login the newest SessionLimit sessions are left.
LEMMA LoginStaysBounded ==
    ASSUME created \in Nat, Bounded(sessions, created), Fresh(sessions, revision), NEW row \in SessionRow
    PROVE  LET table == With(sessions, created + 1, row)
           IN  Bounded(Revoke(table, Excessive(table)), created + 1)
  <1> DEFINE new == created + 1
             table == With(sessions, new, row)
             U == Alive(table)
             after == Revoke(table, Excessive(table))
             R == Alive(after)
  <1>1. DOMAIN table = DOMAIN sessions \cup {new} /\ \A s \in DOMAIN table : table[s] \in SessionRow
    BY Zenon DEF With, Fresh
  <1>2. DOMAIN table \subseteq 1 .. new /\ new \in Nat
    BY <1>1 DEF Bounded
  <1>3. DOMAIN after = DOMAIN table /\ R = U \ Excessive(table)
    BY Zenon, <1>1, AliveAfterRevoke
  <1>4. ASSUME NEW s \in R
        PROVE  ~ (Cardinality(Above(U, s)) >= SessionLimit)
    <2>1. Above(U, s) = {x \in DOMAIN table : ~table[x].revoked /\ x > s}
      BY Zenon DEF Above, Alive
    <2> QED
      BY Zenon, <1>3, <1>4, <2>1 DEF Excessive, Alive
  <1>5. U \subseteq 1 .. new
    BY Zenon, <1>2 DEF Alive
  <1> HIDE DEF new, table, U, after, R
  <1>6. Cardinality(R) <= SessionLimit
    BY Zenon, <1>2, <1>3, <1>4, <1>5, NewestAreFew, LoginAssumption
  <1> QED
    BY Zenon, <1>2, <1>3, <1>6 DEF Bounded, R, after, table, new

BoundInv == created \in Nat /\ Bounded(sessions, created)

\* Every step keeps the bound: a login revokes what it pushes past the limit.
LEMMA BoundStep == LoginInv /\ BoundInv /\ [Next]_vars => BoundInv'
  <1> SUFFICES ASSUME LoginInv, BoundInv, [Next]_vars PROVE BoundInv'
    BY Zenon
  <1>0. \A s \in DOMAIN sessions : sessions[s] \in SessionRow
    BY Zenon DEF LoginInv, Fresh
  <1>1. CASE UNCHANGED <<sessions, created>>
    BY Zenon, <1>1 DEF BoundInv
  <1>2. ASSUME NEW ids, sessions' = Revoke(sessions, ids), created' = created PROVE BoundInv'
    BY Zenon, <1>0, <1>2, AliveAfterRevoke, FewerStayBounded DEF BoundInv
  <1>3. CASE CleanupSessions
    <2>1. PICK k : sessions' = Without(sessions, {k}) /\ created' = created
      BY Zenon, <1>3 DEF CleanupSessions
    <2>2. DOMAIN sessions' \subseteq DOMAIN sessions /\ Alive(sessions') \subseteq Alive(sessions)
      BY Zenon, <2>1 DEF Without, Restrict, Alive
    <2> QED
      BY Zenon, <2>1, <2>2, FewerStayBounded DEF BoundInv
  <1>4. ASSUME NEW r \in Request, CompleteLogin(r) PROVE BoundInv'
    <2> DEFINE row == [revision |-> revision, proof |-> request[r].revision, last |-> now,
                       idle |-> now + Idle, absolute |-> now + Absolute, revoked |-> FALSE]
               table == With(sessions, created + 1, row)
    <2>1. CASE SameUser(r) /\ created' = created + 1 /\ sessions' = Revoke(table, Excessive(table))
      <3>1. now \in Nat /\ revision \in Nat /\ request[r].revision = revision
        BY Zenon, <2>1 DEF LoginInv, SameUser
      <3>2. now + Idle \in Nat /\ now + Absolute \in Nat
        BY <3>1, LoginAssumption
      <3>3. row \in SessionRow
        BY Zenon, <3>1, <3>2 DEF SessionRow
      <3> HIDE DEF row
      <3>4. Bounded(sessions', created + 1)
        BY Zenon, <2>1, <3>3, LoginStaysBounded DEF BoundInv, LoginInv
      <3> QED
        BY <2>1, <3>4 DEF BoundInv
    <2> QED
      BY Zenon, <1>1, <1>4, <2>1 DEF CompleteLogin
  <1>5. ASSUME NEW r \in Request, NEW s \in DOMAIN sessions, ValidateSession(r, s) PROVE BoundInv'
    <2>1. CASE sessions' = sessions
      BY Zenon, <1>1, <1>5, <2>1 DEF ValidateSession
    <2>2. CASE sessions' = [sessions EXCEPT ![s] = [@ EXCEPT !.last = now, !.idle = TouchedIdle(s)]]
      <3> DEFINE once == [sessions[s] EXCEPT !.last = now]
                 row == [once EXCEPT !.idle = TouchedIdle(s)]
      <3>1. sessions' = [sessions EXCEPT ![s] = row]
        BY Zenon, <2>2
      <3>2. once.revoked = sessions[s].revoked /\ once = [x \in DOMAIN sessions[s] |-> once[x]]
            /\ DOMAIN once = DOMAIN sessions[s] /\ "revoked" \in DOMAIN sessions[s]
        BY Zenon, <1>0 DEF SessionRow
      <3> HIDE DEF once
      <3>3. row.revoked = sessions[s].revoked
        BY Zenon, <3>2
      <3> HIDE DEF row
      <3>4. DOMAIN sessions' = DOMAIN sessions
        BY Zenon, <3>1
      <3>5. \A x \in DOMAIN sessions : sessions'[x].revoked = sessions[x].revoked
        BY Zenon, <3>1, <3>3
      <3>6. Alive(sessions') = Alive(sessions)
        BY Zenon, <3>4, <3>5 DEF Alive
      <3>7. created' = created
        BY Zenon, <1>5 DEF ValidateSession
      <3> QED
        BY Zenon, <3>4, <3>6, <3>7, FewerStayBounded DEF BoundInv
    <2> QED
      BY Zenon, <1>5, <2>1, <2>2 DEF ValidateSession
  <1>6. CASE ResetPassword
    BY Zenon, <1>2, <1>6 DEF ResetPassword
  <1>7. ASSUME NEW r \in Request, RevokeSession(r) PROVE BoundInv'
    BY Zenon, <1>1, <1>2, <1>7 DEF RevokeSession
  <1>8. CASE Bootstrap \/ Tick \/ CleanThrottle \/ UNCHANGED vars
    BY Zenon, <1>1, <1>8 DEF Bootstrap, Tick, CleanThrottle, store, vars
  <1>9. ASSUME NEW csrf, NEW username, Restart(csrf, username) PROVE BoundInv'
    BY Zenon, <1>1, <1>9 DEF Restart, store
  <1>10. ASSUME NEW c, ReserveInvalidForward(c) PROVE BoundInv'
    BY Zenon, <1>1, <1>10 DEF ReserveInvalidForward, store
  <1>11. ASSUME NEW r, NEW c, NEW n, NEW p, Reserve(r, c, n, p) PROVE BoundInv'
    BY Zenon, <1>1, <1>11 DEF Reserve, store
  <1>12. ASSUME NEW r, Verify(r) \/ Landing(r) PROVE BoundInv'
    BY Zenon, <1>1, <1>12 DEF Verify, Landing, store
  <1> QED
    BY Zenon, <1>3, <1>4, <1>5, <1>6, <1>7, <1>8, <1>9, <1>10, <1>11, <1>12 DEF Next

\* The account never has more than SessionLimit unrevoked sessions, and a login
\* never finds more than one to revoke, the error that would roll it back
\* (CompleteLogin's session limit).
THEOREM SessionsAreBounded ==
    Spec => [](SessionsWithinLimit
               /\ \A row : Cardinality(Excessive(With(sessions, created + 1, row))) <= 1)
  <1>1. Init => BoundInv
    <2> SUFFICES ASSUME Init PROVE BoundInv
      BY Zenon
    <2>1. created = 0 /\ DOMAIN sessions = {} /\ Alive(sessions) = {}
      BY DEF Init, Alive
    <2>2. Cardinality(Alive(sessions)) = 0
      BY Zenon, <2>1, FS_EmptySet
    <2> QED
      BY <2>1, <2>2, LoginAssumption DEF BoundInv, Bounded
  <1>2. Init => LoginInv
    BY DEF Init, LoginInv, Fresh, NothingYet
  <1>3. BoundInv => SessionsWithinLimit
                    /\ \A row : Cardinality(Excessive(With(sessions, created + 1, row))) <= 1
    <2>1. Alive(sessions) = Unrevoked
      BY Zenon DEF Alive, Unrevoked
    <2> QED
      BY Zenon, <2>1, LoginRevokesOne DEF BoundInv, Bounded, SessionsWithinLimit
  <1> QED
    BY <1>1, <1>2, <1>3, LoginStep, BoundStep, PTL DEF Spec
=============================================================================
