---------------------------- MODULE AdminProofs -----------------------------
(***************************************************************************)
(* Proofs about what administrators change while hosts and claims read it: *)
(* ServerRegistry, for any servers, hosts and bounds, and RuntimeConfig,   *)
(* for any administrators, jobs, variables and settings and any number of  *)
(* attempts.                                                               *)
(*                                                                         *)
(* The registry's first argument follows one server's rows: there is a     *)
(* credential version exactly when the token is consumed, and a server     *)
(* that was never registered has neither.  Its second follows one host     *)
(* through an enrolment: an awaited request on the wire is the one the     *)
(* command has just sent, and an affirmative answer speaks of the          *)
(* credential in the host's file.  The configuration's follows the freeze  *)
(* at a claim: a retry runs with what the first attempt froze, and an      *)
(* agent is answered that set or nothing.                                  *)
(***************************************************************************)
EXTENDS ServerRegistry, RuntimeConfig, TLAPS

Version == [digest : Nat, status : {"active", "revoked"}]
Token == [digest : Nat, state : {"none", "pending", "expired", "consumed"}]

\* The rows of the registry that the proofs are about have their types.
RegistryRows ==
    /\ drawn \in Nat
    /\ status \in [Server -> {"absent", "active", "revoked"}]
    /\ token \in [Server -> Token]
    /\ credential \in [Server -> Seq(Version)]

\* What ties a server's status, token and credentials together.
ServerRows(s) ==
    /\ credential[s] = <<>> <=> token[s].state # "consumed"
    /\ status[s] = "absent" => token[s].state # "consumed"
    /\ \A v \in 1 .. Len(credential[s]) :
          credential[s][v].status = "active"
          <=> v = Len(credential[s]) /\ status[s] = "active"
    /\ s \in leased => status[s] = "active"

RegistryInv == RegistryRows /\ \A s \in Server : ServerRows(s)

Message == [host : Host, server : Server, token : Nat, credential : 1 .. drawn, try : Nat]
Command == [phase : {"idle"}] \cup
           [phase : {"waiting", "enrolled", "killed"}, server : Server, token : Nat, tries : Nat]

\* The commands, their files and the messages have their types, and a number
\* in a file or a message has been drawn.
EnrollRows ==
    /\ file \in [Host -> 0 .. drawn]
    /\ enrolling \in [Host -> Command]
    /\ wire \subseteq Message
    /\ replies \subseteq [host : Host, ok : BOOLEAN]
    /\ \A r \in requests : r.server \in Server
    /\ \A t \in shown : t.server \in Server /\ t.token \in Nat

\* The control plane's first version for the command of h is the file of h.
Kept(h) ==
    /\ credential[enrolling[h].server] # <<>>
    /\ credential[enrolling[h].server][1].digest = file[h]

\* A request with the credential of a waiting command was sent by that command.
OwnRequests ==
    \A q \in wire : enrolling[q.host].phase = "waiting" /\ file[q.host] = q.credential =>
       /\ q.server = enrolling[q.host].server
       /\ q.token = enrolling[q.host].token
       /\ q.try <= enrolling[q.host].tries

\* A host has at most one answer, for a command that waits for it and whose
\* request is no longer on the wire.
OwnAnswers ==
    \A a \in replies :
       /\ enrolling[a.host].phase = "waiting"
       /\ a.ok => Kept(a.host)
       /\ \A b \in replies : a.host = b.host => a = b
       /\ \A q \in wire : a.host = q.host => ~Awaited(q)

EnrollInv ==
    /\ EnrollRows
    /\ OwnRequests
    /\ OwnAnswers
    /\ \A h \in Host : enrolling[h].phase \in {"waiting", "enrolled"} => file[h] # Nothing
    /\ \A h \in Host : enrolling[h].phase = "enrolled" => Kept(h)

-----------------------------------------------------------------------------
\* Revoking keeps the versions and their digests.
LEMMA RevokedVersions ==
    ASSUME NEW c \in Seq(Version)
    PROVE  /\ Revoked(c) \in Seq(Version)
           /\ Len(Revoked(c)) = Len(c)
           /\ \A v \in 1 .. Len(c) : /\ Revoked(c)[v].status = "revoked"
                                     /\ Revoked(c)[v].digest = c[v].digest
           /\ Revoked(c) = <<>> <=> c = <<>>
  <1>1. DOMAIN c = 1 .. Len(c) /\ Len(c) \in Nat
    OBVIOUS
  <1>2. \A v \in 1 .. Len(c) : c[v] \in Version
    OBVIOUS
  <1>3. \A v \in 1 .. Len(c) : [c[v] EXCEPT !.status = "revoked"] \in Version
    BY Zenon, <1>2 DEF Version
  <1>4. Revoked(c) = [v \in 1 .. Len(c) |-> [c[v] EXCEPT !.status = "revoked"]]
    BY Zenon, <1>1 DEF Revoked
  <1>5. Revoked(c) \in Seq(Version)
    BY <1>1, <1>3, <1>4
  <1>6. Len(Revoked(c)) = Len(c)
    BY <1>1, <1>4, <1>5
  <1>7. \A v \in 1 .. Len(c) : /\ Revoked(c)[v].status = "revoked"
                               /\ Revoked(c)[v].digest = c[v].digest
    BY <1>2, <1>4 DEF Version
  <1>8. Revoked(c) = <<>> <=> c = <<>>
    BY <1>5, <1>6
  <1> QED
    BY Zenon, <1>5, <1>6, <1>7, <1>8

\* No server is registered in the initial state.
LEMMA InitRegistry == RegistryInit => RegistryInv
  BY DEF RegistryInit, RegistryInv, RegistryRows, ServerRows, Token

\* A fresh token leaves the credentials as they are.
LEMMA IssueKeepsRows ==
    ASSUME RegistryInv, NEW x \in Server, NEW n \in {"active"}, Issue(x),
           token[x].state # "consumed",
           status' = [status EXCEPT ![x] = n],
           UNCHANGED <<credential, leased>>
    PROVE  RegistryInv'
  <1> USE DEF RegistryInv, RegistryRows, Issue
  <1>1. drawn' \in Nat /\ [digest |-> drawn', state |-> "pending"] \in Token
    BY DEF Token
  <1>2. token' \in [Server -> Token] /\ status' \in [Server -> {"absent", "active", "revoked"}]
    BY Zenon, <1>1
  <1>3. credential[x] = <<>>
    BY Zenon DEF ServerRows
  <1>4. ASSUME NEW s \in Server PROVE ServerRows(s)'
    <2>1. CASE s = x
      BY <1>3, <2>1 DEF ServerRows
    <2>2. CASE s # x
      BY Zenon, <2>2 DEF ServerRows
    <2> QED
      BY Zenon, <2>1, <2>2
  <1> QED
    BY Zenon, <1>1, <1>2, <1>4

\* A rotation revokes every version and appends the one active version.
LEMMA RotateKeepsRows ==
    ASSUME RegistryInv, NEW r, r.server \in Server, RotateCredential(r)
    PROVE  RegistryInv'
  <1> DEFINE x == r.server
             c == credential[x]
             d == Append(Revoked(c), [digest |-> drawn', status |-> "active"])
  <1>1. status[x] = "active" /\ c \in Seq(Version) /\ drawn' \in Nat
    BY DEF RotateCredential, MayRotate, lockActiveServer, RegistryInv, RegistryRows
  <1>2. c # <<>>
    BY DEF RotateCredential, MayRotate, Active
  <1>3. Revoked(c) \in Seq(Version)
    BY Zenon, <1>1, RevokedVersions
  <1>4. /\ d \in Seq(Version) /\ d # <<>> /\ Len(d) = Len(c) + 1
        /\ \A v \in 1 .. Len(c) : d[v].status = "revoked"
        /\ d[Len(d)].status = "active"
    <2>1. /\ d \in Seq(Version) /\ d # <<>> /\ Len(d) = Len(Revoked(c)) + 1
          /\ \A v \in 1 .. Len(Revoked(c)) : d[v] = Revoked(c)[v]
          /\ d[Len(d)].status = "active"
      <3>1. [digest |-> drawn', status |-> "active"] \in Version
        BY Zenon, <1>1 DEF Version
      <3> HIDE DEF c
      <3> QED
        BY <1>3, <3>1
    <2>2. Len(Revoked(c)) = Len(c) /\ \A v \in 1 .. Len(c) : Revoked(c)[v].status = "revoked"
      BY Zenon, <1>1, RevokedVersions
    <2> HIDE DEF d, c
    <2> QED
      BY Zenon, <2>1, <2>2
  <1>5. credential' = [credential EXCEPT ![x] = d]
    BY Zenon DEF RotateCredential
  <1>6. UNCHANGED <<status, token, leased>>
    BY Zenon DEF RotateCredential, agent, leases
  <1> HIDE DEF d, c, x
  <1>7. RegistryRows'
    BY Zenon, <1>1, <1>4, <1>5, <1>6 DEF RegistryInv, RegistryRows
  <1>8. ASSUME NEW s \in Server PROVE ServerRows(s)'
    <2>1. CASE s = x
      <3>1. credential'[s] = d
        BY Zenon, <1>5, <2>1 DEF RegistryInv, RegistryRows
      <3>2. token[s].state = "consumed" /\ s \in Server
        BY Zenon, <1>2, <2>1 DEF RegistryInv, ServerRows, c
      <3>3. \A v \in 1 .. Len(d) : d[v].status = "active" <=> v = Len(d)
        BY <1>1, <1>4
      <3> QED
        BY Zenon, <1>1, <1>4, <1>6, <2>1, <3>1, <3>2, <3>3 DEF ServerRows
    <2>2. CASE s # x
      BY Zenon, <1>5, <1>6, <2>2 DEF ServerRows, RegistryInv, RegistryRows
    <2> QED
      BY Zenon, <2>1, <2>2
  <1> QED
    BY Zenon, <1>7, <1>8 DEF RegistryInv

\* A revocation leaves no active version and no lease without an unresolved
\* activation.
LEMMA RevokeKeepsRows ==
    ASSUME RegistryInv, NEW r, r.server \in Server, RevokeServer(r)
    PROVE  RegistryInv'
  <1> DEFINE x == r.server
             d == Revoked(credential[x])
  <1>1. credential[x] \in Seq(Version)
    BY Zenon DEF RegistryInv, RegistryRows
  <1>2. /\ d \in Seq(Version) /\ Len(d) = Len(credential[x])
        /\ \A v \in 1 .. Len(d) : d[v].status = "revoked"
        /\ d = <<>> <=> credential[x] = <<>>
    BY Zenon, <1>1, RevokedVersions
  <1>3. /\ credential' = [credential EXCEPT ![x] = d]
        /\ status' = [status EXCEPT ![x] = "revoked"]
        /\ leased' = leased \ {x}
        /\ UNCHANGED <<token, drawn>>
        /\ status[x] = "active"
    BY Zenon DEF RevokeServer, MayRevoke, lockActiveServer
  <1> HIDE DEF d, x
  <1>4. RegistryRows'
    BY Zenon, <1>2, <1>3 DEF RegistryInv, RegistryRows
  <1>5. ASSUME NEW s \in Server PROVE ServerRows(s)'
    <2>1. CASE s = x
      <3>1. credential'[s] = d /\ status'[s] = "revoked"
        BY Zenon, <1>3, <2>1 DEF RegistryInv, RegistryRows
      <3> QED
        BY Zenon, <1>2, <1>3, <2>1, <3>1 DEF ServerRows, RegistryInv
    <2>2. CASE s # x
      BY Zenon, <1>3, <2>2 DEF ServerRows, RegistryInv, RegistryRows
    <2> QED
      BY Zenon, <2>1, <2>2
  <1> QED
    BY Zenon, <1>4, <1>5 DEF RegistryInv

\* An enrolment consumes the token and writes version 1, together.
LEMMA EnrollKeepsRows ==
    ASSUME RegistryInv, NEW q, q.server \in Server, q.credential \in Nat, Enroll(q)
    PROVE  RegistryInv'
  <1> DEFINE x == q.server
             d == Append(credential[x], [digest |-> q.credential, status |-> "active"])
  <1>1. CASE Enrollable(q)
    <2>1. /\ credential[x] = <<>> /\ status[x] = "active"
          /\ credential[x] \in Seq(Version)
      BY Zenon, <1>1 DEF Enrollable, lockActiveServer, RegistryInv, RegistryRows
    <2>2. /\ d \in Seq(Version) /\ d # <<>> /\ Len(d) = 1
          /\ d[1].status = "active"
      <3>1. /\ d \in Seq(Version) /\ d # <<>> /\ Len(d) = Len(credential[x]) + 1
            /\ d[Len(d)].status = "active"
        <4>1. [digest |-> q.credential, status |-> "active"] \in Version
          BY Zenon DEF Version
        <4> HIDE DEF x
        <4> QED
          BY <2>1, <4>1
      <3>2. Len(credential[x]) = 0
        BY <2>1
      <3> HIDE DEF d
      <3> QED
        BY <3>1, <3>2
    <2>3. /\ credential' = [credential EXCEPT ![x] = d]
          /\ token' = [token EXCEPT ![x].state = "consumed"]
          /\ UNCHANGED <<status, leased, drawn>>
      BY Zenon, <1>1 DEF Enroll, agent, leases
    <2> HIDE DEF d, x
    <2>4. RegistryRows'
      BY Zenon, <2>2, <2>3 DEF RegistryInv, RegistryRows, Token
    <2>5. ASSUME NEW s \in Server PROVE ServerRows(s)'
      <3>1. CASE s = x
        <4>1. credential'[s] = d /\ token'[s].state = "consumed" /\ status'[s] = "active"
          BY Zenon, <2>1, <2>3, <3>1 DEF RegistryInv, RegistryRows, Token
        <4>2. \A v \in 1 .. Len(d) : v = 1
          BY <2>2
        <4> QED
          BY Zenon, <2>2, <4>1, <4>2, <2>3 DEF ServerRows
      <3>2. CASE s # x
        BY Zenon, <2>3, <3>2 DEF ServerRows, RegistryInv, RegistryRows
      <3> QED
        BY Zenon, <3>1, <3>2
    <2> QED
      BY Zenon, <2>4, <2>5 DEF RegistryInv
  <1>2. CASE ~Enrollable(q)
    BY <1>2 DEF Enroll, RegistryInv, RegistryRows, ServerRows, agent, leases
  <1> QED
    BY Zenon, <1>1, <1>2
-----------------------------------------------------------------------------
\* The invariant of the rows is kept by every step.
LEMMA RegistryStep == RegistryInv /\ EnrollRows /\ [RegistryNext]_registryVars => RegistryInv'
  <1> SUFFICES ASSUME RegistryInv, EnrollRows, [RegistryNext]_registryVars PROVE RegistryInv'
    BY Zenon
  <1>0. ASSUME UNCHANGED <<status, token, credential, leased>>, drawn' \in Nat
        PROVE  RegistryInv'
    BY Zenon, <1>0 DEF RegistryInv, RegistryRows, ServerRows
  <1>1. CASE SessionEnds \/ SignIn \/ (\E op \in Operation, s \in Server : Admit(op, s))
    BY Zenon, <1>0, <1>1 DEF SessionEnds, SignIn, Admit, registry, agent, leases, RegistryInv,
       RegistryRows
  <1>2. ASSUME NEW r \in requests, RegisterServer(r) PROVE RegistryInv'
    <2>1. r.server \in Server /\ status[r.server] = "absent" /\ token[r.server].state # "consumed"
      BY Zenon, <1>2 DEF RegisterServer, MayRegister, EnrollRows, RegistryInv, ServerRows
    <2> QED
      BY Zenon, <1>2, <2>1, IssueKeepsRows DEF RegisterServer, agent, leases
  <1>3. ASSUME NEW r \in requests, IssueEnrollment(r) PROVE RegistryInv'
    <2>1. /\ r.server \in Server /\ status[r.server] = "active" /\ token[r.server].state # "consumed"
          /\ status' = status /\ UNCHANGED <<credential, leased>> /\ Issue(r.server)
      BY Zenon, <1>3 DEF IssueEnrollment, MayReissue, lockActiveServer, EnrollRows, agent, leases
    <2>2. status' = [status EXCEPT ![r.server] = "active"]
      BY Zenon, <2>1 DEF RegistryInv, RegistryRows
    <2> QED
      BY Zenon, <2>1, <2>2, IssueKeepsRows
  <1>4. ASSUME NEW r \in requests, RotateCredential(r) PROVE RegistryInv'
    BY Zenon, <1>4, RotateKeepsRows DEF EnrollRows
  <1>5. ASSUME NEW r \in requests, RevokeServer(r) PROVE RegistryInv'
    BY Zenon, <1>5, RevokeKeepsRows DEF EnrollRows
  <1>6. ASSUME NEW r \in requests, Deny(r) PROVE RegistryInv'
    BY Zenon, <1>0, <1>6 DEF Deny, registry, agent, leases, RegistryInv, RegistryRows
  <1>7. ASSUME NEW s \in Server, TokenExpires(s) PROVE RegistryInv'
    <2>1. /\ token[s].state = "pending" /\ token' = [token EXCEPT ![s].state = "expired"]
          /\ UNCHANGED <<status, credential, leased, drawn>>
      BY Zenon, <1>7 DEF TokenExpires, agent, leases
    <2>2. RegistryRows'
      BY Zenon, <2>1 DEF RegistryInv, RegistryRows, Token
    <2>3. \A x \in Server : token'[x].state = "consumed" <=> token[x].state = "consumed"
      BY Zenon, <2>1 DEF RegistryInv, RegistryRows, Token
    <2> QED
      BY Zenon, <2>1, <2>2, <2>3 DEF RegistryInv, ServerRows
  <1>8. ASSUME NEW s \in Server, LeaseEnds(s) PROVE RegistryInv'
    BY Zenon, <1>8 DEF LeaseEnds, registry, RegistryInv, RegistryRows, ServerRows
  <1>15. ASSUME NEW s \in Server, ActivationResolved(s) PROVE RegistryInv'
    BY Zenon, <1>0, <1>15 DEF ActivationResolved, registry, RegistryInv, RegistryRows
  <1>16. ASSUME NEW h \in Host, NEW s \in Server, AuthorizeActivation(h, s) PROVE RegistryInv'
    BY Zenon, <1>16 DEF AuthorizeActivation, registry, RegistryInv, RegistryRows, ServerRows
  <1>9. ASSUME NEW q \in wire, Enroll(q) PROVE RegistryInv'
    <2>1. q.server \in Server /\ q.credential \in Nat
      BY DEF EnrollRows, Message, RegistryInv, RegistryRows
    <2> QED
      BY Zenon, <1>9, <2>1, EnrollKeepsRows
  <1>10. ASSUME NEW q \in wire, RequestLost(q) PROVE RegistryInv'
    BY Zenon, <1>0, <1>10 DEF RequestLost, registry, agent, leases, RegistryInv, RegistryRows
  <1>11. ASSUME NEW h \in Host,
                \/ \E t \in shown : BeginEnroll(h, t)
                \/ AttemptFails(h) \/ Answered(h) \/ EnrollKilled(h) \/ RemoveLeftover(h)
         PROVE  RegistryInv'
    BY <1>0, <1>11 DEF BeginEnroll, AttemptFails, Answered, EnrollKilled, RemoveLeftover,
       registry, agent, leases, RegistryInv, RegistryRows
  <1>12. ASSUME NEW h \in Host,
                \/ RunAgent(h) \/ StopAgent(h)
                \/ \E s \in Server : Heartbeat(h, s) \/ DiscoverJobs(h, s)
         PROVE  RegistryInv'
    BY Zenon, <1>0, <1>12 DEF RunAgent, StopAgent, Heartbeat, DiscoverJobs, registry, leases,
       RegistryInv, RegistryRows
  <1>13. ASSUME NEW c \in claiming, CommitClaim(c) PROVE RegistryInv'
    BY Zenon, <1>13 DEF CommitClaim, Authenticate, registry, RegistryInv, RegistryRows,
       ServerRows
  <1>14. CASE UNCHANGED registryVars
    BY Zenon, <1>0, <1>14 DEF registryVars, registry, agent, leases, RegistryInv, RegistryRows
  <1> QED
    BY Zenon, <1>1, <1>2, <1>3, <1>4, <1>5, <1>6, <1>7, <1>8, <1>9, <1>10, <1>11, <1>12, <1>13,
       <1>14, <1>15, <1>16
    DEF RegistryNext

-----------------------------------------------------------------------------
\* A server that has a first version keeps it, with its digest.
FirstKept ==
    \A s \in Server : credential[s] # <<>> =>
       credential'[s] # <<>> /\ credential'[s][1].digest = credential[s][1].digest

\* Only rotations, revocations and enrolments touch the versions, and none of
\* them changes the first one's digest.
LEMMA FirstVersionStays ==
    RegistryInv /\ EnrollRows /\ [RegistryNext]_registryVars => FirstKept
  <1> SUFFICES ASSUME RegistryInv, EnrollRows, [RegistryNext]_registryVars PROVE FirstKept
    BY Zenon
  <1>1. \A s \in Server : credential[s] \in Seq(Version)
    BY Zenon DEF RegistryInv, RegistryRows
  <1>2. \A s \in Server : credential[s] # <<>> => 1 \in 1 .. Len(credential[s])
    BY <1>1
  <1>3. CASE UNCHANGED credential
    BY Zenon, <1>3 DEF FirstKept
  <1>4. ASSUME NEW r \in requests, RotateCredential(r) PROVE FirstKept
    <2> DEFINE c == credential[r.server]
    <2>1. /\ credential' = [credential EXCEPT ![r.server] =
                Append(Revoked(c), [digest |-> drawn', status |-> "active"])]
          /\ r.server \in Server /\ drawn' \in Nat
      BY <1>4 DEF RotateCredential, EnrollRows, RegistryInv, RegistryRows
    <2>2. /\ Revoked(c) \in Seq(Version) /\ Len(Revoked(c)) = Len(c)
          /\ 1 \in 1 .. Len(c) => Revoked(c)[1].digest = c[1].digest
      BY Zenon, <1>1, <2>1, RevokedVersions
    <2>3. [digest |-> drawn', status |-> "active"] \in Version
      BY Zenon, <2>1 DEF Version
    <2> DEFINE d == Append(Revoked(c), [digest |-> drawn', status |-> "active"])
    <2>4. d # <<>> /\ (1 \in 1 .. Len(c) => d[1] = Revoked(c)[1])
      <3> HIDE DEF c
      <3>0. Revoked(c) \in Seq(Version)
        BY Zenon, <2>2
      <3>1. /\ d \in Seq(Version) /\ d # <<>> /\ Len(d) = Len(Revoked(c)) + 1
            /\ \A v \in 1 .. Len(Revoked(c)) : d[v] = Revoked(c)[v]
        BY <2>3, <3>0
      <3> HIDE DEF d
      <3> QED
        BY Zenon, <2>2, <3>1
    <2>5. credential'[r.server] = d
      BY Zenon, <2>1 DEF RegistryInv, RegistryRows
    <2>6. \A s \in Server : s # r.server => credential'[s] = credential[s]
      BY Zenon, <2>1 DEF RegistryInv, RegistryRows
    <2>7. c # <<>> => d # <<>> /\ d[1].digest = c[1].digest
      BY Zenon, <1>2, <2>1, <2>2, <2>4
    <2> HIDE DEF d
    <2> QED
      BY Zenon, <2>5, <2>6, <2>7 DEF FirstKept
  <1>5. ASSUME NEW r \in requests, RevokeServer(r) PROVE FirstKept
    <2> DEFINE c == credential[r.server]
    <2>1. credential' = [credential EXCEPT ![r.server] = Revoked(c)] /\ r.server \in Server
      BY Zenon, <1>5 DEF RevokeServer, EnrollRows
    <2>2. /\ Revoked(c) = <<>> <=> c = <<>>
          /\ 1 \in 1 .. Len(c) => Revoked(c)[1].digest = c[1].digest
      BY Zenon, <1>1, <2>1, RevokedVersions
    <2>3. \A s \in Server : s # r.server => credential'[s] = credential[s]
      BY Zenon, <2>1 DEF RegistryInv, RegistryRows
    <2>4. credential'[r.server] = Revoked(c)
      BY Zenon, <2>1 DEF RegistryInv, RegistryRows
    <2> QED
      BY Zenon, <1>2, <2>1, <2>2, <2>3, <2>4 DEF FirstKept
  <1>6. ASSUME NEW q \in wire, Enroll(q) PROVE FirstKept
    <2>1. CASE Enrollable(q)
      <3>1. credential[q.server] = <<>>
        BY Zenon, <2>1 DEF Enrollable
      <3>2. \A s \in Server : s # q.server => credential'[s] = credential[s]
        BY Zenon, <1>6, <2>1 DEF Enroll, RegistryInv, RegistryRows
      <3> QED
        BY Zenon, <3>1, <3>2 DEF FirstKept
    <2>2. CASE ~Enrollable(q)
      BY Zenon, <1>3, <1>6, <2>2 DEF Enroll
    <2> QED
      BY Zenon, <2>1, <2>2
  <1>7. \/ UNCHANGED credential
        \/ \E r \in requests : RotateCredential(r) \/ RevokeServer(r)
        \/ \E q \in wire : Enroll(q)
    BY Zenon DEF RegistryNext, SessionEnds, SignIn, Admit, RegisterServer, IssueEnrollment,
       Deny,
       TokenExpires, LeaseEnds, RequestLost, BeginEnroll, AttemptFails, Answered, EnrollKilled,
       RemoveLeftover, RunAgent, StopAgent, Heartbeat, DiscoverJobs, CommitClaim,
       AuthorizeActivation, ActivationResolved, registry, registryVars
  <1> QED
    BY Zenon, <1>3, <1>4, <1>5, <1>6, <1>7

-----------------------------------------------------------------------------
\* A command past its start knows its server.
LEMMA CommandParts ==
    ASSUME EnrollRows, NEW h \in Host, enrolling[h].phase # "idle"
    PROVE  /\ enrolling[h] \in [phase : {"waiting", "enrolled", "killed"}, server : Server,
                                token : Nat, tries : Nat]
           /\ enrolling[h].server \in Server /\ enrolling[h].token \in Nat
           /\ enrolling[h].tries \in Nat
  BY Zenon DEF EnrollRows, Command

\* Steps of the console and of running agents leave the enrolments alone.
LEMMA OtherSteps ==
    ASSUME RegistryInv, EnrollInv, FirstKept, drawn' \in Nat, drawn' >= drawn,
           UNCHANGED <<file, enrolling, wire, replies>>,
           \A r \in requests' : r.server \in Server,
           \A t \in shown' : t.server \in Server /\ t.token \in Nat
    PROVE  EnrollInv'
  <1>1. drawn \in Nat
    BY Zenon DEF RegistryInv, RegistryRows
  <1>2. EnrollRows'
    <2>1. 0 .. drawn \subseteq 0 .. drawn' /\ 1 .. drawn \subseteq 1 .. drawn'
      BY <1>1
    <2>2. Message \subseteq Message'
      BY Zenon, <2>1 DEF Message
    <2>3. file \in [Host -> 0 .. drawn']
      BY Zenon, <2>1 DEF EnrollInv, EnrollRows
    <2> QED
      BY Zenon, <2>2, <2>3 DEF EnrollInv, EnrollRows, Command
  <1>3. ASSUME NEW h \in Host, enrolling[h].phase # "idle", Kept(h) PROVE Kept(h)'
    <2>1. enrolling[h].server \in Server
      BY Zenon, <1>3, CommandParts DEF EnrollInv
    <2> QED
      BY Zenon, <1>3, <2>1 DEF Kept, FirstKept
  <1>4. OwnRequests'
    BY Zenon DEF EnrollInv, OwnRequests
  <1>5. OwnAnswers'
    <2> SUFFICES ASSUME NEW a \in replies
                 PROVE  /\ enrolling[a.host].phase = "waiting"
                        /\ a.ok => Kept(a.host)'
                        /\ \A b \in replies : a.host = b.host => a = b
                        /\ \A q \in wire : a.host = q.host => ~Awaited(q)
      BY Zenon DEF OwnAnswers, Awaited
    <2>1. a.host \in Host
      BY Zenon DEF EnrollInv, EnrollRows
    <2> QED
      BY Zenon, <1>3, <2>1 DEF EnrollInv, OwnAnswers
  <1> QED
    BY Zenon, <1>2, <1>3, <1>4, <1>5 DEF EnrollInv

\* A new command: no request on the wire can carry its credential yet.
LEMMA BeginEnrollStep ==
    ASSUME RegistryInv, EnrollInv, NEW h \in Host, NEW t \in shown, BeginEnroll(h, t)
    PROVE  EnrollInv'
  <1> DEFINE e == [phase |-> "waiting", server |-> t.server, token |-> t.token, tries |-> 1]
             m == [host |-> h, server |-> t.server, token |-> t.token,
                   credential |-> drawn', try |-> 1]
  <1>1. /\ enrolling[h].phase # "waiting" /\ drawn' = drawn + 1 /\ drawn \in Nat
        /\ file' = [file EXCEPT ![h] = drawn']
        /\ enrolling' = [enrolling EXCEPT ![h] = e]
        /\ UNCHANGED <<credential, replies, requests, shown>>
        /\ file[h] = Nothing
    BY Zenon DEF BeginEnroll, writeCredentialAtomic, console, registry, RegistryInv,
       RegistryRows
  <1>2. /\ t.server \in Server /\ t.token \in Nat
        /\ file \in [Host -> 0 .. drawn] /\ enrolling \in [Host -> Command]
        /\ wire \subseteq Message /\ replies \subseteq [host : Host, ok : BOOLEAN]
    BY Zenon DEF EnrollInv, EnrollRows
  <1>3. /\ enrolling'[h] = e /\ file'[h] = drawn + 1
        /\ \A g \in Host : g # h => enrolling'[g] = enrolling[g] /\ file'[g] = file[g]
    BY Zenon, <1>1, <1>2
  <1>4. wire' = wire \cup {m}
    BY <1>3 DEF BeginEnroll, Request
  <1>5. EnrollRows'
    <2>1. e \in Command
      BY Zenon, <1>2 DEF Command
    <2>2. enrolling' \in [Host -> Command]
      BY Zenon, <1>1, <1>2, <2>1
    <2>3. file' \in [Host -> 0 .. drawn']
      BY <1>1, <1>2
    <2>4. Message \subseteq Message' /\ m \in Message'
      BY <1>1, <1>2 DEF Message
    <2>5. Command' = Command
      BY Zenon DEF Command
    <2> QED
      BY Zenon, <1>1, <1>4, <2>2, <2>3, <2>4, <2>5 DEF EnrollInv, EnrollRows
  <1>6. OwnRequests'
    <2> SUFFICES ASSUME NEW q \in wire', enrolling'[q.host].phase = "waiting",
                        file'[q.host] = q.credential
                 PROVE  /\ q.server = enrolling'[q.host].server
                        /\ q.token = enrolling'[q.host].token
                        /\ q.try <= enrolling'[q.host].tries
      BY Zenon DEF OwnRequests
    <2>1. CASE q = m
      BY <1>3, <2>1
    <2>2. CASE q # m
      <3>1. q \in wire /\ q.host \in Host /\ q.credential \in 1 .. drawn
        BY Zenon, <1>2, <1>4, <2>2 DEF Message
      <3>2. q.host # h
        BY <1>1, <1>3, <3>1
      <3> QED
        BY Zenon, <1>3, <3>1, <3>2 DEF EnrollInv, OwnRequests
    <2> QED
      BY Zenon, <2>1, <2>2
  <1>7. OwnAnswers'
    <2> SUFFICES ASSUME NEW a \in replies
                 PROVE  /\ enrolling'[a.host].phase = "waiting"
                        /\ a.ok => Kept(a.host)'
                        /\ \A b \in replies : a.host = b.host => a = b
                        /\ \A q \in wire' : a.host = q.host => ~Awaited(q)'
      BY Zenon, <1>1 DEF OwnAnswers
    <2>1. a.host \in Host /\ a.host # h
      BY Zenon, <1>1, <1>2 DEF EnrollInv, OwnAnswers
    <2>2. enrolling'[a.host] = enrolling[a.host] /\ file'[a.host] = file[a.host]
      BY Zenon, <1>3, <2>1
    <2>3. enrolling'[a.host].phase = "waiting" /\ (a.ok => Kept(a.host)')
      BY <1>1, <2>2 DEF EnrollInv, OwnAnswers, Kept
    <2>4. ASSUME NEW q \in wire', a.host = q.host PROVE ~Awaited(q)'
      <3>1. q \in wire
        BY <1>4, <2>1, <2>4
      <3> QED
        BY <2>2, <2>4, <3>1 DEF EnrollInv, OwnAnswers, Awaited
    <2> QED
      BY Zenon, <2>3, <2>4 DEF EnrollInv, OwnAnswers
  <1>8. \A g \in Host : enrolling'[g].phase \in {"waiting", "enrolled"} => file'[g] # Nothing
    BY <1>1, <1>3 DEF EnrollInv, Nothing
  <1>9. \A g \in Host : enrolling'[g].phase = "enrolled" => Kept(g)'
    BY <1>1, <1>3 DEF EnrollInv, Kept
  <1> QED
    BY Zenon, <1>5, <1>6, <1>7, <1>8, <1>9 DEF EnrollInv

\* The control plane handles a request: at most one awaited request per host
\* is on the wire, so at most one answer is on its way back.
LEMMA EnrollStep ==
    ASSUME RegistryInv, EnrollInv, FirstKept, NEW q \in wire, Enroll(q)
    PROVE  EnrollInv'
  <1>1. /\ wire' = wire \ {q} /\ UNCHANGED <<file, enrolling, drawn, requests, shown>>
        /\ replies' = IF Awaited(q) THEN replies \cup {[host |-> q.host, ok |-> Enrollable(q)]}
                                    ELSE replies
    BY Zenon DEF Enroll, console, command
  <1>2. q \in Message /\ wire \subseteq Message /\ replies \subseteq [host : Host, ok : BOOLEAN]
    BY Zenon DEF EnrollInv, EnrollRows
  <1>3. EnrollRows'
    <2>1. [host |-> q.host, ok |-> Enrollable(q)] \in [host : Host, ok : BOOLEAN]
      BY Zenon, <1>2 DEF Message, Enrollable, lockActiveServer
    <2>2. replies' \subseteq [host : Host, ok : BOOLEAN]
      BY Zenon, <1>1, <1>2, <2>1
    <2> QED
      BY Zenon, <1>1, <2>2 DEF EnrollInv, EnrollRows, Message, Command
  <1>4. ASSUME NEW h \in Host, enrolling[h].phase # "idle", Kept(h) PROVE Kept(h)'
    <2>1. enrolling[h].server \in Server
      BY Zenon, <1>4, CommandParts DEF EnrollInv
    <2> QED
      BY Zenon, <1>1, <1>4, <2>1 DEF Kept, FirstKept
  <1>5. ASSUME NEW p \in wire, p.host = q.host, Awaited(p), Awaited(q) PROVE p = q
    <2>1. p.server = q.server /\ p.token = q.token /\ p.credential = q.credential /\ p.try = q.try
      BY Zenon, <1>5 DEF Awaited, EnrollInv, OwnRequests
    <2>2. p \in Message
      BY Zenon, <1>2
    <2> QED
      BY <1>2, <1>5, <2>1, <2>2 DEF Message
  <1>6. ASSUME Awaited(q), Enrollable(q) PROVE Kept(q.host)'
    <2>1. /\ credential[q.server] = <<>>
          /\ credential' = [credential EXCEPT ![q.server] =
                 Append(@, [digest |-> q.credential, status |-> "active"])]
      BY Zenon, <1>6 DEF Enroll, Enrollable
    <2>2. q.server \in Server /\ q.server = enrolling[q.host].server /\ q.credential = file[q.host]
      BY Zenon, <1>2, <1>6 DEF Message, EnrollInv, OwnRequests, Awaited
    <2>3. credential'[q.server] = <<[digest |-> q.credential, status |-> "active"]>>
      BY <2>1, <2>2 DEF RegistryInv, RegistryRows
    <2>4. credential'[q.server] # <<>> /\ credential'[q.server][1].digest = q.credential
      BY <2>3
    <2> QED
      BY Zenon, <1>1, <2>2, <2>4 DEF Kept
  <1>7. OwnAnswers'
    <2> SUFFICES ASSUME NEW a \in replies'
                 PROVE  /\ enrolling[a.host].phase = "waiting"
                        /\ a.ok => Kept(a.host)'
                        /\ \A b \in replies' : a.host = b.host => a = b
                        /\ \A p \in wire' : a.host = p.host => ~Awaited(p)
      BY <1>1 DEF OwnAnswers, Awaited
    <2>1. CASE a \in replies
      <3>1. a.host \in Host /\ enrolling[a.host].phase = "waiting"
        BY Zenon, <1>2, <2>1 DEF EnrollInv, OwnAnswers
      <3>2. a.ok => Kept(a.host)'
        BY Zenon, <1>4, <2>1, <3>1 DEF EnrollInv, OwnAnswers
      <3>3. \A b \in replies' : a.host = b.host => a = b
        BY <1>1, <2>1 DEF EnrollInv, OwnAnswers
      <3>4. \A p \in wire' : a.host = p.host => ~Awaited(p)
        BY Zenon, <1>1, <2>1 DEF EnrollInv, OwnAnswers
      <3> QED
        BY Zenon, <3>1, <3>2, <3>3, <3>4
    <2>2. CASE a \notin replies
      <3>1. Awaited(q) /\ a = [host |-> q.host, ok |-> Enrollable(q)]
        BY Zenon, <1>1, <2>2
      <3>2. enrolling[a.host].phase = "waiting" /\ (a.ok => Kept(a.host)')
        BY Zenon, <1>6, <3>1 DEF Awaited
      <3>3. \A b \in replies : b.host # q.host
        BY Zenon, <3>1 DEF EnrollInv, OwnAnswers
      <3>4. \A b \in replies' : a.host = b.host => a = b
        BY Zenon, <1>1, <3>1, <3>3
      <3>5. \A p \in wire' : a.host = p.host => ~Awaited(p)
        BY Zenon, <1>1, <1>5, <3>1
      <3> QED
        BY Zenon, <3>2, <3>4, <3>5
    <2> QED
      BY Zenon, <2>1, <2>2
  <1>8. OwnRequests'
    BY Zenon, <1>1 DEF EnrollInv, OwnRequests
  <1> QED
    BY Zenon, <1>1, <1>3, <1>4, <1>7, <1>8 DEF EnrollInv

\* A failed attempt is retried with the same token and credential.
LEMMA RetryStep ==
    ASSUME RegistryInv, EnrollInv, NEW h \in Host, enrolling[h].phase = "waiting",
           replies' = {a \in replies : a.host # h},
           enrolling' = [enrolling EXCEPT ![h].tries = @ + 1],
           wire' = wire \cup {Request(h, enrolling'[h], file[h])},
           UNCHANGED <<file, console, registry, drawn>>
    PROVE  EnrollInv'
  <1> DEFINE m == Request(h, enrolling'[h], file[h])
  <1>1. /\ enrolling \in [Host -> Command] /\ wire \subseteq Message
        /\ replies \subseteq [host : Host, ok : BOOLEAN]
        /\ file \in [Host -> 0 .. drawn] /\ drawn \in Nat /\ file[h] # Nothing
    BY Zenon DEF EnrollInv, EnrollRows, RegistryInv, RegistryRows
  <1>2. /\ enrolling[h].server \in Server /\ enrolling[h].token \in Nat /\ enrolling[h].tries \in Nat
        /\ enrolling[h] \in [phase : {"waiting", "enrolled", "killed"}, server : Server,
                             token : Nat, tries : Nat]
    BY Zenon, <1>1 DEF Command
  <1>3. /\ enrolling'[h] = [enrolling[h] EXCEPT !.tries = @ + 1]
        /\ \A g \in Host : g # h => enrolling'[g] = enrolling[g]
    BY Zenon, <1>1
  <1>4. /\ enrolling'[h].phase = "waiting" /\ enrolling'[h].server = enrolling[h].server
        /\ enrolling'[h].token = enrolling[h].token /\ enrolling'[h].tries = enrolling[h].tries + 1
        /\ enrolling'[h] \in Command
    BY <1>2, <1>3 DEF Command
  <1>5. m \in Message
    BY <1>1, <1>2, <1>4 DEF Message, Request, Nothing
  <1>6. EnrollRows'
    <2>1. enrolling' \in [Host -> Command]
      BY Zenon, <1>1, <1>4
    <2>2. wire' \subseteq Message
      BY Zenon, <1>1, <1>5
    <2> QED
      BY Zenon, <2>1, <2>2 DEF EnrollInv, EnrollRows, Message, Command, console
  <1>7. OwnRequests'
    <2> SUFFICES ASSUME NEW q \in wire', enrolling'[q.host].phase = "waiting",
                        file[q.host] = q.credential
                 PROVE  /\ q.server = enrolling'[q.host].server
                        /\ q.token = enrolling'[q.host].token
                        /\ q.try <= enrolling'[q.host].tries
      BY Zenon DEF OwnRequests
    <2>1. CASE q = m
      <3>1. /\ q.host = h /\ q.server = enrolling'[h].server /\ q.token = enrolling'[h].token
            /\ q.try = enrolling'[h].tries
        BY Zenon, <2>1 DEF Request
      <3> QED
        BY <1>2, <1>4, <3>1
    <2>2. CASE q # m
      <3>1. q \in wire /\ q.host \in Host /\ q.try \in Nat
        BY Zenon, <1>1, <2>2 DEF Message
      <3>2. CASE q.host = h
        BY <1>2, <1>4, <3>1, <3>2 DEF EnrollInv, OwnRequests
      <3>3. CASE q.host # h
        BY <1>3, <3>1, <3>3 DEF EnrollInv, OwnRequests
      <3> QED
        BY Zenon, <3>2, <3>3
    <2> QED
      BY Zenon, <2>1, <2>2
  <1>8. OwnAnswers'
    <2> SUFFICES ASSUME NEW a \in replies, a.host # h
                 PROVE  /\ enrolling'[a.host].phase = "waiting"
                        /\ a.ok => Kept(a.host)'
                        /\ \A b \in replies : a.host = b.host => a = b
                        /\ \A q \in wire' : a.host = q.host => ~Awaited(q)'
      BY Zenon DEF OwnAnswers
    <2>1. a.host \in Host /\ enrolling'[a.host] = enrolling[a.host]
      BY Zenon, <1>1, <1>3
    <2>2. ASSUME NEW q \in wire', a.host = q.host PROVE ~Awaited(q)'
      <3>1. q \in wire
        BY <2>2 DEF Request
      <3> QED
        BY <2>1, <2>2, <3>1 DEF EnrollInv, OwnAnswers, Awaited
    <2> QED
      BY <2>1, <2>2 DEF EnrollInv, OwnAnswers, Kept, registry
  <1>9. \A g \in Host : enrolling'[g].phase \in {"waiting", "enrolled"} => file[g] # Nothing
    BY Zenon, <1>1, <1>3 DEF EnrollInv
  <1>10. \A g \in Host : enrolling'[g].phase = "enrolled" => Kept(g)'
    BY <1>3, <1>4 DEF EnrollInv, Kept, registry
  <1> QED
    BY Zenon, <1>6, <1>7, <1>8, <1>9, <1>10 DEF EnrollInv

\* A command ends: it succeeds, gives up or is killed, or its file is removed.
LEMMA CommandEnds ==
    ASSUME RegistryInv, EnrollInv, NEW h \in Host, NEW e \in Command,
           e.phase # "waiting", e.phase = "enrolled" => Kept(h)',
           e.phase = "enrolled" => file' = file /\ file[h] # Nothing,
           enrolling' = [enrolling EXCEPT ![h] = e],
           file' = file \/ file' = [file EXCEPT ![h] = Nothing],
           replies' \subseteq replies, \A a \in replies' : a.host # h,
           UNCHANGED <<console, registry, wire, drawn>>
    PROVE  EnrollInv'
  <1>1. /\ enrolling \in [Host -> Command] /\ wire \subseteq Message
        /\ replies \subseteq [host : Host, ok : BOOLEAN]
        /\ file \in [Host -> 0 .. drawn] /\ drawn \in Nat
    BY Zenon DEF EnrollInv, EnrollRows, RegistryInv, RegistryRows
  <1>2. /\ enrolling'[h] = e
        /\ \A g \in Host : g # h => enrolling'[g] = enrolling[g] /\ file'[g] = file[g]
    BY Zenon, <1>1
  <1>3. EnrollRows'
    <2>1. enrolling' \in [Host -> Command]
      BY Zenon, <1>1
    <2>2. file' \in [Host -> 0 .. drawn]
      BY <1>1 DEF Nothing
    <2> QED
      BY Zenon, <2>1, <2>2 DEF EnrollInv, EnrollRows, Message, Command, console
  <1>4. OwnRequests'
    <2> SUFFICES ASSUME NEW q \in wire, enrolling'[q.host].phase = "waiting",
                        file'[q.host] = q.credential
                 PROVE  /\ q.server = enrolling'[q.host].server
                        /\ q.token = enrolling'[q.host].token
                        /\ q.try <= enrolling'[q.host].tries
      BY Zenon DEF OwnRequests
    <2>1. q.host \in Host /\ q.host # h
      BY Zenon, <1>1, <1>2 DEF Message
    <2> QED
      BY Zenon, <1>2, <2>1 DEF EnrollInv, OwnRequests
  <1>5. OwnAnswers'
    <2> SUFFICES ASSUME NEW a \in replies'
                 PROVE  /\ enrolling'[a.host].phase = "waiting"
                        /\ a.ok => Kept(a.host)'
                        /\ \A b \in replies' : a.host = b.host => a = b
                        /\ \A q \in wire : a.host = q.host => ~Awaited(q)'
      BY Zenon DEF OwnAnswers
    <2>1. a \in replies /\ a.host \in Host
      BY Zenon, <1>1
    <2>2. enrolling'[a.host] = enrolling[a.host] /\ file'[a.host] = file[a.host]
      BY Zenon, <1>2, <2>1
    <2>3. \A q \in wire : a.host = q.host => ~Awaited(q)'
      BY <2>1, <2>2 DEF EnrollInv, OwnAnswers, Awaited
    <2> QED
      BY <2>1, <2>2, <2>3 DEF EnrollInv, OwnAnswers, Kept, registry
  <1>6. \A g \in Host : enrolling'[g].phase \in {"waiting", "enrolled"} => file'[g] # Nothing
    BY Zenon, <1>2 DEF EnrollInv, Command
  <1>7. \A g \in Host : enrolling'[g].phase = "enrolled" => Kept(g)'
    BY <1>2 DEF EnrollInv, Kept, registry
  <1> QED
    BY Zenon, <1>3, <1>4, <1>5, <1>6, <1>7 DEF EnrollInv

-----------------------------------------------------------------------------
\* No enrolment has begun in the initial state.
LEMMA InitEnroll == RegistryInit => EnrollInv
  BY DEF RegistryInit, EnrollInv, EnrollRows, OwnRequests, OwnAnswers, Message, Command, Nothing

\* Every step keeps what is known of the enrolments.
LEMMA EnrollmentStep == RegistryInv /\ EnrollInv /\ [RegistryNext]_registryVars => EnrollInv'
  <1> SUFFICES ASSUME RegistryInv, EnrollInv, [RegistryNext]_registryVars PROVE EnrollInv'
    BY Zenon
  <1>1. FirstKept /\ EnrollRows
    BY Zenon, FirstVersionStays DEF EnrollInv
  <1>2. drawn \in Nat
    BY Zenon DEF RegistryInv, RegistryRows
  <1>3. CASE UNCHANGED <<command, network, requests, shown, drawn>>
    BY <1>1, <1>2, <1>3, OtherSteps DEF EnrollRows, command, network
  <1>4. ASSUME NEW op \in Operation, NEW s \in Server, Admit(op, s) PROVE EnrollInv'
    <2>1. \A r \in requests' : r.server \in Server
      BY <1>1, <1>4 DEF Admit, EnrollRows
    <2> QED
      BY <1>1, <1>2, <1>4, <2>1, OtherSteps DEF Admit, EnrollRows, command, network
  <1>5. ASSUME NEW r \in requests, RegisterServer(r) \/ IssueEnrollment(r) PROVE EnrollInv'
    <2>1. /\ Issue(r.server) /\ requests' = requests \ {r}
          /\ UNCHANGED <<file, enrolling, wire, replies>>
      BY Zenon, <1>5 DEF RegisterServer, IssueEnrollment, command, network
    <2>2. drawn' = drawn + 1
          /\ shown' \in {shown, shown \cup {[server |-> r.server, token |-> drawn']}}
      BY Zenon, <2>1 DEF Issue
    <2>3. \A t \in shown' : t.server \in Server /\ t.token \in Nat
      BY <1>1, <1>2, <2>2 DEF EnrollRows
    <2>4. \A p \in requests' : p.server \in Server
      BY Zenon, <1>1, <2>1 DEF EnrollRows
    <2> QED
      BY <1>1, <1>2, <2>1, <2>2, <2>3, <2>4, OtherSteps
  <1>6. ASSUME NEW r \in requests, RotateCredential(r) \/ RevokeServer(r) \/ Deny(r)
        PROVE  EnrollInv'
    <2>1. /\ requests' = requests \ {r} /\ UNCHANGED <<file, enrolling, wire, replies, shown>>
          /\ drawn' \in {drawn, drawn + 1}
      BY Zenon, <1>6 DEF RotateCredential, RevokeServer, Deny, command, network
    <2>2. \A p \in requests' : p.server \in Server
      BY Zenon, <1>1, <2>1 DEF EnrollRows
    <2> QED
      BY <1>1, <1>2, <2>1, <2>2, OtherSteps DEF EnrollRows
  <1>7. ASSUME NEW q \in wire, RequestLost(q) PROVE EnrollInv'
    <2>1. /\ wire' = wire \ {q}
          /\ UNCHANGED <<file, enrolling, replies, requests, shown, drawn, credential>>
      BY Zenon, <1>7 DEF RequestLost, command, console, registry
    <2>2. EnrollRows'
      BY Zenon, <1>1, <2>1 DEF EnrollRows, Message, Command
    <2>3. OwnRequests'
      BY Zenon, <2>1 DEF EnrollInv, OwnRequests
    <2>4. OwnAnswers'
      BY <2>1 DEF EnrollInv, OwnAnswers, Awaited, Kept
    <2> QED
      BY Zenon, <2>1, <2>2, <2>3, <2>4 DEF EnrollInv, Kept
  <1>8. ASSUME NEW h \in Host, AttemptFails(h) PROVE EnrollInv'
    <2>1. CASE enrolling' = [enrolling EXCEPT ![h].tries = @ + 1]
               /\ wire' = wire \cup {Request(h, enrolling'[h], file[h])} /\ UNCHANGED file
      BY Zenon, <1>8, <2>1, RetryStep DEF AttemptFails
    <2>2. CASE removeUnusedCredential(h) /\ UNCHANGED wire
      <3>1. [phase |-> "idle"] \in Command
        BY Zenon DEF Command
      <3> QED
        BY Zenon, <1>8, <2>2, <3>1, CommandEnds DEF AttemptFails, removeUnusedCredential
    <2> QED
      BY Zenon, <1>8, <2>1, <2>2 DEF AttemptFails
  <1>9. ASSUME NEW h \in Host, Answered(h) PROVE EnrollInv'
    <2>1. PICK a \in replies :
             /\ a.host = h
             /\ replies' = replies \ {a}
             /\ \/ /\ a.ok
                   /\ enrolling' = [enrolling EXCEPT ![h].phase = "enrolled"]
                   /\ UNCHANGED file
                \/ ~a.ok /\ removeUnusedCredential(h)
      BY Zenon, <1>9 DEF Answered
    <2>2. /\ replies' \subseteq replies /\ \A b \in replies' : b.host # h
          /\ enrolling[h].phase = "waiting" /\ (a.ok => Kept(h))
          /\ UNCHANGED <<console, registry, wire, drawn>>
      BY Zenon, <1>9, <2>1 DEF EnrollInv, OwnAnswers, Answered
    <2>3. CASE a.ok /\ enrolling' = [enrolling EXCEPT ![h].phase = "enrolled"] /\ UNCHANGED file
      <3> DEFINE e == [enrolling[h] EXCEPT !.phase = "enrolled"]
      <3>1. enrolling[h] \in [phase : {"waiting", "enrolled", "killed"}, server : Server,
                              token : Nat, tries : Nat]
        BY Zenon, <1>1, <2>2, CommandParts
      <3>2. e \in Command /\ e.phase = "enrolled" /\ e.server = enrolling[h].server
        BY Zenon, <3>1 DEF Command
      <3>3. enrolling' = [enrolling EXCEPT ![h] = e] /\ enrolling'[h] = e
        BY Zenon, <1>1, <2>3 DEF EnrollRows
      <3>4. Kept(h)' /\ file[h] # Nothing
        BY <2>2, <2>3, <3>2, <3>3 DEF Kept, EnrollInv, registry
      <3> HIDE DEF e
      <3> QED
        BY Zenon, <2>2, <2>3, <3>2, <3>3, <3>4, CommandEnds
    <2>4. CASE removeUnusedCredential(h)
      <3>1. [phase |-> "idle"] \in Command
        BY Zenon DEF Command
      <3> QED
        BY Zenon, <2>2, <2>4, <3>1, CommandEnds DEF removeUnusedCredential
    <2> QED
      BY Zenon, <2>1, <2>3, <2>4
  <1>10. ASSUME NEW h \in Host, EnrollKilled(h) PROVE EnrollInv'
    <2> DEFINE e == [enrolling[h] EXCEPT !.phase = "killed"]
    <2>1. enrolling[h] \in [phase : {"waiting", "enrolled", "killed"}, server : Server,
                            token : Nat, tries : Nat]
      BY Zenon, <1>1, <1>10, CommandParts DEF EnrollKilled
    <2>2. e \in Command /\ e.phase = "killed"
      BY Zenon, <2>1 DEF Command
    <2>3. enrolling' = [enrolling EXCEPT ![h] = e]
      BY Zenon, <1>1, <1>10 DEF EnrollKilled, EnrollRows
    <2>4. /\ replies' \subseteq replies /\ \A a \in replies' : a.host # h
          /\ UNCHANGED <<console, registry, wire, drawn, file>>
      BY Zenon, <1>10 DEF EnrollKilled
    <2> HIDE DEF e
    <2> QED
      BY Zenon, <2>2, <2>3, <2>4, CommandEnds
  <1>11. ASSUME NEW h \in Host, RemoveLeftover(h) PROVE EnrollInv'
    <2>1. [phase |-> "idle"] \in Command
      BY Zenon DEF Command
    <2>2. \A a \in replies : a.host # h
      BY Zenon, <1>11 DEF RemoveLeftover, EnrollInv, OwnAnswers
    <2>3. UNCHANGED <<console, registry, wire, replies, drawn>>
      BY Zenon, <1>11 DEF RemoveLeftover, network
    <2> QED
      BY Zenon, <1>11, <2>1, <2>2, <2>3, CommandEnds DEF RemoveLeftover
  <1>12. ASSUME NEW s \in Server, TokenExpires(s) \/ LeaseEnds(s) \/ ActivationResolved(s)
         PROVE  EnrollInv'
    BY Zenon, <1>3, <1>12 DEF TokenExpires, LeaseEnds, ActivationResolved, console
  <1>13. ASSUME NEW h \in Host,
                \/ RunAgent(h) \/ StopAgent(h)
                \/ \E s \in Server : \/ Heartbeat(h, s) \/ DiscoverJobs(h, s)
                                    \/ AuthorizeActivation(h, s)
         PROVE  EnrollInv'
    BY Zenon, <1>3, <1>13 DEF RunAgent, StopAgent, Heartbeat, DiscoverJobs,
       AuthorizeActivation, console
  <1>14. ASSUME NEW c \in claiming, CommitClaim(c) PROVE EnrollInv'
    BY Zenon, <1>3, <1>14 DEF CommitClaim, console
  <1>15. CASE SessionEnds \/ SignIn
    BY Zenon, <1>3, <1>15 DEF SessionEnds, SignIn
  <1>16. CASE UNCHANGED registryVars
    BY Zenon, <1>3, <1>16 DEF registryVars, console
  <1> QED
    BY Zenon, <1>1, <1>4, <1>5, <1>6, <1>7, <1>8, <1>9, <1>10, <1>11, <1>12, <1>13, <1>14,
       <1>15, <1>16,
       BeginEnrollStep, EnrollStep DEF RegistryNext

\* Both invariants hold in every reachable state.
LEMMA RegistryInvariants == RegistrySpec => [](RegistryInv /\ EnrollInv)
  <1>1. RegistryInv /\ EnrollInv /\ [RegistryNext]_registryVars => (RegistryInv /\ EnrollInv)'
    BY Zenon, RegistryStep, EnrollmentStep DEF EnrollInv
  <1> QED
    BY <1>1, InitRegistry, InitEnroll, PTL DEF RegistrySpec

\* For any number of servers and hosts, an active server that has enrolled
\* has its newest credential version active and no other; any other server
\* has none, and no lease but one whose activation is unresolved
\* (RotateCredential, RevokeServer, Enroll, CommitClaim).
THEOREM OneCredential == RegistrySpec => []OneActiveCredential
  <1>1. RegistryInv => OneActiveCredential
    <2> SUFFICES ASSUME RegistryInv, NEW s \in Server
                 PROVE  /\ Active(s) = IF status[s] = "active" /\ token[s].state = "consumed"
                                         THEN {Len(credential[s])}
                                         ELSE {}
                        /\ s \in leased => status[s] = "active"
      BY Zenon DEF OneActiveCredential
    <2>1. credential[s] \in Seq(Version) /\ ServerRows(s)
      BY Zenon DEF RegistryInv, RegistryRows
    <2>2. DOMAIN credential[s] = 1 .. Len(credential[s]) /\ Len(credential[s]) \in Nat
      BY <2>1
    <2>3. credential[s] # <<>> => Len(credential[s]) \in 1 .. Len(credential[s])
      BY <2>1
    <2>4. credential[s] = <<>> => 1 .. Len(credential[s]) = {}
      BY <2>1
    <2> QED
      BY Zenon, <2>1, <2>2, <2>3, <2>4 DEF ServerRows, Active
  <1> QED
    BY <1>1, RegistryInvariants, PTL

\* For any hosts and any losses and delays of requests, the credential file
\* of a host that has enrolled is the first version the control plane holds
\* for its server, and no step changes it (writeCredentialAtomic, enroll).
THEOREM EnrolledKeeps == RegistrySpec => EnrolledKeepsCredential
  <1>1. RegistryInv /\ EnrollInv /\ [RegistryNext]_registryVars =>
          [\A h \in Host : enrolling[h].phase = "enrolled" =>
             /\ file[h] = credential[enrolling[h].server][1].digest
             /\ file'[h] = file[h]]_registryVars
    <2> SUFFICES ASSUME RegistryInv, EnrollInv, RegistryNext, NEW h \in Host,
                        enrolling[h].phase = "enrolled"
                 PROVE  /\ file[h] = credential[enrolling[h].server][1].digest
                        /\ file'[h] = file[h]
      BY Zenon
    <2>1. Kept(h) /\ file[h] # Nothing /\ file \in [Host -> 0 .. drawn]
      BY Zenon DEF EnrollInv, EnrollRows
    <2>2. \/ UNCHANGED file
          \/ \E g \in Host : g # h /\ \E c : file' = [file EXCEPT ![g] = c]
      <3>1. ASSUME NEW g \in Host, NEW t \in shown, BeginEnroll(g, t)
            PROVE  g # h /\ \E c : file' = [file EXCEPT ![g] = c]
        BY Zenon, <2>1, <3>1 DEF BeginEnroll, writeCredentialAtomic
      <3>2. ASSUME NEW g \in Host, AttemptFails(g)
            PROVE  \/ UNCHANGED file
                   \/ g # h /\ \E c : file' = [file EXCEPT ![g] = c]
        BY Zenon, <3>2 DEF AttemptFails, removeUnusedCredential
      <3>3. ASSUME NEW g \in Host, Answered(g)
            PROVE  \/ UNCHANGED file
                   \/ g # h /\ \E c : file' = [file EXCEPT ![g] = c]
        BY Zenon, <3>3 DEF Answered, removeUnusedCredential, EnrollInv, OwnAnswers
      <3>4. ASSUME NEW g \in Host, RemoveLeftover(g)
            PROVE  g # h /\ \E c : file' = [file EXCEPT ![g] = c]
        BY Zenon, <3>4 DEF RemoveLeftover
      <3>5. \/ UNCHANGED file
            \/ \E g \in Host : \/ \E t \in shown : BeginEnroll(g, t)
                               \/ AttemptFails(g) \/ Answered(g) \/ RemoveLeftover(g)
        BY Zenon DEF RegistryNext, SessionEnds, SignIn, Admit, RegisterServer, IssueEnrollment,
           RotateCredential, RevokeServer, Deny, TokenExpires, LeaseEnds, Enroll, RequestLost,
           EnrollKilled, RunAgent, StopAgent, Heartbeat, DiscoverJobs, CommitClaim,
           AuthorizeActivation, ActivationResolved, command
      <3> QED
        BY Zenon, <3>1, <3>2, <3>3, <3>4, <3>5
    <2> QED
      BY Zenon, <2>1, <2>2 DEF Kept
  <1> QED
    BY <1>1, RegistryInvariants, PTL DEF RegistrySpec, EnrolledKeepsCredential

-----------------------------------------------------------------------------
(* The runtime configuration.                                              *)


\* A row of frozen_secret_versions per variable: a function on its domain.
IsSecretSet(s) == s = [v \in DOMAIN s |-> s[v]]

\* A job without attempts has no release, and the attempts of a job are copies
\* of one snapshot, which is the one its release was digested from.
FreezeInv ==
    /\ corrupt = {}
    /\ DOMAIN attempts = Job /\ attempts = [j \in Job |-> attempts[j]]
    /\ DOMAIN release = Job /\ release = [j \in Job |-> release[j]]
    /\ \A j \in Job : /\ attempts[j] \in Seq({release[j]})
                      /\ attempts[j] = <<>> => release[j] = None

\* The rows a claim in flight has read so far.
ClaimInv ==
    claim # None => /\ claim.job \in Job
                    /\ claim = [job |-> claim.job, total |-> claim.total,
                                at |-> claim.at, frozen |-> claim.frozen]
                    /\ claim.frozen = [config |-> claim.frozen.config,
                                       secrets |-> claim.frozen.secrets,
                                       literals |-> claim.frozen.literals]
                    /\ IsSecretSet(claim.frozen.secrets)

\* The slot's occupant has an attempt, and a job with an attempt has a set of
\* frozen secrets.
AttemptInv ==
    /\ live # None => live \in Job /\ attempts[live] # <<>>
    /\ \A j \in Job : attempts[j] # <<>> => IsSecretSet(release[j].secrets)

\* A request in flight asks for the frozen set of its job and has read a part
\* of it; what was answered is the frozen set of its job.
DeliveryInv ==
    /\ delivery # None =>
          /\ delivery.job \in Job /\ attempts[delivery.job] # <<>>
          /\ delivery = [job |-> delivery.job, asked |-> delivery.asked, read |-> delivery.read]
          /\ delivery.asked = release[delivery.job].secrets
          /\ DOMAIN delivery.read \subseteq DOMAIN delivery.asked
          /\ delivery.read = [v \in DOMAIN delivery.read |-> delivery.asked[v]]
    /\ \A d \in delivered : /\ d.job \in Job /\ attempts[d.job] # <<>>
                              /\ d.secrets = release[d.job].secrets

\* No job has an attempt at first.
LEMMA InitHolds == Init => FreezeInv /\ ClaimInv /\ AttemptInv /\ DeliveryInv
  BY DEF Init, FreezeInv, ClaimInv, AttemptInv, DeliveryInv

\* Frozen rows are only written by a committing claim.
LEMMA FreezeUnchanged ==
    ASSUME FreezeInv, UNCHANGED <<attempts, release, corrupt>>
    PROVE  FreezeInv'
  BY Zenon DEF FreezeInv

\* Committing an attempt keeps the attempts of its job alike: the first one
\* defines the release, a later one is a copy of its predecessor.
LEMMA FreezeCommit ==
    ASSUME FreezeInv, ClaimInv, commitFreeze
    PROVE  FreezeInv' /\ attempts'[claim.job] # <<>>
<1> DEFINE j == claim.job
<1>1. j \in Job
  BY Zenon DEF ClaimInv, commitFreeze, At
<1>2. /\ attempts[j] \in Seq({release[j]})
      /\ attempts[j] = <<>> => release[j] = None
  BY Zenon, <1>1 DEF FreezeInv
<1>3. attempts[j] # <<>> => Frozen(j) = release[j]
  <2>1. ASSUME attempts[j] # <<>> PROVE attempts[j][Len(attempts[j])] \in {release[j]}
    BY <1>2, <2>1, SMTT(30)
  <2> QED BY <2>1 DEF Frozen
<1>4. release[j] \in {None, computeConfigDigest(Frozen(j))}
  BY Zenon, <1>2, <1>3 DEF computeConfigDigest
<1>5. /\ attempts' = [attempts EXCEPT ![j] = Append(attempts[j], Frozen(j))]
      /\ release' = [release EXCEPT ![j] = Frozen(j)]
      /\ corrupt' = corrupt
  BY Zenon, <1>4 DEF commitFreeze, computeConfigDigest
<1>6. /\ attempts'[j] = Append(attempts[j], Frozen(j)) /\ release'[j] = Frozen(j)
      /\ \A k \in Job \ {j} : attempts'[k] = attempts[k] /\ release'[k] = release[k]
      /\ DOMAIN attempts' = Job /\ attempts' = [k \in Job |-> attempts'[k]]
      /\ DOMAIN release' = Job /\ release' = [k \in Job |-> release'[k]]
  BY Zenon, <1>1, <1>5 DEF FreezeInv
<1>7. attempts[j] \in Seq({Frozen(j)})
  <2>1. CASE attempts[j] = <<>>
    BY <2>1
  <2>2. CASE attempts[j] # <<>>
    BY Zenon, <2>2, <1>2, <1>3
  <2> QED BY <2>1, <2>2
<1>8. attempts'[j] \in Seq({release'[j]}) /\ attempts'[j] # <<>>
  BY <1>6, <1>7, SMTT(30)
<1> QED
  BY Zenon, <1>5, <1>6, <1>8 DEF FreezeInv

\* A committing claim never rewrites the release of a job that has one.
LEMMA ReleaseKept ==
    ASSUME FreezeInv, ClaimInv, commitFreeze, NEW k \in Job, attempts[k] # <<>>
    PROVE  attempts'[k] # <<>> /\ release'[k] = release[k]
<1>1. CASE k = claim.job
  <2>1. attempts[k] \in Seq({release[k]})
    BY Zenon DEF FreezeInv
  <2>2. attempts[k][Len(attempts[k])] \in {release[k]}
    BY <2>1, SMTT(30)
  <2>3. Frozen(k) = release[k]
    BY Zenon, <2>2 DEF Frozen
  <2>4. /\ attempts' = [attempts EXCEPT ![k] = Append(attempts[k], Frozen(k))]
        /\ release' = [release EXCEPT ![k] = Frozen(k)]
    BY Zenon, <1>1, <2>3 DEF commitFreeze, computeConfigDigest
  <2>5. attempts'[k] = Append(attempts[k], Frozen(k)) /\ release'[k] = release[k]
    BY Zenon, <2>3, <2>4 DEF FreezeInv
  <2> QED BY <2>1, <2>5, SMTT(30)
<1>2. CASE k # claim.job
  BY Zenon, <1>2 DEF commitFreeze, FreezeInv
<1> QED BY <1>1, <1>2

\* What a step may do to the rows of the freeze, which every other invariant
\* rests on: keep the attempts and releases that exist.
LEMMA RowsKept ==
    ASSUME FreezeInv, ClaimInv, [Next]_vars, NEW k \in Job, attempts[k] # <<>>
    PROVE  attempts'[k] # <<>> /\ release'[k] = release[k]
<1>1. CASE commitFreeze
  BY Zenon, <1>1, ReleaseKept
<1>2. CASE ~commitFreeze
  <2>1. UNCHANGED <<attempts, release>>
    BY Zenon, <1>2 DEF Next, vars, claimVars, environmentConfigGet, environmentConfigPost,
       AddEnvironmentRuntimeBinding, RemoveEnvironmentRuntimeBinding, CreateSecret,
       ReadVersionToReplace, replace, lockEnvironmentRuntimeConfig,
       resolveRuntimeSecretBindings, resolveRuntimeLiteralBindings, CountBindings,
       ResolveBindings, claimRolledBack, attemptEnds, AuthorizeMaterialization, materialize
  <2> QED BY <2>1
<1> QED BY <1>1, <1>2

\* Every step keeps the freeze: only a commit writes its rows.
LEMMA FreezeNext ==
    ASSUME FreezeInv, ClaimInv, [Next]_vars
    PROVE  FreezeInv'
<1>1. CASE commitFreeze
  BY Zenon, <1>1, FreezeCommit
<1>2. CASE ~commitFreeze
  <2>1. UNCHANGED <<attempts, release, corrupt>>
    BY Zenon, <1>2 DEF Next, vars, claimVars, environmentConfigGet, environmentConfigPost,
       AddEnvironmentRuntimeBinding, RemoveEnvironmentRuntimeBinding, CreateSecret,
       ReadVersionToReplace, replace, lockEnvironmentRuntimeConfig,
       resolveRuntimeSecretBindings, resolveRuntimeLiteralBindings, CountBindings,
       ResolveBindings, claimRolledBack, attemptEnds, AuthorizeMaterialization, materialize
  <2> QED BY <2>1, FreezeUnchanged
<1> QED BY <1>1, <1>2

\* A claim starts with nothing frozen and resolves one kind of binding after
\* the other.
LEMMA ClaimNext ==
    ASSUME ClaimInv, [Next]_vars
    PROVE  ClaimInv'
<1>1. CASE \E j \in Job : lockEnvironmentRuntimeConfig(j)
  <2>1. PICK j \in Job : lockEnvironmentRuntimeConfig(j)
    BY Zenon, <1>1
  <2>2. /\ claim'.job = j /\ claim'.frozen = [NothingFrozen EXCEPT !.config = config]
        /\ claim' = [job |-> claim'.job, total |-> claim'.total,
                     at |-> claim'.at, frozen |-> claim'.frozen]
    BY Zenon, <2>1 DEF lockEnvironmentRuntimeConfig
  <2>3. claim'.frozen = [config |-> config, secrets |-> <<>>, literals |-> {}]
    BY Zenon, <2>2 DEF NothingFrozen
  <2> QED BY <2>2, <2>3 DEF ClaimInv, IsSecretSet
<1>2. ASSUME NEW step, NEW kind, NEW next, CountBindings(step, kind, next) PROVE ClaimInv'
  BY Zenon, <1>2 DEF CountBindings, At, ClaimInv, IsSecretSet
<1>3. ASSUME NEW step, NEW found, NEW frozen, NEW next, ResolveBindings(step, found, frozen, next),
             frozen = [config |-> frozen.config, secrets |-> frozen.secrets,
                       literals |-> frozen.literals],
             IsSecretSet(frozen.secrets)
      PROVE  ClaimInv'
  BY Zenon, <1>3 DEF ResolveBindings, At, ClaimInv
<1>4. CASE resolveRuntimeSecretBindings
  <2> DEFINE found == {v \in Bound("secret") : versions[Current] = "active"}
             frozen == [claim.frozen EXCEPT !.secrets = [v \in found |-> Current]]
  <2>1. CASE CountBindings("count_secrets", "secret", "secrets")
    BY Zenon, <2>1, <1>2
  <2>2. CASE ResolveBindings("secrets", found, frozen, "count_literals")
    <3>1. claim # None
      BY Zenon, <2>2 DEF ResolveBindings, At
    <3> HIDE DEF found
    <3>2. frozen = [config |-> claim.frozen.config, secrets |-> [v \in found |-> Current],
                    literals |-> claim.frozen.literals]
      BY <3>1 DEF ClaimInv
    <3>3. IsSecretSet(frozen.secrets)
      BY Zenon, <3>2 DEF IsSecretSet
    <3> QED BY <2>2, <3>2, <3>3, <1>3
  <2> QED BY <1>4, <2>1, <2>2 DEF resolveRuntimeSecretBindings
<1>5. CASE resolveRuntimeLiteralBindings
  <2> DEFINE found == Bound("literal_nonsecret")
             frozen == [claim.frozen EXCEPT !.literals = found]
  <2>1. CASE CountBindings("count_literals", "literal_nonsecret", "literals")
    BY Zenon, <2>1, <1>2
  <2>2. CASE ResolveBindings("literals", found, frozen, "commit")
    <3>1. claim # None
      BY Zenon, <2>2 DEF ResolveBindings, At
    <3> HIDE DEF found
    <3>2. frozen = [config |-> claim.frozen.config, secrets |-> claim.frozen.secrets,
                    literals |-> found]
      BY <3>1 DEF ClaimInv
    <3>3. IsSecretSet(frozen.secrets)
      BY Zenon, <3>1, <3>2 DEF ClaimInv
    <3> QED BY <2>2, <3>2, <3>3, <1>3
  <2> QED BY <1>5, <2>1, <2>2 DEF resolveRuntimeLiteralBindings
<1>6. CASE commitFreeze \/ claimRolledBack
  BY Zenon, <1>6 DEF commitFreeze, claimRolledBack, ClaimInv
<1>7. CASE UNCHANGED claim
  BY Zenon, <1>7 DEF ClaimInv
<1>8. \/ UNCHANGED claim \/ commitFreeze \/ claimRolledBack
      \/ resolveRuntimeSecretBindings \/ resolveRuntimeLiteralBindings
      \/ \E j \in Job : lockEnvironmentRuntimeConfig(j)
  BY Zenon DEF Next, vars, claimVars, environmentConfigGet, environmentConfigPost,
     AddEnvironmentRuntimeBinding, RemoveEnvironmentRuntimeBinding, CreateSecret,
     ReadVersionToReplace, replace, attemptEnds, AuthorizeMaterialization, materialize
<1> QED BY <1>1, <1>4, <1>5, <1>6, <1>7, <1>8

\* The slot is occupied by a commit, and a first commit freezes a set.
LEMMA AttemptNext ==
    ASSUME FreezeInv, ClaimInv, AttemptInv, [Next]_vars
    PROVE  AttemptInv'
<1>1. CASE commitFreeze
  <2> DEFINE j == claim.job
  <2>1. /\ j \in Job /\ IsSecretSet(claim.frozen.secrets)
        /\ attempts[j] \in Seq({release[j]})
        /\ attempts[j] = <<>> => release[j] = None
        /\ attempts = [k \in Job |-> attempts[k]] /\ release = [k \in Job |-> release[k]]
    BY Zenon, <1>1 DEF ClaimInv, FreezeInv, commitFreeze, At
  <2>2. ASSUME NEW k \in Job, attempts[k] # <<>> PROVE IsSecretSet(release'[k].secrets)
    BY Zenon, <1>1, <2>2, ReleaseKept DEF AttemptInv
  <2>3. ASSUME NEW k \in Job, attempts[k] = <<>>, attempts'[k] # <<>>
        PROVE  k = j /\ IsSecretSet(release'[k].secrets)
    <3>1. k = j
      BY Zenon, <1>1, <2>1, <2>3 DEF commitFreeze
    <3>2. release' = [release EXCEPT ![j] = claim.frozen]
      BY Zenon, <1>1, <2>1, <2>3, <3>1 DEF commitFreeze, Frozen, computeConfigDigest
    <3> QED BY <2>1, <3>1, <3>2
  <2>4. live' # None => live' \in Job /\ attempts'[live'] # <<>>
    <3>1. CASE live' = live
      BY Zenon, <1>1, <3>1, ReleaseKept DEF AttemptInv
    <3>2. CASE live' # live
      <4>1. live' = j
        BY Zenon, <1>1, <3>2 DEF commitFreeze
      <4> QED BY <1>1, <2>1, <4>1, FreezeCommit
    <3> QED BY <3>1, <3>2
  <2> QED BY <2>2, <2>3, <2>4 DEF AttemptInv
<1>2. CASE ~commitFreeze
  <2>1. UNCHANGED <<attempts, release>> /\ live' \in {live, None}
    BY Zenon, <1>2 DEF Next, vars, claimVars, environmentConfigGet, environmentConfigPost,
       AddEnvironmentRuntimeBinding, RemoveEnvironmentRuntimeBinding, CreateSecret,
       ReadVersionToReplace, replace, lockEnvironmentRuntimeConfig,
       resolveRuntimeSecretBindings, resolveRuntimeLiteralBindings, CountBindings,
       ResolveBindings, claimRolledBack, attemptEnds, AuthorizeMaterialization, materialize
  <2> QED BY <2>1 DEF AttemptInv
<1> QED BY <1>1, <1>2

\* A request asks for the frozen set, reads it version by version, and is
\* answered when nothing is left.
LEMMA DeliveryNext ==
    ASSUME FreezeInv, ClaimInv, AttemptInv, DeliveryInv, [Next]_vars
    PROVE  DeliveryInv'
<1>1. \A k \in Job : attempts[k] # <<>> => attempts'[k] # <<>> /\ release'[k] = release[k]
  BY Zenon, RowsKept
<1>2. CASE AuthorizeMaterialization
  <2>1. /\ live \in Job /\ attempts[live] # <<>> /\ attempts[live] \in Seq({release[live]})
    BY Zenon, <1>2 DEF AuthorizeMaterialization, AttemptInv, FreezeInv
  <2>2. attempts[live][Len(attempts[live])] \in {release[live]}
    BY <2>1, SMTT(30)
  <2>3. FrozenSecrets(live) = release[live].secrets
    BY Zenon, <2>2 DEF FrozenSecrets
  <2>4. /\ delivery' = [job |-> live, asked |-> release[live].secrets, read |-> <<>>]
        /\ delivered' = delivered
    BY Zenon, <1>2, <2>3 DEF AuthorizeMaterialization
  <2>5. <<>> = [v \in DOMAIN <<>> |-> release[live].secrets[v]] /\ DOMAIN <<>> = {}
    OBVIOUS
  <2> QED BY <1>1, <2>1, <2>4, <2>5 DEF DeliveryInv
<1>3. CASE materialize
  <2>1. delivery # None
    BY Zenon, <1>3 DEF materialize
  <2>2. CASE \E v \in Variable : MaterializeAuthorized(v) /\ UNCHANGED delivered
    <3>1. PICK v \in Left : delivery' \in {Reads(v), None} /\ delivered' = delivered
      BY Zenon, <2>2 DEF MaterializeAuthorized
    <3>2. CASE delivery' = None
      BY <1>1, <3>1, <3>2 DEF DeliveryInv
    <3>3. CASE delivery' = Reads(v)
      <4>1. delivery' = [job |-> delivery.job, asked |-> delivery.asked,
                         read |-> [w \in DOMAIN delivery.read \cup {v} |-> delivery.asked[w]]]
        BY Zenon, <2>1, <3>3 DEF Reads, DeliveryInv
      <4>2. v \in DOMAIN delivery.asked
        BY Zenon DEF Left
      <4> QED BY <1>1, <2>1, <3>1, <4>1, <4>2 DEF DeliveryInv
    <3> QED BY <3>1, <3>2, <3>3
  <2>3. CASE Left = {} /\ delivery' = None
             /\ delivered' = delivered \cup {[job |-> delivery.job, secrets |-> delivery.read]}
    <3>1. DOMAIN delivery.read = DOMAIN delivery.asked
      BY Zenon, <2>1, <2>3 DEF Left, DeliveryInv
    <3>2. /\ IsSecretSet(delivery.asked)
          /\ delivery.read = [v \in DOMAIN delivery.read |-> delivery.asked[v]]
      BY Zenon, <2>1 DEF DeliveryInv, AttemptInv
    <3>3. delivery.read = delivery.asked
      BY Zenon, <3>1, <3>2 DEF IsSecretSet
    <3> QED BY <1>1, <2>1, <2>3, <3>3 DEF DeliveryInv
  <2>4. CASE delivery' = None /\ UNCHANGED delivered
    BY Zenon, <1>1, <2>4 DEF DeliveryInv
  <2> QED BY <1>3, <2>2, <2>3, <2>4 DEF materialize
<1>4. CASE UNCHANGED <<delivery, delivered>>
  BY <1>1, <1>4 DEF DeliveryInv
<1>5. AuthorizeMaterialization \/ materialize \/ UNCHANGED <<delivery, delivered>>
  BY Zenon DEF Next, vars, deliveryVars, environmentConfigGet, environmentConfigPost,
     AddEnvironmentRuntimeBinding, RemoveEnvironmentRuntimeBinding, CreateSecret,
     ReadVersionToReplace, replace, lockEnvironmentRuntimeConfig,
     resolveRuntimeSecretBindings, resolveRuntimeLiteralBindings, CountBindings,
     ResolveBindings, commitFreeze, claimRolledBack, attemptEnds
<1> QED BY <1>2, <1>3, <1>4, <1>5

-----------------------------------------------------------------------------
\* The four invariants hold in every reachable state.
LEMMA RuntimeInvariant ==
    Spec => [](FreezeInv /\ ClaimInv /\ AttemptInv /\ DeliveryInv)
<1>1. FreezeInv /\ ClaimInv /\ AttemptInv /\ DeliveryInv /\ [Next]_vars
      => (FreezeInv /\ ClaimInv /\ AttemptInv /\ DeliveryInv)'
  BY Zenon, FreezeNext, ClaimNext, AttemptNext, DeliveryNext
<1> QED BY InitHolds, <1>1, PTL DEF Spec

\* Every attempt of a job runs with what the job's first attempt froze, and no
\* retry is refused as corrupt state (tryClaim's copy-forward, ensureRelease).
THEOREM RetriesRepeat == Spec => []RetryRepeatsFirst
<1>1. FreezeInv => RetryRepeatsFirst
  <2> SUFFICES ASSUME FreezeInv, NEW j \in Job, NEW n \in DOMAIN attempts[j]
               PROVE  /\ attempts[j][n] = attempts[j][1]
                      /\ release[j] = computeConfigDigest(attempts[j][n])
    BY Zenon DEF FreezeInv, RetryRepeatsFirst
  <2>1. attempts[j] \in Seq({release[j]})
    BY Zenon DEF FreezeInv
  <2>2. attempts[j][n] \in {release[j]} /\ attempts[j][1] \in {release[j]}
    BY <2>1, SMTT(30)
  <2> QED BY <2>2 DEF computeConfigDigest
<1> QED BY RuntimeInvariant, <1>1, PTL

\* An agent is answered the whole set its job's first attempt froze, or nothing
\* (handleMaterializeSecrets).
THEOREM DeliveriesAreWhole == Spec => []DeliveredWhole
<1>1. FreezeInv /\ DeliveryInv => DeliveredWhole
  <2> SUFFICES ASSUME FreezeInv, DeliveryInv, NEW d \in delivered
               PROVE  d.secrets = attempts[d.job][1].secrets
    BY Zenon DEF DeliveredWhole
  <2>1. /\ d.job \in Job /\ attempts[d.job] # <<>> /\ d.secrets = release[d.job].secrets
        /\ attempts[d.job] \in Seq({release[d.job]})
    BY Zenon DEF DeliveryInv, FreezeInv
  <2>2. attempts[d.job][1] \in {release[d.job]}
    BY <2>1, SMTT(30)
  <2> QED BY <2>1, <2>2
<1> QED BY RuntimeInvariant, <1>1, PTL

-----------------------------------------------------------------------------
\* A claim in flight has read the configuration that is still stored.
LockInv == claim # None => Exists /\ claim.frozen.config = config

\* The SHARE lock keeps an update of the row waiting, and the row is never
\* deleted, so a create is refused.
LEMMA LockNext ==
    ASSUME ClaimInv, LockInv, [Next]_vars
    PROVE  LockInv'
<1>1. CASE claim' = None
  BY Zenon, <1>1 DEF LockInv
<1>2. CASE claim = None /\ claim' # None
  <2>1. PICK j \in Job : lockEnvironmentRuntimeConfig(j)
    BY Zenon, <1>2 DEF Next, vars, claimVars, environmentConfigGet, environmentConfigPost,
       AddEnvironmentRuntimeBinding, RemoveEnvironmentRuntimeBinding, CreateSecret,
       ReadVersionToReplace, replace, attemptEnds, AuthorizeMaterialization, materialize,
       resolveRuntimeSecretBindings, resolveRuntimeLiteralBindings, CountBindings,
       ResolveBindings, At, commitFreeze, claimRolledBack
  <2>2. claim'.frozen = [NothingFrozen EXCEPT !.config = config] /\ Exists /\ config' = config
    BY Zenon, <2>1 DEF lockEnvironmentRuntimeConfig, configVars
  <2>3. claim'.frozen.config = config
    BY Zenon, <2>2 DEF NothingFrozen
  <2> QED BY <2>2, <2>3 DEF LockInv, Exists
<1>3. CASE claim # None /\ claim' # None
  <2>1. Exists /\ claim.frozen.config = config
    BY Zenon, <1>3 DEF LockInv
  <2>2. config' = config
    BY Zenon, <1>3, <2>1 DEF Next, vars, configVars, environmentConfigGet,
       environmentConfigPost, RefusedValues,
       CreateEnvironmentRuntimeConfig, UpdateEnvironmentRuntimeConfig, ConfigRowFree,
       renderConfigRejection, AddEnvironmentRuntimeBinding, RemoveEnvironmentRuntimeBinding,
       CreateSecret, ReadVersionToReplace, replace, attemptEnds, AuthorizeMaterialization,
       materialize, lockEnvironmentRuntimeConfig, resolveRuntimeSecretBindings,
       resolveRuntimeLiteralBindings, CountBindings, ResolveBindings, commitFreeze,
       claimRolledBack
  <2>3. claim'.frozen.config = claim.frozen.config
    <3>1. /\ claim = [job |-> claim.job, total |-> claim.total, at |-> claim.at,
                      frozen |-> claim.frozen]
          /\ claim.frozen = [config |-> claim.frozen.config, secrets |-> claim.frozen.secrets,
                             literals |-> claim.frozen.literals]
      BY Zenon, <1>3 DEF ClaimInv
    <3>2. CASE resolveRuntimeSecretBindings
      BY Zenon, <1>3, <3>1, <3>2 DEF resolveRuntimeSecretBindings, CountBindings,
         ResolveBindings
    <3>3. CASE resolveRuntimeLiteralBindings
      BY Zenon, <1>3, <3>1, <3>3 DEF resolveRuntimeLiteralBindings, CountBindings,
         ResolveBindings
    <3>4. CASE UNCHANGED claim
      BY Zenon, <3>4
    <3>5. UNCHANGED claim \/ resolveRuntimeSecretBindings \/ resolveRuntimeLiteralBindings
      BY Zenon, <1>3 DEF Next, vars, claimVars, environmentConfigGet, environmentConfigPost,
         AddEnvironmentRuntimeBinding, RemoveEnvironmentRuntimeBinding, CreateSecret,
         ReadVersionToReplace, replace, lockEnvironmentRuntimeConfig, commitFreeze,
         claimRolledBack, attemptEnds, AuthorizeMaterialization, materialize
    <3> QED BY <3>2, <3>3, <3>4, <3>5
  <2> QED BY <2>1, <2>2, <2>3 DEF LockInv, Exists
<1> QED BY <1>1, <1>2, <1>3

\* A first attempt freezes the configuration that is stored when its claim
\* commits, however edits interleave with the claim's statements
\* (lockEnvironmentRuntimeConfig).
THEOREM FreezeSeesCurrentConfig == Spec => FrozenConfigIsCurrent
<1>1. Init => LockInv
  BY Zenon DEF Init, LockInv
<1>2. ASSUME FreezeInv, ClaimInv, LockInv, [Next]_vars, NEW j \in Job,
             attempts[j] = <<>>, attempts'[j] # <<>>
      PROVE  attempts'[j][1].config = config
  <2>1. commitFreeze
    BY Zenon, <1>2 DEF Next, vars, claimVars, environmentConfigGet, environmentConfigPost,
       AddEnvironmentRuntimeBinding, RemoveEnvironmentRuntimeBinding, CreateSecret,
       ReadVersionToReplace, replace, lockEnvironmentRuntimeConfig,
       resolveRuntimeSecretBindings, resolveRuntimeLiteralBindings, CountBindings,
       ResolveBindings, claimRolledBack, attemptEnds, AuthorizeMaterialization, materialize
  <2>2. /\ claim.frozen.config = config
        /\ attempts = [k \in Job |-> attempts[k]] /\ claim.job \in Job
    BY Zenon, <2>1, <1>2 DEF commitFreeze, At, LockInv, FreezeInv, ClaimInv
  <2>3. j = claim.job
    BY Zenon, <1>2, <2>1, <2>2 DEF commitFreeze
  <2>4. attempts' = [attempts EXCEPT ![j] = Append(<<>>, claim.frozen)]
    BY Zenon, <1>2, <2>1, <2>2, <2>3 DEF commitFreeze, Frozen
  <2>5. attempts'[j] = <<claim.frozen>>
    BY <2>2, <2>4
  <2> QED BY <2>2, <2>5
<1>3. ClaimInv /\ FreezeInv /\ LockInv /\ [Next]_vars =>
        [\A j \in Job : attempts[j] = <<>> /\ attempts'[j] # <<>>
                           => attempts'[j][1].config = config]_vars
  BY Zenon, <1>2
<1>4. ClaimInv /\ LockInv /\ [Next]_vars => LockInv'
  BY Zenon, LockNext
<1> QED BY RuntimeInvariant, <1>1, <1>3, <1>4, PTL DEF Spec, FrozenConfigIsCurrent

-----------------------------------------------------------------------------
\* A page carries the revision of a row that was stored, and as long as that is
\* the stored one, a page that was filled by a GET shows the stored settings.
PageInv ==
    /\ config \in ConfigRow \cup {None}
    /\ page \in [Admin -> PageRow \cup {None}]
    /\ \A a \in Admin : page[a] # None =>
          /\ page[a].revision # None => Exists /\ page[a].revision <= config.revision
          /\ page[a].fresh /\ page[a].revision = Revision => page[a].shown = Settings

\* A step loads a page, submits one, or touches neither pages nor row.
LEMMA PageSteps ==
    ASSUME [Next]_vars
    PROVE  \/ \E a \in Admin : environmentConfigGet(a)
           \/ \E a \in Admin, s \in Setting : environmentConfigPost(a, s)
           \/ UNCHANGED <<config, page>>
  BY Zenon DEF Next, vars, configVars, AddEnvironmentRuntimeBinding,
     RemoveEnvironmentRuntimeBinding, CreateSecret, ReadVersionToReplace, replace,
     lockEnvironmentRuntimeConfig, resolveRuntimeSecretBindings,
     resolveRuntimeLiteralBindings, CountBindings, ResolveBindings, commitFreeze,
     claimRolledBack, attemptEnds, AuthorizeMaterialization, materialize

\* The revision and the settings a page would be filled with.
LEMMA RowRead ==
    ASSUME config \in ConfigRow \cup {None}
    PROVE  /\ Revision \in 0..MaxRevision \cup {None} /\ Settings \in Setting \cup {None}
           /\ Revision # None => Exists /\ Revision = config.revision
           /\ Exists => config.revision \in 0..MaxRevision
  BY Zenon, RuntimeAssumption DEF Revision, Settings, Exists, ConfigRow

\* Filling a page, or showing a rejected form again, keeps the pages in order.
LEMMA PageFilled ==
    ASSUME PageInv, NEW a \in Admin, NEW row \in PageRow, config' = config,
           page' = [page EXCEPT ![a] = row], row.revision = Revision,
           row.fresh => row.shown = Settings
    PROVE  PageInv' /\ page'[a] # None
<1>1. page' \in [Admin -> PageRow \cup {None}] /\ page'[a] = row
      /\ \A b \in Admin \ {a} : page'[b] = page[b]
  BY Zenon DEF PageInv
<1>2. Revision' = Revision /\ Settings' = Settings /\ Exists' = Exists
  BY Zenon DEF Revision, Settings, Exists
<1>3. row.revision # None => Exists /\ row.revision <= config.revision
  BY RowRead, RuntimeAssumption DEF PageInv
<1> QED BY <1>1, <1>2, <1>3, RuntimeAssumption DEF PageInv

\* An accepted edit stores a revision no page carries yet.
LEMMA PageAccepted ==
    ASSUME PageInv, NEW a \in Admin, NEW s \in Setting, NEW n \in 0..MaxRevision,
           config' = [settings |-> s, revision |-> n], page' = [page EXCEPT ![a] = None],
           Exists => n = config.revision + 1
    PROVE  PageInv'
<1>1. page' \in [Admin -> PageRow \cup {None}] /\ page'[a] = None
      /\ \A b \in Admin \ {a} : page'[b] = page[b]
  BY Zenon DEF PageInv
<1>2. config' \in ConfigRow /\ config'.revision = n /\ Exists' /\ Revision' = n
  BY RuntimeAssumption DEF ConfigRow, Exists, Revision
<1>3. ASSUME NEW b \in Admin \ {a}, page[b] # None
      PROVE  /\ page[b].revision # n
             /\ page[b].revision # None => page[b].revision <= n
  <2>1. page[b].revision \in 0..MaxRevision \cup {None}
    BY Zenon, <1>3 DEF PageInv, PageRow
  <2>2. page[b].revision # None => Exists /\ page[b].revision <= config.revision
    BY Zenon, <1>3 DEF PageInv
  <2>3. Exists => config.revision \in 0..MaxRevision
    BY Zenon, RowRead DEF PageInv
  <2> QED BY <2>1, <2>2, <2>3, RuntimeAssumption
<1> QED BY <1>1, <1>2, <1>3 DEF PageInv

\* A submitted page is accepted from the revision that is stored, or shown
\* again with that revision and no longer as it was loaded.
LEMMA PagePosted ==
    ASSUME PageInv, NEW a \in Admin, NEW s \in Setting, environmentConfigPost(a, s)
    PROVE  /\ PageInv'
           /\ page'[a] = None => page[a].revision = Revision
           /\ \A b \in Admin \ {a} : page'[b] = page[b]
<1>1. page[a] # None /\ page[a] \in PageRow
  BY Zenon DEF environmentConfigPost, PageInv
<1>2. CASE renderConfigRejection(a)
  <2> DEFINE row == [revision |-> Revision, shown |-> page[a].shown, fresh |-> FALSE]
  <2>1. page' = [page EXCEPT ![a] = row] /\ config' = config
    <3>1. page' = [page EXCEPT ![a] = [[page[a] EXCEPT !.revision = Revision] EXCEPT !.fresh = FALSE]]
      BY Zenon, <1>2 DEF renderConfigRejection, PageInv
    <3> QED BY <1>1, <1>2, <3>1 DEF renderConfigRejection, PageRow
  <2>2. row \in PageRow
    BY Zenon, <1>1, RowRead DEF PageRow, PageInv
  <2>3. row.revision = Revision /\ ~row.fresh
    BY Zenon
  <2> HIDE DEF row
  <2> QED BY <2>1, <2>2, <2>3, PageFilled DEF PageInv
<1>3. CASE ~Exists /\ config' = [settings |-> s, revision |-> 0]
            /\ page' = [page EXCEPT ![a] = None] /\ page[a].revision = None
  <2>1. 0 \in 0..MaxRevision
    BY RuntimeAssumption
  <2>2. PageInv'
    BY Zenon, <1>3, <2>1, PageAccepted
  <2> QED BY <1>3, <2>2 DEF Revision, PageInv
<1>4. CASE /\ page[a].revision # None /\ page[a].revision = config.revision
           /\ config.revision < MaxRevision
           /\ config' = [settings |-> s, revision |-> config.revision + 1]
           /\ page' = [page EXCEPT ![a] = None]
  <2>1. Exists /\ config.revision \in 0..MaxRevision
    BY Zenon, <1>1, <1>4, RowRead DEF PageInv
  <2>2. config.revision + 1 \in 0..MaxRevision
    BY <1>4, <2>1, RuntimeAssumption
  <2>3. PageInv'
    BY Zenon, <1>4, <2>2, PageAccepted
  <2> QED BY <1>4, <2>1, <2>3 DEF Revision, PageInv
<1> QED
  BY Zenon, <1>2, <1>3, <1>4 DEF environmentConfigPost, CreateEnvironmentRuntimeConfig,
     UpdateEnvironmentRuntimeConfig, RefusedValues

\* Every step keeps the pages in order.
LEMMA PageNext ==
    ASSUME PageInv, [Next]_vars
    PROVE  PageInv'
<1>1. ASSUME NEW a \in Admin, environmentConfigGet(a) PROVE PageInv'
  <2> DEFINE row == [revision |-> Revision, shown |-> Settings, fresh |-> TRUE]
  <2>1. row \in PageRow
    BY Zenon, RowRead DEF PageRow, PageInv
  <2>2. row.revision = Revision /\ row.shown = Settings
    BY Zenon
  <2>3. page' = [page EXCEPT ![a] = row] /\ config' = config
    BY Zenon, <1>1 DEF environmentConfigGet
  <2> HIDE DEF row
  <2> QED BY <2>1, <2>2, <2>3, PageFilled
<1>2. CASE UNCHANGED <<config, page>>
  BY Zenon, <1>2 DEF PageInv, Exists, Revision, Settings
<1> QED BY <1>1, <1>2, PagePosted, PageSteps

\* An accepted edit from a page as it was loaded replaces the settings that
\* page showed, however administrators load, submit and resubmit pages
\* (environmentConfigPost, UpdateEnvironmentRuntimeConfig).
THEOREM FreshEditsReplaceWhatTheyShowed == Spec => FreshEditReplacesWhatItShowed
<1>1. Init => PageInv
  BY Zenon DEF Init, PageInv
<1>2. ASSUME PageInv, [Next]_vars, NEW a \in Admin, page[a] # None, page'[a] = None, page[a].fresh
      PROVE  page[a].shown = Settings
  <2>1. ~environmentConfigGet(a)
    <3>1. ASSUME environmentConfigGet(a) PROVE FALSE
      <4>1. page'[a] = [revision |-> Revision, shown |-> Settings, fresh |-> TRUE]
        BY Zenon, <1>2, <3>1 DEF environmentConfigGet, PageInv
      <4>2. page'[a] \in PageRow
        BY <1>2, <4>1, RowRead DEF PageRow, PageInv
      <4> QED BY <1>2, <4>2, RuntimeAssumption
    <3> QED BY <3>1
  <2>2. \A b \in Admin \ {a} : environmentConfigGet(b) => page'[a] = page[a]
    BY Zenon, <1>2 DEF environmentConfigGet, PageInv
  <2>3. PICK b \in Admin, s \in Setting : environmentConfigPost(b, s)
    BY Zenon, <1>2, <2>1, <2>2, PageSteps
  <2>4. b = a /\ page[a].revision = Revision
    BY Zenon, <1>2, <2>3, PagePosted
  <2> QED BY <1>2, <2>4 DEF PageInv
<1>3. PageInv /\ [Next]_vars =>
        [\A a \in Admin : page[a] # None /\ page'[a] = None /\ page[a].fresh
                              => page[a].shown = Settings]_vars
  BY Zenon, <1>2
<1>4. PageInv /\ [Next]_vars => PageInv'
  BY Zenon, PageNext
<1> QED BY <1>1, <1>3, <1>4, PTL DEF Spec, FreshEditReplacesWhatItShowed

-----------------------------------------------------------------------------
\* A version a compromise replacement was meant for is no longer the newest
\* one, and is revoked; a replacement in progress has read a version.
CondemnedInv ==
    /\ versions \in Seq(VersionState)
    /\ \A n \in condemned : n \in 1..(Current - 1) /\ versions[n] = "revoked"
    /\ replacing = [a \in Admin |-> replacing[a]]
    /\ \A a \in Admin : replacing[a] # None => replacing[a].old \in Nat \ {0}

\* A replacement that finds its version still current retires exactly that one.
LEMMA RetireCurrent ==
    ASSUME NEW V \in Seq(VersionState), V # <<>>, NEW state \in VersionState,
           NEW W, W = Append([V EXCEPT ![Len(V)] = state], "active")
    PROVE  /\ W \in Seq(VersionState) /\ Len(W) = Len(V) + 1
           /\ W[Len(V)] = state /\ \A n \in 1..(Len(V) - 1) : W[n] = V[n]
<1> DEFINE U == [V EXCEPT ![Len(V)] = state]
<1>1. Len(V) \in 1..Len(V) /\ Len(V) \in Nat
  OBVIOUS
<1>2. U \in Seq(VersionState) /\ Len(U) = Len(V)
      /\ \A n \in 1..Len(V) : U[n] = IF n = Len(V) THEN state ELSE V[n]
  BY SMTT(30), <1>1
<1> HIDE DEF U
<1>3. W = Append(U, "active") /\ "active" \in VersionState
  BY Zenon DEF U, VersionState
<1>4. W \in Seq(VersionState) /\ Len(W) = Len(U) + 1 /\ \A n \in 1..Len(U) : W[n] = U[n]
  BY SMTT(30), <1>2, <1>3
<1> QED BY <1>1, <1>2, <1>4

\* Versions are only added at the end, and only the newest one changes.
LEMMA CondemnedNext ==
    ASSUME CondemnedInv, [Next]_vars
    PROVE  CondemnedInv'
<1>1. CASE CreateSecret
  <2>1. versions' = <<"active">> /\ UNCHANGED <<condemned, replacing>> /\ condemned = {}
    BY <1>1 DEF CreateSecret, CondemnedInv, Current
  <2> QED BY <2>1 DEF CondemnedInv, VersionState
<1>2. ASSUME NEW a \in Admin, replace(a) PROVE CondemnedInv'
  <2> DEFINE old == replacing[a].old
             compromised == replacing[a].compromised
  <2>0. /\ replacing[a] # None /\ old \in Nat \ {0}
        /\ replacing' = [replacing EXCEPT ![a] = None]
    BY Zenon, <1>2 DEF replace, CondemnedInv
  <2>1. /\ replacing' = [b \in Admin |-> replacing'[b]]
        /\ \A b \in Admin : replacing'[b] # None => replacing'[b].old \in Nat \ {0}
    BY Zenon, <2>0 DEF CondemnedInv
  <2>2. CASE UNCHANGED <<versions, condemned>>
    BY Zenon, <2>1, <2>2 DEF CondemnedInv, Current
  <2>3. CASE /\ old = Current
             /\ versions' = Append([versions EXCEPT ![Current] = Replaced(compromised)], "active")
             /\ condemned' = condemned \cup (IF compromised THEN {old} ELSE {})
    <3>1. Replaced(compromised) \in VersionState /\ (compromised => Replaced(compromised) = "revoked")
      BY Zenon DEF Replaced, VersionState
    <3>2. versions \in Seq(VersionState) /\ versions # <<>> /\ Len(versions) \in Nat
      BY Zenon, <2>0, <2>3 DEF CondemnedInv, Current
    <3>3. /\ versions' \in Seq(VersionState) /\ Current' = Current + 1
          /\ versions'[Current] = Replaced(compromised)
          /\ \A n \in 1..(Current - 1) : versions'[n] = versions[n]
      BY SMTT(30), <2>3, <3>1, <3>2, RetireCurrent DEF Current
    <3>4. ASSUME NEW n \in condemned' PROVE n \in 1..Current /\ versions'[n] = "revoked"
      <4>1. CASE n \in condemned
        BY <3>2, <3>3, <4>1 DEF CondemnedInv, Current
      <4>2. CASE n = old /\ compromised
        <5>1. versions'[Current] = "revoked"
          BY Zenon, <3>1, <3>3, <4>2
        <5>2. n = Current
          BY Zenon, <2>3, <4>2
        <5>3. Current \in 1..Current
          BY <3>2 DEF Current
        <5> QED BY <5>1, <5>2, <5>3
      <4>3. CASE ~compromised
        <5>1. condemned' = condemned
          BY Zenon, <2>3, <4>3
        <5> QED BY <3>4, <4>1, <5>1
      <4>4. CASE compromised
        <5>1. condemned' = condemned \cup {old}
          BY Zenon, <2>3, <4>4
        <5> QED BY <3>4, <4>1, <4>2, <4>4, <5>1
      <4> QED BY <4>3, <4>4
    <3>5. Current' - 1 = Current
      BY <3>2, <3>3 DEF Current
    <3> QED BY <2>1, <3>3, <3>4, <3>5 DEF CondemnedInv
  <2> QED BY <1>2, <2>2, <2>3 DEF replace, StillCurrent
<1>3. ASSUME NEW a \in Admin, NEW c, ReadVersionToReplace(a, c) PROVE CondemnedInv'
  <2>1. /\ Current \in Nat \ {0} /\ UNCHANGED <<versions, condemned>>
        /\ replacing' = [replacing EXCEPT ![a] = [old |-> Current, compromised |-> c]]
    BY <1>3, RuntimeAssumption DEF ReadVersionToReplace
  <2> QED BY SMTT(30), <2>1 DEF CondemnedInv, Current
<1>4. CASE UNCHANGED <<versions, condemned, replacing>>
  BY Zenon, <1>4 DEF CondemnedInv, Current
<1>5. \/ CreateSecret \/ (\E a \in Admin : replace(a))
      \/ (\E a \in Admin, c \in BOOLEAN : ReadVersionToReplace(a, c))
      \/ UNCHANGED <<versions, condemned, replacing>>
  BY Zenon DEF Next, vars, secretVars, environmentConfigGet, environmentConfigPost,
     AddEnvironmentRuntimeBinding, RemoveEnvironmentRuntimeBinding,
     lockEnvironmentRuntimeConfig, resolveRuntimeSecretBindings,
     resolveRuntimeLiteralBindings, CountBindings, ResolveBindings, commitFreeze,
     claimRolledBack, attemptEnds, AuthorizeMaterialization, materialize
<1> QED BY <1>1, <1>2, <1>3, <1>4, <1>5

\* A version condemned by a committed replacement is never decrypted again, by
\* no request, authorized before or after (MaterializeAuthorized, replace).
THEOREM CondemnedIsNeverRead == Spec => CondemnedNeverRead
<1>1. Init => CondemnedInv
  BY DEF Init, CondemnedInv
<1>2. ASSUME CondemnedInv, DeliveryInv, [Next]_vars, delivery # None, delivery' # None,
             NEW v \in DOMAIN delivery'.read \ DOMAIN delivery.read
      PROVE  delivery'.read[v] \notin condemned
  <2>1. PICK w \in Left : MaterializeAuthorized(w)
    BY Zenon, <1>2 DEF Next, vars, deliveryVars, environmentConfigGet, environmentConfigPost,
       AddEnvironmentRuntimeBinding, RemoveEnvironmentRuntimeBinding, CreateSecret,
       ReadVersionToReplace, replace, lockEnvironmentRuntimeConfig,
       resolveRuntimeSecretBindings, resolveRuntimeLiteralBindings, CountBindings,
       ResolveBindings, commitFreeze, claimRolledBack, attemptEnds,
       AuthorizeMaterialization, materialize, MaterializeAuthorized
  <2>2. /\ versions[delivery.asked[w]] \in {"active", "superseded"}
        /\ delivery' = Reads(w)
    BY Zenon, <1>2, <2>1 DEF MaterializeAuthorized
  <2>3. delivery'.read = [x \in DOMAIN delivery.read \cup {w} |-> delivery.asked[x]]
    BY Zenon, <1>2, <2>2 DEF Reads, DeliveryInv
  <2>4. v = w /\ delivery'.read[v] = delivery.asked[w]
    BY Zenon, <2>3
  <2> QED BY <1>2, <2>2, <2>4 DEF CondemnedInv
<1>3. CondemnedInv /\ DeliveryInv /\ [Next]_vars =>
        [delivery # None /\ delivery' # None =>
            \A v \in DOMAIN delivery'.read \ DOMAIN delivery.read :
               delivery'.read[v] \notin condemned]_vars
  BY Zenon, <1>2
<1>4. CondemnedInv /\ [Next]_vars => CondemnedInv'
  BY Zenon, CondemnedNext
<1> QED BY RuntimeInvariant, <1>1, <1>3, <1>4, PTL DEF Spec, CondemnedNeverRead

=============================================================================
