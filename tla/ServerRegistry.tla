--------------------------- MODULE ServerRegistry ---------------------------
(***************************************************************************)
(* The registry of deployment servers: what an administrator does to it    *)
(* from the web console, the one-time enrolment of an agent over a network *)
(* that loses and delays requests, and the credential that enrolment       *)
(* leaves on the host.                                                     *)
(*                                                                         *)
(* A repository call is one transaction that locks the administrator's     *)
(* session and the servers row before it reads anything else, so it is one *)
(* action.  A console request is two steps, because the handler validates  *)
(* the session before the repository's transaction validates it again.     *)
(* An enrolment is many: every attempt of the client's retry loop is a     *)
(* request of its own, which the control plane may answer, may answer too  *)
(* late or may never see.                                                  *)
(*                                                                         *)
(* Random values (enrolment tokens and credentials) are numbers drawn from *)
(* one counter; the registry keeps digests, which tell the same values     *)
(* apart.  Of the leases only whether a server holds one, and one whose    *)
(* activation is unresolved, is kept: ControlPlane models them.            *)
(***************************************************************************)
EXTENDS Integers, Sequences, FiniteSets

CONSTANTS
    Server,       \* server identities
    Host,         \* state directories an agent may enrol from
    MaxTries,     \* maxRetries of the agent's HTTP client
    MaxDrawn,     \* bound: random values drawn
    MaxRequests,  \* bound: console requests
    MaxMishaps    \* bound: sessions ended, tokens expired, requests lost,
                  \*   enrolments killed and agents stopped, all together

VARIABLES
    session,      \* the administrator's newest session and whether it is live
    requests,     \* console requests the handlers have admitted
    asked,        \* console requests so far
    status,       \* servers.status; "absent" before registration
    token,        \* server_enrollment_tokens: digest and state of the one row
    credential,   \* server_credentials: the versions, oldest first
    leased,       \* servers with a lease that has no unresolved activation
    switching,    \* servers with a lease whose activation is unresolved
    shown,        \* enrolment tokens a page has displayed
    file,         \* <state dir>/credential of each host; 0 when absent
    enrolling,    \* each host's enrol command
    wire,         \* enrol requests on their way to the control plane
    replies,      \* answers on their way back
    running,      \* the credential each host's `agent run` has loaded
    heard,        \* servers with a last_heartbeat_at
    claiming,     \* claims that have passed the first authentication
    discarded,    \* credentials removed by removeUnusedCredential
    drawn,        \* random values drawn so far
    mishaps       \* mishaps so far

console == <<session, requests, asked, shown>>
registry == <<status, token, credential>>
command == <<file, enrolling, discarded>>
network == <<wire, replies>>
leases == <<leased, switching>>
agent == <<running, heard, claiming, leases>>
registryVars == <<console, registry, command, network, agent, drawn, mishaps>>

Operation == {"register", "reissue", "rotate", "revoke"}

(* No credential on disk, none loaded, no enrol command under way.         *)
Nothing == 0

Active(s) ==
    {v \in DOMAIN credential[s] : credential[s][v].status = "active"}

(* Mutant: the old version stays active.                                   *)
Unrevoked(versions) == versions

Revoked(versions) == [v \in DOMAIN versions |-> [versions[v] EXCEPT !.status = "revoked"]]

(* The command that sent q still waits for the answer to this attempt.     *)
Awaited(q) ==
    /\ enrolling[q.host].phase = "waiting"
    /\ file[q.host] = q.credential
    /\ enrolling[q.host].tries = q.try

Mishap ==
    /\ mishaps < MaxMishaps
    /\ mishaps' = mishaps + 1

RegistryInit ==
    /\ session = [id |-> 1, live |-> TRUE]
    /\ requests = {}
    /\ asked = 0
    /\ status = [s \in Server |-> "absent"]
    /\ token = [s \in Server |-> [digest |-> 0, state |-> "none"]]
    /\ credential = [s \in Server |-> <<>>]
    /\ leased = {}
    /\ switching = {}
    /\ shown = {}
    /\ file = [h \in Host |-> Nothing]
    /\ enrolling = [h \in Host |-> [phase |-> "idle"]]
    /\ wire = {}
    /\ replies = {}
    /\ running = [h \in Host |-> Nothing]
    /\ heard = {}
    /\ claiming = {}
    /\ discarded = {}
    /\ drawn = 0
    /\ mishaps = 0

-----------------------------------------------------------------------------
(* The administrator's session.  AdminLogin models how one comes about.    *)

SessionEnds ==
    /\ Mishap
    /\ session.live
    /\ session' = [session EXCEPT !.live = FALSE]
    /\ UNCHANGED <<requests, asked, shown, registry, command, network, agent, drawn>>

SignIn ==
    /\ ~session.live
    /\ session' = [id |-> session.id + 1, live |-> TRUE]
    /\ UNCHANGED <<requests, asked, shown, registry, command, network, agent, drawn, mishaps>>

(* A console handler validates the session and hands its principal on.     *)
(* One request at a time: two would only queue at the session's row.       *)
Admit(op, s) ==
    /\ session.live
    /\ requests = {}
    /\ asked < MaxRequests
    /\ op = "register" => status[s] = "absent"
    /\ requests' = requests \cup {[op |-> op, server |-> s, session |-> session.id]}
    /\ asked' = asked + 1
    /\ UNCHANGED <<session, shown, registry, command, network, agent, drawn, mishaps>>

(* The repository's own look at the session, inside its transaction.       *)
lockAdministratorSession(r) == session.live /\ session.id = r.session

lockActiveServer(s) == status[s] = "active"

MayRegister(r) == lockAdministratorSession(r) /\ status[r.server] = "absent"

MayReissue(r) ==
    /\ lockAdministratorSession(r)
    /\ lockActiveServer(r.server)
    /\ token[r.server].state # "consumed"

MayRotate(r) ==
    /\ lockAdministratorSession(r)
    /\ lockActiveServer(r.server)
    /\ Active(r.server) # {}

MayRevoke(r) == lockAdministratorSession(r) /\ lockActiveServer(r.server)

(* A fresh token: its digest is stored, and the page that shows the token  *)
(* once reaches the administrator or is lost.                              *)
Issue(s) ==
    /\ drawn < MaxDrawn
    /\ drawn' = drawn + 1
    /\ token' = [token EXCEPT ![s] = [digest |-> drawn', state |-> "pending"]]
    /\ shown' \in {shown, shown \cup {[server |-> s, token |-> drawn']}}

RegisterServer(r) ==
    /\ r.op = "register"
    /\ MayRegister(r)
    /\ status' = [status EXCEPT ![r.server] = "active"]
    /\ Issue(r.server)
    /\ requests' = requests \ {r}
    /\ UNCHANGED <<session, asked, credential, command, network, agent, mishaps>>

IssueEnrollment(r) ==
    /\ r.op = "reissue"
    /\ MayReissue(r)
    /\ Issue(r.server)
    /\ requests' = requests \ {r}
    /\ UNCHANGED <<session, asked, status, credential, command, network, agent, mishaps>>

(* Revokes the active version and appends the next in one transaction.     *)
RotateCredential(r) ==
    /\ r.op = "rotate"
    /\ MayRotate(r)
    /\ drawn < MaxDrawn
    /\ drawn' = drawn + 1
    /\ credential' = [credential EXCEPT ![r.server] =
           Append(Revoked(@), [digest |-> drawn', status |-> "active"])]
    /\ requests' = requests \ {r}
    /\ UNCHANGED <<session, asked, shown, status, token, command, network, agent, mishaps>>

(* The server, its active credential and its leases end together; a lease  *)
(* whose activation is unresolved is diverted: it keeps its environment,   *)
(* blocked, until somebody says how the switch ended.                      *)
RevokeServer(r) ==
    /\ r.op = "revoke"
    /\ MayRevoke(r)
    /\ status' = [status EXCEPT ![r.server] = "revoked"]
    /\ credential' = [credential EXCEPT ![r.server] = Revoked(@)]
    /\ leased' = leased \ {r.server}
    /\ requests' = requests \ {r}
    /\ UNCHANGED <<session, asked, shown, token, command, network, running, heard, claiming, switching, drawn, mishaps>>

(* ErrServerAuthorizationDenied: the transaction rolls back.               *)
Deny(r) ==
    /\ \/ r.op = "register" /\ ~MayRegister(r)
       \/ r.op = "reissue" /\ ~MayReissue(r)
       \/ r.op = "rotate" /\ ~MayRotate(r)
       \/ r.op = "revoke" /\ ~MayRevoke(r)
    /\ requests' = requests \ {r}
    /\ UNCHANGED <<session, asked, shown, registry, command, network, agent, drawn, mishaps>>

TokenExpires(s) ==
    /\ Mishap
    /\ token[s].state = "pending"
    /\ token' = [token EXCEPT ![s].state = "expired"]
    /\ UNCHANGED <<console, status, credential, command, network, agent, drawn>>

-----------------------------------------------------------------------------
(* `agent enroll`: the credential is on disk before the first request, and *)
(* link(2) refuses to replace one that is there.                           *)

Request(h, e, c) ==
    [host |-> h, server |-> e.server, token |-> e.token, credential |-> c, try |-> e.tries]

(* Mutant: rename(2), which replaces.                                      *)
RenameCredential(h, c) ==
    /\ file' = [file EXCEPT ![h] = c]

writeCredentialAtomic(h, c) ==
    /\ file[h] = Nothing
    /\ file' = [file EXCEPT ![h] = c]

BeginEnroll(h, t) ==
    /\ enrolling[h].phase # "waiting"
    /\ drawn < MaxDrawn
    /\ drawn' = drawn + 1
    /\ writeCredentialAtomic(h, drawn')
    /\ enrolling' = [enrolling EXCEPT ![h] =
           [phase |-> "waiting", server |-> t.server, token |-> t.token, tries |-> 1]]
    /\ wire' = wire \cup {Request(h, enrolling'[h], drawn')}
    /\ UNCHANGED <<console, registry, replies, agent, discarded, mishaps>>

(* The control plane's side, in the order of the checks of Enroll.         *)
Enrollable(q) ==
    /\ lockActiveServer(q.server)
    /\ token[q.server].state = "pending"
    /\ token[q.server].digest = q.token
    /\ credential[q.server] = <<>>

Enroll(q) ==
    /\ IF Enrollable(q)
          THEN /\ token' = [token EXCEPT ![q.server].state = "consumed"]
               /\ credential' = [credential EXCEPT ![q.server] =
                      Append(@, [digest |-> q.credential, status |-> "active"])]
          ELSE UNCHANGED <<token, credential>>
    /\ wire' = wire \ {q}
    /\ replies' = IF Awaited(q) THEN replies \cup {[host |-> q.host, ok |-> Enrollable(q)]}
                               ELSE replies
    /\ UNCHANGED <<console, status, command, agent, drawn, mishaps>>

RequestLost(q) ==
    /\ Mishap
    /\ wire' = wire \ {q}
    /\ UNCHANGED <<console, registry, command, replies, agent, drawn>>

removeUnusedCredential(h) ==
    /\ file' = [file EXCEPT ![h] = Nothing]
    /\ discarded' = discarded \cup {file[h]}
    /\ enrolling' = [enrolling EXCEPT ![h] = [phase |-> "idle"]]

(* A timeout, a broken connection, a 503 or an unreadable answer.  The     *)
(* request and its effect may still be on their way.                       *)
AttemptFails(h) ==
    /\ enrolling[h].phase = "waiting"
    /\ replies' = {a \in replies : a.host # h}
    /\ \/ /\ enrolling[h].tries < MaxTries
          /\ enrolling' = [enrolling EXCEPT ![h].tries = @ + 1]
          /\ wire' = wire \cup {Request(h, enrolling'[h], file[h])}
          /\ UNCHANGED <<file, discarded>>
       \/ /\ enrolling[h].tries = MaxTries
          /\ removeUnusedCredential(h)
          /\ UNCHANGED wire
    /\ UNCHANGED <<console, registry, agent, drawn, mishaps>>

Answered(h) ==
    /\ \E a \in replies :
          /\ a.host = h
          /\ replies' = replies \ {a}
          /\ \/ /\ a.ok
                /\ enrolling' = [enrolling EXCEPT ![h].phase = "enrolled"]
                /\ UNCHANGED <<file, discarded>>
             \/ /\ ~a.ok
                /\ removeUnusedCredential(h)
    /\ UNCHANGED <<console, registry, wire, agent, drawn, mishaps>>

(* The command is killed: the file stays.                                  *)
EnrollKilled(h) ==
    /\ enrolling[h].phase = "waiting"
    /\ Mishap
    /\ enrolling' = [enrolling EXCEPT ![h].phase = "killed"]
    /\ replies' = {a \in replies : a.host # h}
    /\ UNCHANGED <<console, registry, file, wire, agent, discarded, drawn>>

(* The operator removes the leftover file, which writeCredentialAtomic     *)
(* refuses to replace, having seen in the list of servers that no          *)
(* credential of that server is active.                                    *)
RemoveLeftover(h) ==
    /\ enrolling[h].phase = "killed"
    /\ Active(enrolling[h].server) = {}
    /\ \A q \in wire : q.host # h
    /\ file' = [file EXCEPT ![h] = Nothing]
    /\ enrolling' = [enrolling EXCEPT ![h] = [phase |-> "idle"]]
    /\ UNCHANGED <<console, registry, network, agent, discarded, drawn, mishaps>>

-----------------------------------------------------------------------------
(* `agent run`                                                             *)

(* LoadCredential at start.                                                *)
RunAgent(h) ==
    /\ running[h] = Nothing
    /\ file[h] # Nothing
    /\ running' = [running EXCEPT ![h] = file[h]]
    /\ UNCHANGED <<console, registry, command, network, heard, claiming, leases, drawn, mishaps>>

StopAgent(h) ==
    /\ Mishap
    /\ running[h] # Nothing
    /\ running' = [running EXCEPT ![h] = Nothing]
    /\ UNCHANGED <<console, registry, command, network, heard, claiming, leases, drawn>>

Authenticate(s, c) ==
    /\ status[s] = "active"
    /\ \E v \in Active(s) : credential[s][v].digest = c

Heartbeat(h, s) ==
    /\ running[h] # Nothing
    /\ Authenticate(s, running[h])
    /\ heard' = heard \cup {s}
    /\ UNCHANGED <<console, registry, command, network, running, claiming, leases, drawn, mishaps>>

(* Claim authenticates before it discovers candidates ...                  *)
DiscoverJobs(h, s) ==
    /\ running[h] # Nothing
    /\ Authenticate(s, running[h])
    /\ claiming' = claiming \cup {[credential |-> running[h], server |-> s]}
    /\ UNCHANGED <<console, registry, command, network, running, heard, leases, drawn, mishaps>>

(* ... and again inside the transaction that leases one.                   *)
CommitClaim(c) ==
    /\ leased' = IF Authenticate(c.server, c.credential) THEN leased \cup {c.server} ELSE leased
    /\ claiming' = claiming \ {c}
    /\ UNCHANGED <<console, registry, command, network, running, heard, switching, drawn, mishaps>>

(* The agent asks for leave to switch the environment of a lease.          *)
AuthorizeActivation(h, s) ==
    /\ running[h] # Nothing
    /\ Authenticate(s, running[h])
    /\ s \in leased
    /\ switching' = switching \cup {s}
    /\ leased' \in {leased, leased \ {s}}
    /\ UNCHANGED <<console, registry, command, network, running, heard, claiming, drawn, mishaps>>

(* The agent reports how the switch ended, or an operator declares it.     *)
ActivationResolved(s) ==
    /\ s \in switching
    /\ switching' = switching \ {s}
    /\ UNCHANGED <<console, registry, command, network, running, heard, claiming, leased, drawn, mishaps>>

LeaseEnds(s) ==
    /\ s \in leased
    /\ leased' = leased \ {s}
    /\ UNCHANGED <<console, registry, command, network, running, heard, claiming, switching, drawn, mishaps>>

-----------------------------------------------------------------------------
RegistryNext ==
    \/ SessionEnds
    \/ SignIn
    \/ \E op \in Operation, s \in Server : Admit(op, s)
    \/ \E r \in requests : \/ RegisterServer(r)
                           \/ IssueEnrollment(r)
                           \/ RotateCredential(r)
                           \/ RevokeServer(r)
                           \/ Deny(r)
    \/ \E s \in Server : TokenExpires(s) \/ LeaseEnds(s) \/ ActivationResolved(s)
    \/ \E q \in wire : Enroll(q) \/ RequestLost(q)
    \/ \E h \in Host : \/ \E t \in shown : BeginEnroll(h, t)
                       \/ AttemptFails(h)
                       \/ Answered(h)
                       \/ EnrollKilled(h)
                       \/ RemoveLeftover(h)
                       \/ RunAgent(h)
                       \/ StopAgent(h)
                       \/ \E s \in Server : \/ Heartbeat(h, s)
                                            \/ DiscoverJobs(h, s)
                                            \/ AuthorizeActivation(h, s)
    \/ \E c \in claiming : CommitClaim(c)

RegistrySpec == RegistryInit /\ [][RegistryNext]_registryVars

-----------------------------------------------------------------------------
(* The tables and the agents' files hold values the schema and the code    *)
(* allow, and no random value is used before it is drawn.                  *)
RegistryTypeOK ==
    /\ session \in [id : 1 .. MaxMishaps + 1, live : BOOLEAN]
    /\ requests \subseteq [op : Operation, server : Server, session : 1 .. session.id]
    /\ status \in [Server -> {"absent", "active", "revoked"}]
    /\ token \in [Server -> [digest : 0 .. drawn, state : {"none", "pending", "expired", "consumed"}]]
    /\ \A s \in Server : \A v \in DOMAIN credential[s] :
          credential[s][v] \in [digest : 1 .. drawn, status : {"active", "revoked"}]
    /\ leased \cup switching \cup heard \subseteq Server
    /\ shown \subseteq [server : Server, token : 1 .. drawn]
    /\ file \in [Host -> 0 .. drawn]
    /\ running \in [Host -> 0 .. drawn]
    /\ \A h \in Host : enrolling[h].phase \in {"idle", "waiting", "enrolled", "killed"}
    /\ wire \subseteq [host : Host, server : Server, token : 1 .. drawn,
                      credential : 1 .. drawn, try : 1 .. MaxTries]

(* An enrolled server has exactly one active credential at every moment,   *)
(* the newest version, through racing enrolments and rotations ("no window *)
(* exists where an agent is unauthenticatable or where two credentials are *)
(* simultaneously active").  A revoked server has no credential, and no    *)
(* lease but one whose activation nobody has resolved: a claim that        *)
(* authenticated before the revocation leases nothing after it.            *)
OneActiveCredential ==
    \A s \in Server :
        /\ Active(s) = IF status[s] = "active" /\ token[s].state = "consumed"
                         THEN {Len(credential[s])}
                         ELSE {}
        /\ s \in leased => status[s] = "active"

(* Once `agent enroll` has reported success, the host's credential file is *)
(* the one the control plane accepted, and no later enrol command, late    *)
(* answer or leftover clean-up touches it.                                 *)
EnrolledKeepsCredential ==
    [][\A h \in Host : enrolling[h].phase = "enrolled" =>
          /\ file[h] = credential[enrolling[h].server][1].digest
          /\ file'[h] = file[h]]_registryVars

(* What the enrol command discards on a failure was never accepted by the  *)
(* control plane (the comment of removeUnusedCredential).                  *)
DiscardedWasNeverAccepted ==
    \A s \in Server : \A v \in DOMAIN credential[s] : credential[s][v].digest \notin discarded
=============================================================================
