----------------------- MODULE WorkspaceClientProofs ------------------------
(***************************************************************************)
(* Proofs about the clients of the quota service, over the ledger's        *)
(* invariant of WorkspaceProofs: whoever holds a workspace keeps it until  *)
(* it gives it up, whatever dies, restarts or runs late, unless a restart  *)
(* cannot look at it.                                                      *)
(***************************************************************************)
EXTENDS WorkspaceProofs
-----------------------------------------------------------------------------
(* Steps of the clients, of their children and of the connections. *)

\* A step that changes neither the ledger nor the workspace of the call that
\* holds the mutex leaves that call where it is.
LEMMA CallKept ==
    ASSUME CallInv, UNCHANGED <<disk, mem, misread>>, op = Free => op' = Free,
           op # Free => /\ op'.call = op.call /\ op'.step = op.step
                        /\ op'.id = op.id /\ op'.result = op.result,
           op # Free /\ op.id \in Id => /\ dir'[op.id] = dir[op.id]
                                        /\ proc'[op.id] = "open" => proc[op.id] = "open"
    PROVE  CallInv'
  <1> SUFFICES ASSUME op # Free
               PROVE  (Reserving \/ Looking \/ IsBuilding \/ IsGranting \/ IsCleaning \/ Replying)'
    BY Zenon DEF CallInv
  <1>1. PICK k, s, i, v : k = op.call /\ s = op.step /\ i = op.id /\ v = op.result
    BY Zenon
  <1>2. op'.call = k /\ op'.step = s /\ op'.id = i /\ op'.result = v
    BY Zenon, <1>1
  <1>3. i \in Id => dir'[i] = dir[i] /\ (proc'[i] = "open" => proc[i] = "open")
    BY Zenon, <1>1
  <1>4. Reserving => Reserving'
    BY Zenon, <1>1, <1>2 DEF Reserving
  <1>5. Looking => Looking'
    BY Zenon, <1>1, <1>2 DEF Looking
  <1>6. IsBuilding => IsBuilding'
    BY Zenon, <1>1, <1>2, <1>3 DEF IsBuilding
  <1>7. IsGranting => IsGranting'
    BY Zenon, <1>1, <1>2, <1>3 DEF IsGranting, Applied
  <1>8. IsCleaning => IsCleaning'
    BY Zenon, <1>1, <1>2, <1>3 DEF IsCleaning, Gone, Bare
  <1>9. Replying => Replying'
    BY Zenon, <1>1, <1>2 DEF Replying
  <1> QED
    BY Zenon, <1>4, <1>5, <1>6, <1>7, <1>8, <1>9 DEF CallInv

\* One client changes its state and keeps its identifier.
Moves(c, s) ==
    /\ ClientShape'
    /\ \A d \in Client : cl'[d].st = (IF d = c THEN s ELSE cl[d].st) /\ cl'[d].id = cl[d].id

\* The ways in which the actions of a client change its record.
LEMMA ClientMoves ==
    ASSUME ClientShape, NEW c \in Client
    PROVE  /\ \A s \in ClientState : Become(c, s) => Moves(c, s)
           /\ \A n : BeginClose(c, n) => Moves(c, "closing")
           /\ CloseFails(c) => Moves(c, "closing") \/ Moves(c, "lost")
           /\ ResolveFails(c) => Moves(c, "resolving") \/ Moves(c, "closing")
           /\ cl' = [cl EXCEPT ![c].st = "closing", ![c].tries = @ + 1] => Moves(c, "closing")
           /\ \A s \in {"holding", "using"} :
                 cl' = [cl EXCEPT ![c].done = @ + 1, ![c].st = s] => Moves(c, s)
  <1> DEFINE Row5 == [st |-> cl[c].st, id |-> cl[c].id, done |-> cl[c].done, tries |-> cl[c].tries,
                      closes |-> cl[c].closes]
             Edit(st, done, tries, closes) ==
               /\ cl' = [d \in Client |-> cl'[d]] /\ \A d \in Client \ {c} : cl'[d] = cl[d]
               /\ cl'[c] = [st |-> st, id |-> cl[c].id, done |-> done, tries |-> tries,
                            closes |-> closes]
  <1>1. cl[c] = Row5 /\ c \in DOMAIN cl /\ DOMAIN cl = Client
    BY Zenon DEF ClientShape
  <1>2. ASSUME NEW st \in ClientState, NEW done, NEW tries, NEW closes, Edit(st, done, tries, closes)
        PROVE  Moves(c, st)
    <2>1. \A d \in Client : cl'[d] = IF d = c THEN [st |-> st, id |-> cl[c].id, done |-> done,
                                                    tries |-> tries, closes |-> closes] ELSE cl[d]
      BY Zenon, <1>1, <1>2
    <2>2. \A d \in Client : cl[d] = [st |-> cl[d].st, id |-> cl[d].id, done |-> cl[d].done,
                                     tries |-> cl[d].tries, closes |-> cl[d].closes]
                            /\ cl[d].st \in ClientState
      BY Zenon DEF ClientShape
    <2>3. \A d \in Client : cl'[d] = [st |-> cl'[d].st, id |-> cl'[d].id, done |-> cl'[d].done,
                                      tries |-> cl'[d].tries, closes |-> cl'[d].closes]
                            /\ cl'[d].st \in ClientState
      BY <2>1, <2>2
    <2>4. cl' = [d \in Client |-> cl'[d]]
      BY Zenon, <1>2
    <2>5. ClientShape'
      BY Zenon, <2>3, <2>4 DEF ClientShape
    <2> QED
      BY <2>1, <2>5 DEF Moves
  <1>3. ASSUME NEW s, Become(c, s) PROVE Edit(s, cl[c].done, cl[c].tries, cl[c].closes)
    BY Zenon, <1>1, <1>3 DEF Become
  <1>4. ASSUME NEW n, BeginClose(c, n) PROVE Edit("closing", cl[c].done, 0, n)
    BY Zenon, <1>1, <1>4 DEF BeginClose
  <1>5. ASSUME CloseFails(c)
        PROVE  Edit(IF cl[c].closes > 1 THEN "closing" ELSE "lost", cl[c].done, 0, cl[c].closes - 1)
    BY Zenon, <1>1, <1>5 DEF CloseFails
  <1>6. ASSUME ResolveFails(c), cl[c].tries = 0 PROVE Edit("resolving", cl[c].done, 1, cl[c].closes)
    BY Zenon, <1>1, <1>6 DEF ResolveFails
  <1>10. ASSUME cl' = [cl EXCEPT ![c].st = "closing", ![c].tries = @ + 1]
         PROVE  Edit("closing", cl[c].done, cl[c].tries + 1, cl[c].closes)
    BY Zenon, <1>1, <1>10
  <1>11. ASSUME NEW s, cl' = [cl EXCEPT ![c].done = @ + 1, ![c].st = s]
         PROVE  Edit(s, cl[c].done + 1, cl[c].tries, cl[c].closes)
    BY Zenon, <1>1, <1>11
  <1>7. {"closing", "lost", "resolving", "holding", "using"} \subseteq ClientState
    BY Zenon DEF ClientState, Ended, Owning
  <1> HIDE DEF Edit
  <1>8. CloseFails(c) => Moves(c, "closing") \/ Moves(c, "lost")
    BY Zenon, <1>2, <1>5, <1>7
  <1>9. ResolveFails(c) => Moves(c, "resolving") \/ Moves(c, "closing")
    BY Zenon, <1>2, <1>4, <1>6, <1>7 DEF ResolveFails
  <1> QED
    BY Zenon, <1>2, <1>3, <1>4, <1>7, <1>8, <1>9, <1>10, <1>11

\* A step that does not change what the clients see.
LEMMA Quiet ==
    ASSUME ClientInv, UNCHANGED <<cl, reqs, offers, issued, op, mem, misread, up>>,
           \A i \in Id : dir'[i].access = dir[i].access
    PROVE  ClientInv'
  <1>1. ClientShape' /\ Requests' /\ Identities' /\ FreshId' /\ LiveInv' /\ OfferInv' /\ CloseInv'
    BY DEF ClientInv, ClientShape, Requests, Identities, FreshId, LiveInv, OfferInv, CloseInv,
       Acts
  <1>2. OwnerInv'
    <2>1. \A c \in Client : cl[c].st \in Owning => cl[c].id \in Id
      BY Zenon DEF ClientInv, Identities, Owning
    <2> QED
      BY Zenon, <2>1 DEF ClientInv, OwnerInv, Acts
  <1> QED
    BY ZenonT(60), <1>1, <1>2 DEF ClientInv

\* A client that waits for no answer goes on by itself.
LEMMA Alone ==
    ASSUME OpShape, ClientInv, NEW c \in Client, NEW s \in ClientState, Moves(c, s),
           UNCHANGED <<reqs, offers, issued, op, mem, dir, misread, up>>,
           cl[c].st \notin Waiting \cup Ended, s \notin {"asked", "released"},
           cl[c].st \in PastAck => s \in PastAck,
           s \in Owning => cl[c].st \in Owning,
           s \in {"spawned", "using"} => dir[cl[c].id].access = "checkout" \/ cl[c].id \in misread
    PROVE  ClientInv'
  <1> USE DEF ClientInv
  <1>1. ClientShape'
    BY Zenon DEF Moves
  <1>2. Requests' /\ FreshId' /\ OfferInv'
    BY DEF Requests, FreshId, OfferInv, Acts
  <1>3. Identities'
    BY DEF Identities, Moves, Waiting, Ended
  <1>4. LiveInv'
    <2>1. \A r \in reqs : r.live => r.c # c /\ r.c \in Client
      BY DEF LiveInv, Requests, Awaits, Waiting
    <2>2. op # Free /\ op.call # "reconcile" /\ op.live => op.c # c /\ op.c \in Client
      <3>1. op # Free /\ op.call # "reconcile" => op.call \in Calls
        BY Zenon DEF OpShape
      <3> QED
        BY <3>1 DEF LiveInv, Requests, Awaits, Waiting, Calls
    <2> QED
      BY <2>1, <2>2 DEF LiveInv, Moves
  <1>5. CloseInv'
    BY ZenonT(60) DEF CloseInv, Moves, Acts
  <1>6. OwnerInv'
    BY DEF OwnerInv, Moves, Acts
  <1> QED
    BY Zenon, <1>1, <1>2, <1>3, <1>4, <1>5, <1>6

\* A client sends a request about its workspace.
LEMMA Sends ==
    ASSUME OpShape, ClientInv, NEW c \in Client, NEW call, NEW s, Moves(c, s), Send(c, call),
           \/ /\ call = "ack" /\ s = "acked" /\ cl[c].st = "offered"
              /\ <<c, cl[c].id>> \in offers /\ offers' = offers \ {<<c, cl[c].id>>}
           \/ call = "query" /\ s = "querying" /\ cl[c].st = "resolving" /\ up = "up" /\ offers' = offers
           \/ call = "release" /\ s = "releasing" /\ cl[c].st = "closing" /\ up = "up" /\ offers' = offers,
           UNCHANGED <<issued, op, mem, dir, misread, up>>
    PROVE  ClientInv'
  <1> USE DEF ClientInv
  <1>n. PICK n : n = [call |-> call, c |-> c, id |-> cl[c].id, live |-> TRUE]
    BY Zenon
  <1>0. reqs' = reqs \cup {n} /\ offers' \subseteq offers
        /\ n = [call |-> n.call, c |-> n.c, id |-> n.id, live |-> n.live]
        /\ n.call = call /\ n.c = c /\ n.id = cl[c].id /\ n.live = TRUE
    BY Zenon, <1>n DEF Send
  <1>1. ClientShape'
    BY Zenon DEF Moves
  <1>2. cl[c].id \in issued /\ cl[c].id \in Id /\ cl[c].id < mem.next
    BY Zenon DEF Identities
  <1>3. up = "up"
    BY Zenon DEF Requests
  <1>4. Requests'
    <2>1. \A r \in reqs' : /\ r = [call |-> r.call, c |-> r.c, id |-> r.id, live |-> r.live]
                           /\ r.c \in Client /\ r.live \in BOOLEAN
                           /\ r.call \in {"allocate", "ack", "withdraw", "query", "release"}
                           /\ r.call # "allocate" => r.id \in Id /\ r.id < mem.next
                           /\ r.call \in {"ack", "query", "release"} => r.id \in issued
      BY Zenon, <1>0, <1>2 DEF Requests
    <2> QED
      BY Zenon, <1>0, <1>3, <2>1 DEF Requests
  <1>5. Identities'
    BY DEF Identities, Moves
  <1>6. FreshId'
    BY Zenon, <1>0, <1>2 DEF FreshId
  <1>7. LiveInv'
    <2>1. \A r \in reqs : r.live => r.c # c /\ r.c \in Client
      BY DEF LiveInv, Requests, Awaits
    <2>2. op # Free /\ op.call # "reconcile" /\ op.live => op.c # c /\ op.c \in Client
      <3>1. op # Free /\ op.call # "reconcile" => op.call \in Calls
        BY Zenon DEF OpShape
      <3> QED
        BY <3>1 DEF LiveInv, Requests, Awaits, Calls
    <2>3. Awaits[n.call] = s /\ n.call # "withdraw"
      BY <1>0 DEF Awaits
    <2> QED
      BY <1>0, <2>1, <2>2, <2>3 DEF LiveInv, Moves
  <1>8. OfferInv'
    <2>1. CASE call = "ack"
      <3>1. PICK o \in offers : o = <<c, cl[c].id>> /\ offers' = offers \ {o}
        BY Zenon, <2>1
      <3>2. /\ mem.rec[n.id] = "offered" /\ ~Acts({"ack", "undo", "withdraw"}, n.id)
            /\ \A r \in reqs : r.call \in Deciding => r.id # n.id
            /\ \A p \in offers' : p[2] # n.id
        BY <1>0, <3>1 DEF OfferInv
      <3> QED
        BY <1>0, <3>2 DEF OfferInv, Acts
    <2>2. CASE call # "ack"
      BY <1>0, <2>2 DEF OfferInv, Acts, Deciding
    <2> QED
      BY Zenon, <2>1, <2>2
  <1>9. CloseInv'
    <2>1. \A d \in Client : cl[d].id = cl[c].id => d = c
      BY Zenon, <1>2, MaxProjectAssumption DEF Identities, Id
    <2>2. cl[c].st \in PastAck => s \in PastAck
      BY Zenon DEF PastAck, Ended
    <2>3. s # "released" /\ (call = "release" => s \in PastAck)
      BY Zenon DEF PastAck
    <2> QED
      BY <1>0, <2>1, <2>2, <2>3 DEF CloseInv, Moves, Acts
  <1>10. OwnerInv'
    <2>1. \A d \in Client : cl[d].id = cl[c].id => d = c
      BY Zenon, <1>2, MaxProjectAssumption DEF Identities, Id
    <2>2. s \notin Owning
      BY Zenon DEF Owning
    <2> QED
      BY <1>0, <2>1, <2>2 DEF OwnerInv, Moves, Acts
  <1> QED
    BY Zenon, <1>1, <1>4, <1>5, <1>6, <1>7, <1>8, <1>9, <1>10

\* A client asks for a workspace.
LEMMA Asks ==
    ASSUME OpShape, ClientInv, NEW c \in Client, CallAllocate(c)
    PROVE  ClientInv'
  <1> USE DEF ClientInv
  <1>n. PICK n : n = [call |-> "allocate", c |-> c, id |-> 0, live |-> TRUE]
    BY Zenon
  <1>0. /\ reqs' = reqs \cup {n} /\ cl[c].st \in Ended /\ up = "up"
        /\ UNCHANGED <<issued, op, mem, dir, misread, up, offers>>
        /\ n = [call |-> n.call, c |-> n.c, id |-> n.id, live |-> n.live]
        /\ n.call = "allocate" /\ n.c = c /\ n.id = 0 /\ n.live = TRUE
    BY Zenon, <1>n DEF CallAllocate, ClientOnly
  <1>1. /\ ClientShape'
        /\ \A d \in Client \ {c} : cl'[d] = cl[d]
        /\ cl'[c].st = "asked" /\ cl'[c].id = 0
    <2>1. /\ cl' = [d \in Client |-> cl'[d]] /\ \A d \in Client \ {c} : cl'[d] = cl[d]
          /\ cl'[c] = [st |-> "asked", id |-> 0, done |-> 0, tries |-> 0, closes |-> 0]
      BY Zenon DEF CallAllocate, Fresh, ClientShape
    <2>2. \A d \in Client : cl'[d] = [st |-> cl'[d].st, id |-> cl'[d].id, done |-> cl'[d].done,
                                      tries |-> cl'[d].tries, closes |-> cl'[d].closes]
                            /\ cl'[d].st \in ClientState
      <3>1. \A d \in Client : cl[d] = [st |-> cl[d].st, id |-> cl[d].id, done |-> cl[d].done,
                                       tries |-> cl[d].tries, closes |-> cl[d].closes]
                              /\ cl[d].st \in ClientState
        BY Zenon DEF ClientShape
      <3>2. cl'[c].st = "asked" /\ cl'[c].id = 0 /\ cl'[c].done = 0 /\ cl'[c].tries = 0 /\ cl'[c].closes = 0
        BY <2>1
      <3>3. "asked" \in ClientState
        BY Zenon DEF ClientState, Waiting
      <3>4. cl'[c] = [st |-> cl'[c].st, id |-> cl'[c].id, done |-> cl'[c].done,
                      tries |-> cl'[c].tries, closes |-> cl'[c].closes]
        BY Zenon, <2>1, <3>2
      <3> QED
        BY Zenon, <2>1, <3>1, <3>2, <3>3, <3>4
    <2> QED
      BY <2>1, <2>2 DEF ClientShape
  <1>2. Requests'
    <2>1. \A r \in reqs' : /\ r = [call |-> r.call, c |-> r.c, id |-> r.id, live |-> r.live]
                           /\ r.c \in Client /\ r.live \in BOOLEAN
                           /\ r.call \in {"allocate", "ack", "withdraw", "query", "release"}
                           /\ r.call # "allocate" => r.id \in Id /\ r.id < mem.next
                           /\ r.call \in {"ack", "query", "release"} => r.id \in issued
      BY Zenon, <1>0 DEF Requests
    <2> QED
      BY Zenon, <1>0, <2>1 DEF Requests
  <1>3. Identities'
    BY <1>0, <1>1 DEF Identities
  <1>4. FreshId' /\ OfferInv'
    BY <1>0 DEF FreshId, OfferInv, Acts, Deciding
  <1>5. LiveInv'
    <2>1. \A r \in reqs : r.live => r.c # c /\ r.c \in Client
      BY <1>0 DEF LiveInv, Requests, Awaits, Ended
    <2>2. op # Free /\ op.call # "reconcile" /\ op.live => op.c # c /\ op.c \in Client
      <3>1. op # Free /\ op.call # "reconcile" => op.call \in Calls
        BY Zenon DEF OpShape
      <3> QED
        BY <1>0, <3>1 DEF LiveInv, Requests, Awaits, Calls, Ended
    <2>3. Awaits[n.call] = "asked"
      BY <1>0 DEF Awaits
    <2> QED
      BY <1>0, <1>1, <2>1, <2>2, <2>3 DEF LiveInv
  <1>6. CloseInv'
    <2>1. ~Acts({"release"}, 0)
      BY MaxProjectAssumption DEF Acts, Requests, Identities, Id
    <2>2. \A r \in reqs : r.call = "release" => r.id # 0
      BY MaxProjectAssumption DEF Requests, Id
    <2> QED
      BY <1>0, <1>1, <2>1, <2>2 DEF CloseInv, Acts
  <1>7. OwnerInv'
    BY <1>0, <1>1 DEF OwnerInv, Acts, Owning
  <1> QED
    BY Zenon, <1>1, <1>2, <1>3, <1>4, <1>5, <1>6, <1>7

\* A client stops waiting; its request goes on.
LEMMA GivesUp ==
    ASSUME LedgerInv, ClientInv, NEW c \in Client, GiveUp(c)
    PROVE  LedgerInv' /\ ClientInv'
  <1> USE DEF ClientInv
  <1> DEFINE Dead(r) == IF r.c = c THEN [call |-> r.call, c |-> r.c, id |-> r.id, live |-> FALSE] ELSE r
  <1>0. UNCHANGED <<disk, mem, dir, misread, up, todo, proc, offers, issued>> /\ cl[c].st \in Waiting
    BY Zenon DEF GiveUp
  <1>1. PICK s \in ClientState : Moves(c, s) /\ s \in {"failed", "resolving", "closing", "lost"}
                                 /\ (cl[c].st = "asked" => s = "failed")
                                 /\ (cl[c].st = "releasing" => s \in PastAck)
    <2>1. {"failed", "resolving", "closing", "lost"} \subseteq ClientState
          /\ {"closing", "lost"} \subseteq PastAck
      BY Zenon DEF ClientState, Ended, PastAck
    <2>2. CASE cl[c].st = "asked"
      BY Zenon, <2>1, <2>2, ClientMoves DEF GiveUp
    <2>3. CASE cl[c].st = "acked"
      BY Zenon, <2>1, <2>3, ClientMoves DEF GiveUp
    <2>4. CASE cl[c].st = "querying"
      BY Zenon, <2>1, <2>4, ClientMoves DEF GiveUp
    <2>5. CASE cl[c].st = "releasing"
      BY Zenon, <2>1, <2>5, ClientMoves DEF GiveUp
    <2> QED
      BY Zenon, <1>0, <2>2, <2>3, <2>4, <2>5 DEF Waiting
  <1>2. /\ \A q \in reqs' : \E r \in reqs : q = Dead(r)
        /\ reqs = {} => reqs' = {}
    <2>1. \A r \in reqs : r = [call |-> r.call, c |-> r.c, id |-> r.id, live |-> r.live] /\ r.live \in BOOLEAN
      BY Zenon DEF Requests
    <2>2. ASSUME NEW r \in reqs, r.c = c
          PROVE  [r EXCEPT !.live = FALSE] = [call |-> r.call, c |-> r.c, id |-> r.id, live |-> FALSE]
      <3>1. PICK k, d, i, b : k = r.call /\ d = r.c /\ i = r.id /\ b = r.live
        BY Zenon
      <3>2. r = [call |-> k, c |-> d, id |-> i, live |-> b]
        BY Zenon, <2>1, <3>1
      <3>3. \A v : [r EXCEPT !.live = v] = [call |-> k, c |-> d, id |-> i, live |-> v]
        BY <3>2
      <3>4. [r EXCEPT !.live = FALSE] = [call |-> k, c |-> d, id |-> i, live |-> FALSE]
        BY <3>3, Zenon
      <3> QED
        BY Zenon, <3>1, <3>4
    <2>3. \A r \in reqs : (IF r.c = c THEN [r EXCEPT !.live = FALSE] ELSE r) = Dead(r)
      BY Zenon, <2>2
    <2> HIDE DEF Dead
    <2> QED
      BY Zenon, <2>3 DEF GiveUp
  <1>3. OpShape /\ (op # Free /\ op.call # "reconcile" => op.call \in Calls)
    BY Zenon DEF LedgerInv, OpShape
  <1>4. /\ op = Free => op' = Free
        /\ op # Free => /\ op' # Free /\ op'.call = op.call /\ op'.id = op.id /\ op'.step = op.step
                        /\ op'.result = op.result
        /\ op # Free /\ op.call # "reconcile" =>
              op'.c = op.c /\ (op'.live <=> op.live /\ op.c # c) /\ op'.live \in BOOLEAN
        /\ OpShape'
    <2>1. CASE op # Free /\ op.call # "reconcile" /\ op.c = c
      <3>1. op = [call |-> op.call, step |-> op.step, c |-> op.c, live |-> op.live, id |-> op.id,
                  result |-> op.result]
        BY Zenon, <1>3, <2>1 DEF OpShape
      <3>2. op' = [call |-> op.call, step |-> op.step, c |-> op.c, live |-> FALSE, id |-> op.id,
                  result |-> op.result]
        BY Zenon, <2>1, <3>1 DEF GiveUp
      <3> QED
        BY Zenon, <1>3, <2>1, <3>2 DEF OpShape, Free, Calls
    <2>2. CASE ~(op # Free /\ op.call # "reconcile" /\ op.c = c)
      <3>1. op' = op
        BY Zenon, <2>2 DEF GiveUp
      <3> QED
        BY Zenon, <1>3, <2>2, <3>1 DEF OpShape, Requests
    <2> QED
      BY Zenon, <2>1, <2>2
  <1>5. LedgerInv'
    <2>1. LedgerRows' /\ Ahead' /\ \A j \in Id : Row(j)'
      BY Zenon, <1>0, NoStep DEF LedgerInv, LedgerRows
    <2>2. CallInv'
      BY Zenon, <1>0, <1>4, CallKept DEF LedgerInv
    <2> QED
      BY Zenon, <1>4, <2>1, <2>2 DEF LedgerInv
  <1>6. \A calls, i : Acts(calls, i)' <=> Acts(calls, i)
    BY Zenon, <1>4 DEF Acts
  <1>7. Requests'
    <2>1. \A q \in reqs' : /\ q = [call |-> q.call, c |-> q.c, id |-> q.id, live |-> q.live]
                           /\ q.c \in Client /\ q.live \in BOOLEAN
                           /\ q.call \in {"allocate", "ack", "withdraw", "query", "release"}
                           /\ q.call # "allocate" => q.id \in Id /\ q.id < mem.next
                           /\ q.call \in {"ack", "query", "release"} => q.id \in issued
      <3> SUFFICES ASSUME NEW q \in reqs'
                   PROVE  /\ q = [call |-> q.call, c |-> q.c, id |-> q.id, live |-> q.live]
                          /\ q.c \in Client /\ q.live \in BOOLEAN
                          /\ q.call \in {"allocate", "ack", "withdraw", "query", "release"}
                          /\ q.call # "allocate" => q.id \in Id /\ q.id < mem.next
                          /\ q.call \in {"ack", "query", "release"} => q.id \in issued
        BY Zenon
      <3>1. PICK r \in reqs : q = Dead(r)
        BY Zenon, <1>2
      <3>2. CASE r.c = c
        BY Zenon, <3>1, <3>2 DEF Requests
      <3>3. CASE r.c # c
        BY Zenon, <3>1, <3>3 DEF Requests
      <3> QED
        BY Zenon, <3>2, <3>3
    <2> QED
      BY Zenon, <1>0, <1>2, <1>4, <2>1 DEF Requests
  <1>8. Identities'
    BY <1>0, <1>1 DEF Identities, Moves, Waiting
  <1>9. FreshId'
    BY <1>0, <1>2, <1>4 DEF FreshId
  <1>10. LiveInv'
    <2>1. \A q \in reqs' : q.live => q.c # c
      BY <1>2
    <2>2. \A q \in reqs' : q.live => /\ q.call # "withdraw" /\ cl'[q.c].st = Awaits[q.call]
                                     /\ q.call # "allocate" => cl'[q.c].id = q.id
      BY <1>1, <1>2, <2>1 DEF LiveInv, Moves, Requests
    <2>3. \A q, p \in reqs' : q.live /\ p.live /\ q.c = p.c => q = p
      BY <1>2 DEF LiveInv
    <2>4. op' # Free /\ op'.call # "reconcile" => (op'.live =>
            /\ op'.call # "withdraw" /\ cl'[op'.c].st = Awaits[op'.call]
            /\ op'.call # "allocate" => cl'[op'.c].id = op'.id
            /\ \A r \in reqs' : r.live => r.c # op'.c)
      BY <1>1, <1>2, <1>4 DEF LiveInv, Moves, Requests
    <2> QED
      BY Zenon, <2>2, <2>3, <2>4 DEF LiveInv
  <1>11. OfferInv'
    <2>1. \A o \in offers' : /\ mem'.rec[o[2]] = "offered"
                             /\ \A r \in reqs' : r.call \in Deciding => r.id # o[2]
                             /\ ~Acts({"ack", "undo", "withdraw"}, o[2])'
                             /\ \A p \in offers' : p[2] = o[2] => p = o
      BY <1>0, <1>2, <1>6 DEF OfferInv
    <2>2. ASSUME NEW q \in reqs', q.call \in Deciding
          PROVE  /\ q.call = "ack" => mem'.rec[q.id] = "offered"
                 /\ ~Acts({"ack", "undo", "withdraw"}, q.id)'
                 /\ \A p \in reqs' : p.call \in Deciding /\ p.id = q.id => p = q
      <3>1. PICK r \in reqs : q = Dead(r)
        BY Zenon, <1>2
      <3>2. q.call = r.call /\ q.id = r.id
        BY Zenon, <3>1
      <3>3. ASSUME NEW p \in reqs', p.call \in Deciding, p.id = q.id PROVE p = q
        <4>1. PICK u \in reqs : p = Dead(u)
          BY Zenon, <1>2
        <4>2. p.call = u.call /\ p.id = u.id
          BY Zenon, <4>1
        <4>3. u = r
          BY Zenon, <2>2, <3>2, <3>3, <4>2 DEF OfferInv
        <4> QED
          BY Zenon, <3>1, <4>1, <4>3
      <3> QED
        BY Zenon, <1>0, <1>6, <2>2, <3>2, <3>3 DEF OfferInv
    <2> QED
      BY Zenon, <2>1, <2>2 DEF OfferInv
  <1>12. CloseInv'
    <2>1. \A d \in Client : (cl[d].st \in PastAck => cl'[d].st \in PastAck) /\ cl'[d].id = cl[d].id
                            /\ (cl'[d].st = "released" => cl[d].st = "released")
      BY Zenon, <1>0, <1>1 DEF Moves, PastAck, Waiting, Ended
    <2> QED
      BY <1>0, <1>2, <1>6, <2>1 DEF CloseInv
  <1>13. OwnerInv'
    <2>1. \A d \in Client : cl'[d].st \in Owning => cl[d].st = cl'[d].st /\ cl'[d].id = cl[d].id
      BY Zenon, <1>1 DEF Moves, Owning
    <2> QED
      BY <1>0, <1>2, <1>6, <2>1 DEF OwnerInv
  <1> QED
    BY Zenon, <1>1, <1>5, <1>7, <1>8, <1>9, <1>10, <1>11, <1>12, <1>13 DEF Moves

\* A call that is over leaves the ledger as it is.
LEMMA CallOver ==
    ASSUME LedgerInv, UNCHANGED <<disk, mem, dir, misread, proc, todo>>, op' = Free
    PROVE  LedgerInv'
  <1>1. LedgerRows' /\ Ahead' /\ \A j \in Id : Row(j)'
    BY Zenon, NoStep DEF LedgerInv, LedgerRows
  <1> QED
    BY Zenon, <1>1 DEF LedgerInv, OpShape, CallInv

\* So does a step of the clients alone.
LEMMA LedgerSame ==
    ASSUME LedgerInv, UNCHANGED <<disk, mem, dir, misread, proc, todo, op>>
    PROVE  LedgerInv'
  <1>1. LedgerRows' /\ Ahead' /\ \A j \in Id : Row(j)'
    BY Zenon, NoStep DEF LedgerInv, LedgerRows
  <1>2. OpShape' /\ CallInv'
    BY ZenonT(60) DEF LedgerInv, OpShape, CallInv, Reserving, Looking, IsBuilding, IsGranting,
       IsCleaning,
           Replying, Gone, Bare, Applied
  <1> QED
    BY Zenon, <1>1, <1>2 DEF LedgerInv

\* A handler gets the mutex.
LEMMA Begins ==
    ASSUME LedgerInv, ClientInv, NEW r \in reqs, Begin(r)
    PROVE  LedgerInv' /\ ClientInv'
  <1> USE DEF ClientInv
  <1>0. /\ UNCHANGED <<disk, mem, dir, misread, up, todo, proc, cl, offers, issued>>
        /\ reqs' = reqs \ {r} /\ up = "up" /\ op = Free
    BY Zenon DEF Begin
  <1>1. /\ r.c \in Client /\ r.live \in BOOLEAN
        /\ r.call \in {"allocate", "ack", "withdraw", "release"}
        /\ r.call # "allocate" => r.id \in Id
        /\ r.call \in {"ack", "release"} => r.id \in issued
    BY Zenon DEF Begin, Requests
  <1>2. /\ op' # Free /\ OpShape' /\ op'.call = r.call /\ op'.c = r.c /\ op'.live = r.live
        /\ r.call # "allocate" => op'.id = r.id
        /\ op'.call = "allocate" => op'.step = "reserve" /\ op'.id = mem.next
        /\ op'.call = "ack" => op'.step = "grant"
        /\ op'.call \in {"withdraw", "release"} => op'.step = "revoke"
    <2>1. PICK id, st : /\ id = (IF r.call = "allocate" THEN mem.next ELSE r.id)
                        /\ st = FirstStep(r.call)
      BY Zenon
    <2>2. op' = [call |-> r.call, step |-> st, c |-> r.c, live |-> r.live, id |-> id, result |-> "retry"]
      BY Zenon, <2>1 DEF Begin
    <2>3. op'.call = r.call /\ op'.c = r.c /\ op'.live = r.live /\ op'.id = id /\ op'.step = st
          /\ op'.result = "retry"
      BY Zenon, <2>2
    <2>4. op' # Free
      BY <1>1, <2>3 DEF Free
    <2>5. OpShape'
      BY Zenon, <1>1, <2>2, <2>3 DEF OpShape, Calls
    <2> QED
      BY Zenon, <1>1, <2>1, <2>3, <2>4, <2>5 DEF FirstStep
  <1>3. LedgerInv'
    <2>1. LedgerRows' /\ Ahead' /\ \A j \in Id : Row(j)'
      BY Zenon, <1>0, NoStep DEF LedgerInv, LedgerRows
    <2>2. CallInv'
      BY Zenon, <1>0, <1>1, <1>2 DEF CallInv, Reserving, Looking
    <2> QED
      BY Zenon, <1>2, <2>1, <2>2 DEF LedgerInv
  <1>4. ClientShape' /\ Identities'
    BY Zenon, <1>0 DEF ClientShape, Identities
  <1>5. Requests'
    BY Zenon, <1>0, <1>1, <1>2 DEF Requests
  <1>6. FreshId'
    BY Zenon, <1>2 DEF FreshId
  <1>7. LiveInv'
    <2>1. \A q \in reqs' : q.live => /\ q.call # "withdraw" /\ cl'[q.c].st = Awaits[q.call]
                                     /\ q.call # "allocate" => cl'[q.c].id = q.id
      BY Zenon, <1>0 DEF LiveInv
    <2>2. \A q, p \in reqs' : q.live /\ p.live /\ q.c = p.c => q = p
      BY Zenon, <1>0 DEF LiveInv
    <2>3. op'.live =>
            /\ op'.call # "withdraw" /\ cl'[op'.c].st = Awaits[op'.call]
            /\ op'.call # "allocate" => cl'[op'.c].id = op'.id
            /\ \A q \in reqs' : q.live => q.c # op'.c
      BY ZenonT(60), <1>0, <1>2 DEF LiveInv
    <2> QED
      BY Zenon, <2>1, <2>2, <2>3 DEF LiveInv
  <1>8. OfferInv'
    <2>1. \A i : Acts({"ack", "undo", "withdraw"}, i)' => r.call \in Deciding /\ r.id = i
      BY Zenon, <1>1, <1>2 DEF Acts, Deciding
    <2> QED
      BY Zenon, <1>0, <2>1 DEF OfferInv
  <1>9. CloseInv'
    <2>1. \A i : Acts({"release"}, i)' => r.call = "release" /\ r.id = i
      BY Zenon, <1>1, <1>2 DEF Acts
    <2> QED
      BY Zenon, <1>0, <2>1 DEF CloseInv
  <1>10. OwnerInv'
    <2>1. \A i : Acts({"ack", "undo"}, i)' => r.call = "ack" /\ r.id = i
      BY Zenon, <1>1, <1>2 DEF Acts
    <2> QED
      BY Zenon, <1>0, <2>1 DEF OwnerInv
  <1> QED
    BY Zenon, <1>3, <1>4, <1>5, <1>6, <1>7, <1>8, <1>9, <1>10

\* A query is answered.
LEMMA Answers ==
    ASSUME LedgerInv, ClientInv, NEW r \in reqs, AnswerQuery(r)
    PROVE  LedgerInv' /\ ClientInv'
  <1> USE DEF ClientInv
  <1>0. /\ UNCHANGED <<disk, mem, dir, misread, up, todo, proc, op, offers, issued>>
        /\ reqs' = reqs \ {r} /\ up = "up" /\ op = Free /\ r.call = "query" /\ r.c \in Client
    BY Zenon DEF AnswerQuery, ClientOnly, Requests
  <1>1. LedgerInv'
    BY Zenon, <1>0, LedgerSame
  <1>2. Requests' /\ FreshId'
    BY Zenon, <1>0 DEF Requests, FreshId
  <1>3. OfferInv'
    BY <1>0 DEF OfferInv, Acts
  <1>4. CASE UNCHANGED cl
    <2>1. ClientShape' /\ Identities'
      BY Zenon, <1>0, <1>4 DEF ClientShape, Identities
    <2>2. LiveInv'
      BY Zenon, <1>0, <1>4 DEF LiveInv
    <2>3. CloseInv' /\ OwnerInv'
      BY Zenon, <1>0, <1>4 DEF CloseInv, OwnerInv, Acts
    <2> QED
      BY Zenon, <1>1, <1>2, <1>3, <2>1, <2>2, <2>3
  <1>5. CASE r.live /\ Become(r.c, IF mem.rec[r.id] = "active" THEN "holding" ELSE "failed")
    <2>1. PICK c, s : c = r.c /\ s = IF mem.rec[r.id] = "active" THEN "holding" ELSE "failed"
      BY Zenon
    <2>2. s \in ClientState /\ s \in {"holding", "failed"} /\ (s = "holding" => mem.rec[r.id] = "active")
      BY Zenon, <2>1 DEF ClientState, Owning, Ended
    <2>3. Moves(c, s) /\ c \in Client
      BY Zenon, <1>0, <1>5, <2>1, <2>2, ClientMoves
    <2>4. cl[c].st = "querying" /\ cl[c].id = r.id /\ (\A q \in reqs' : q.live => q.c # c)
      BY <1>0, <1>5, <2>1 DEF LiveInv, Awaits
    <2>5. Identities'
      BY <1>0, <2>2, <2>3, <2>4 DEF Identities, Moves
    <2>6. LiveInv'
      BY <1>0, <2>3, <2>4 DEF LiveInv, Moves, Requests
    <2>7. CloseInv'
      BY <1>0, <2>2, <2>3, <2>4 DEF CloseInv, Moves, Acts, PastAck, Ended
    <2>8. OwnerInv'
      <3>1. ASSUME NEW d \in Client \ {c}, cl'[d].st \in Owning
            PROVE  cl[d].st = cl'[d].st /\ cl'[d].id = cl[d].id
        BY Zenon, <2>3 DEF Moves
      <3>2. cl'[c].st \in Owning => mem.rec[cl'[c].id] = "active" /\ cl'[c].st = "holding"
        BY Zenon, <2>2, <2>3, <2>4 DEF Moves, Owning
      <3>3. \A q \in reqs : q.call = "ack" => mem.rec[q.id] = "offered"
        BY Zenon DEF OfferInv, Deciding
      <3>4. \A o \in offers : mem.rec[o[2]] = "offered"
        BY Zenon DEF OfferInv
      <3> QED
        BY <1>0, <3>1, <3>2, <3>3, <3>4 DEF OwnerInv, Acts
    <2> QED
      BY Zenon, <1>1, <1>2, <1>3, <2>3, <2>5, <2>6, <2>7, <2>8 DEF Moves
  <1> QED
    BY Zenon, <1>4, <1>5 DEF AnswerQuery, Lost

\* What holds when an allocation answers.
LEMMA AllocationAnswers ==
    ASSUME LedgerInv, ClientInv, ReplyAllocate
    PROVE  /\ op # Free /\ op.call = "allocate" /\ op.c \in Client /\ op.live \in BOOLEAN /\ up = "up"
           /\ op.id \notin issued /\ \A r \in reqs : r.call # "allocate" => r.id # op.id
           /\ op.result = "ok" => op.id \in Id /\ mem.rec[op.id] = "offered" /\ op.id < mem.next
           /\ op.live => cl[op.c].st = "asked" /\ \A r \in reqs : r.live => r.c # op.c
           /\ op' = Free /\ UNCHANGED <<disk, mem, dir, misread, up, todo, proc>> /\ LedgerInv'
  <1>1. op # Free /\ op.call = "allocate" /\ op.step = "reply" /\ op' = Free
        /\ UNCHANGED <<disk, mem, dir, misread, up, todo, proc>>
    BY Zenon DEF ReplyAllocate, At
  <1>2. op.c \in Client /\ op.live \in BOOLEAN /\ up = "up"
    BY Zenon, <1>1 DEF ClientInv, Requests
  <1>3. op.id \notin issued /\ \A r \in reqs : r.call # "allocate" => r.id # op.id
    BY Zenon, <1>1 DEF ClientInv, FreshId
  <1>4. op.result = "ok" => op.id \in Id /\ mem.rec[op.id] = "offered" /\ op.id < mem.next
    BY Zenon, <1>1, AtStep DEF LedgerInv, At, Replying, Ahead, ValidLedger
  <1>5. op.live => cl[op.c].st = "asked" /\ \A r \in reqs : r.live => r.c # op.c
    BY <1>1 DEF ClientInv, LiveInv, Awaits
  <1> QED
    BY Zenon, <1>1, <1>2, <1>3, <1>4, <1>5, CallOver

\* The client's record of an offer.
LEMMA OfferRecord ==
    ASSUME ClientShape, NEW c \in Client, NEW i, cl' = [cl EXCEPT ![c].st = "offered", ![c].id = i]
    PROVE  /\ ClientShape'
           /\ \A d \in Client \ {c} : cl'[d].st = cl[d].st /\ cl'[d].id = cl[d].id
           /\ cl'[c].st = "offered" /\ cl'[c].id = i
  <1>1. \A d \in Client : cl[d] = [st |-> cl[d].st, id |-> cl[d].id, done |-> cl[d].done,
                                   tries |-> cl[d].tries, closes |-> cl[d].closes]
                          /\ cl[d].st \in ClientState
    BY Zenon DEF ClientShape
  <1>2. /\ cl' = [d \in Client |-> cl'[d]] /\ \A d \in Client \ {c} : cl'[d] = cl[d]
        /\ cl'[c] = [st |-> "offered", id |-> i, done |-> cl[c].done, tries |-> cl[c].tries,
                     closes |-> cl[c].closes]
    <2>1. PICK e : e = [cl EXCEPT ![c].st = "offered"]
      BY Zenon
    <2>2. cl = [d \in Client |-> cl[d]]
      BY Zenon DEF ClientShape
    <2>3. /\ e = [d \in Client |-> e[d]] /\ \A d \in Client \ {c} : e[d] = cl[d]
          /\ e[c] = [st |-> "offered", id |-> cl[c].id, done |-> cl[c].done, tries |-> cl[c].tries,
                     closes |-> cl[c].closes]
      <3>1. c \in Client /\ c \in DOMAIN cl /\ DOMAIN cl = Client
        BY Zenon, <2>2
      <3>2. e = [d \in Client |-> e[d]] /\ \A d \in Client \ {c} : e[d] = cl[d]
        BY Zenon, <3>1, <2>1, <2>2
      <3>3. e[c] = [cl[c] EXCEPT !.st = "offered"]
        BY Zenon, <3>1, <2>1
      <3> QED
        BY Zenon, <3>1, <3>2, <3>3, <1>1
    <2>4. cl' = [e EXCEPT ![c].id = i]
      BY Zenon, <2>1, <2>2
    <2>5. c \in Client /\ c \in DOMAIN e /\ DOMAIN e = Client
      BY Zenon, <2>3
    <2>6. cl' = [d \in Client |-> cl'[d]] /\ \A d \in Client \ {c} : cl'[d] = cl[d]
      BY Zenon, <2>3, <2>4, <2>5
    <2>7. cl'[c] = [e[c] EXCEPT !.id = i]
      BY Zenon, <2>4, <2>5
    <2> QED
      BY ZenonT(60), <2>3, <2>6, <2>7
  <1>3. cl'[c].st = "offered" /\ cl'[c].id = i /\ cl'[c].done = cl[c].done
        /\ cl'[c].tries = cl[c].tries /\ cl'[c].closes = cl[c].closes
    BY <1>2
  <1>4. cl'[c] = [st |-> cl'[c].st, id |-> cl'[c].id, done |-> cl'[c].done,
                  tries |-> cl'[c].tries, closes |-> cl'[c].closes]
    BY Zenon, <1>2, <1>3
  <1>5. \A d \in Client : cl'[d] = [st |-> cl'[d].st, id |-> cl'[d].id, done |-> cl'[d].done,
                                    tries |-> cl'[d].tries, closes |-> cl'[d].closes]
                          /\ cl'[d].st \in ClientState
    BY Zenon, <1>1, <1>2, <1>3, <1>4 DEF ClientState
  <1> QED
    BY Zenon, <1>2, <1>3, <1>5 DEF ClientShape

\* The offer reaches its client.
LEMMA OfferArrives ==
    ASSUME LedgerInv, ClientInv, ReplyAllocate, op.result = "ok", op.live,
           ClientShape', \A d \in Client \ {op.c} : cl'[d].st = cl[d].st /\ cl'[d].id = cl[d].id,
           cl'[op.c].st = "offered", cl'[op.c].id = op.id,
           offers' = offers \cup {<<op.c, op.id>>}, issued' = issued \cup {op.id}, UNCHANGED reqs
    PROVE  ClientInv'
  <1> USE DEF ClientInv
  <1>0. PICK c, i : c = op.c /\ i = op.id
    BY Zenon
  <1>o. PICK n : n = <<c, i>>
    BY Zenon
  <1>1. /\ c \in Client /\ up = "up" /\ i \notin issued /\ i \in Id /\ mem.rec[i] = "offered" /\ i < mem.next
        /\ \A r \in reqs : r.call # "allocate" => r.id # i
        /\ cl[c].st = "asked" /\ \A r \in reqs : r.live => r.c # c
        /\ op' = Free /\ mem' = mem /\ dir' = dir /\ up' = up /\ reqs' = reqs /\ issued' = issued \cup {i}
        /\ misread' = misread
    BY Zenon, <1>0, AllocationAnswers
  <1>10. offers' = offers \cup {n} /\ n[1] = c /\ n[2] = i /\ n = <<n[1], n[2]>>
    BY Zenon, <1>0, <1>o
  <1>2. /\ ClientShape'
        /\ \A d \in Client \ {c} : cl'[d].st = cl[d].st /\ cl'[d].id = cl[d].id
        /\ cl'[c].st = "offered" /\ cl'[c].id = i
    BY Zenon, <1>0
  <1>3. Requests'
    BY Zenon, <1>1, <1>10 DEF Requests
  <1>4. Identities'
    <2>1. \A d \in Client : cl[d].id # i
      BY <1>1, MaxProjectAssumption DEF Identities, Id
    <2>2. i # 0
      BY <1>1, MaxProjectAssumption DEF Id
    <2> QED
      BY <1>1, <1>2, <2>1, <2>2 DEF Identities
  <1>5. FreshId'
    BY Zenon, <1>1 DEF FreshId
  <1>6. LiveInv'
    BY <1>1, <1>2 DEF LiveInv, Requests
  <1>7. OfferInv'
    <2>1. \A p \in offers : p[2] # i
      BY Zenon, <1>1 DEF Requests
    <2>2. \A r \in reqs : r.call \in Deciding => r.id # i
      BY Zenon, <1>1 DEF Deciding
    <2>3. \A calls, j : ~Acts(calls, j)'
      BY Zenon, <1>1 DEF Acts
    <2>4. \A p \in offers' : /\ mem'.rec[p[2]] = "offered"
                             /\ \A r \in reqs' : r.call \in Deciding => r.id # p[2]
                             /\ \A q \in offers' : q[2] = p[2] => q = p
      BY <1>1, <1>10, <2>1, <2>2 DEF OfferInv
    <2> QED
      BY Zenon, <1>1, <2>3, <2>4 DEF OfferInv
  <1>8. CloseInv'
    BY <1>1, <1>2 DEF CloseInv, Acts
  <1>9. OwnerInv'
    <2>1. \A d \in Client : cl[d].id # i
      BY <1>1, MaxProjectAssumption DEF Identities, Id
    <2>2. ASSUME NEW d \in Client, cl'[d].st \in Owning
          PROVE  cl[d].st \in Owning /\ cl'[d].st = cl[d].st /\ cl'[d].id = cl[d].id
      BY Zenon, <1>2, <2>2 DEF Owning
    <2>3. \A calls, j : ~Acts(calls, j)'
      BY Zenon, <1>1 DEF Acts
    <2>4. \A d \in Client : \A o \in offers' : o[2] = cl[d].id => o \in offers
      BY Zenon, <1>10, <2>1
    <2>5. ASSUME NEW d \in Client, cl'[d].st \in Owning
          PROVE  /\ \A r \in reqs : r.call = "ack" => r.id # cl'[d].id
                 /\ \A o \in offers' : o[2] # cl'[d].id
                 /\ \/ /\ dir[cl'[d].id].access # "root" => mem.rec[cl'[d].id] = "active"
                       /\ cl'[d].st \in {"spawned", "using"} => dir[cl'[d].id].access = "checkout"
                    \/ cl'[d].id \in misread
      <3>1. cl[d].st \in Owning /\ cl'[d].st = cl[d].st /\ cl'[d].id = cl[d].id
        BY Zenon, <2>2, <2>5
      <3>2. \A o \in offers : o[2] # cl[d].id
        BY Zenon, <3>1 DEF OwnerInv
      <3>3. \A o \in offers' : o[2] # cl'[d].id
        BY Zenon, <2>4, <3>1, <3>2
      <3> QED
        BY Zenon, <3>1, <3>3 DEF OwnerInv
    <2> QED
      BY Zenon, <1>1, <2>3, <2>5 DEF OwnerInv
  <1> QED
    BY Zenon, <1>2, <1>3, <1>4, <1>5, <1>6, <1>7, <1>8, <1>9

\* A handler takes its offer back in a request of its own.
LEMMA TakesBack ==
    ASSUME ClientInv, up = "up", NEW c \in Client, NEW i \in Id, i < mem.next,
           op' = op \/ op' = Free, UNCHANGED <<cl, issued, mem, dir, misread, up>>,
           op' # Free => ~(op.call = "allocate" /\ op.id = i /\ op.step # "reserve"),
           ~Acts({"ack", "undo", "withdraw"}, i),
           \A r \in reqs : r.call \in Deciding => r.id # i,
           offers' \subseteq offers, \A o \in offers' : o[2] # i,
           reqs' = reqs \cup {[call |-> "withdraw", c |-> c, id |-> i, live |-> FALSE]}
    PROVE  ClientInv'
  <1> USE DEF ClientInv
  <1>n. PICK n : n = [call |-> "withdraw", c |-> c, id |-> i, live |-> FALSE]
    BY Zenon
  <1>1. /\ n = [call |-> n.call, c |-> n.c, id |-> n.id, live |-> n.live]
        /\ n.call = "withdraw" /\ n.c = c /\ n.id = i /\ n.live = FALSE /\ reqs' = reqs \cup {n}
    BY Zenon, <1>n
  <1>2. ClientShape' /\ Identities'
    BY Zenon DEF ClientShape, Identities
  <1>3. Requests'
    <2>1. \A r \in reqs' : /\ r = [call |-> r.call, c |-> r.c, id |-> r.id, live |-> r.live]
                           /\ r.c \in Client /\ r.live \in BOOLEAN
                           /\ r.call \in {"allocate", "ack", "withdraw", "query", "release"}
                           /\ r.call # "allocate" => r.id \in Id /\ r.id < mem.next
                           /\ r.call \in {"ack", "query", "release"} => r.id \in issued
      BY Zenon, <1>1 DEF Requests
    <2> QED
      BY Zenon, <2>1 DEF Requests
  <1>4. FreshId'
    BY Zenon, <1>1 DEF FreshId
  <1>5. LiveInv'
    BY Zenon, <1>1 DEF LiveInv
  <1>6. OfferInv'
    <2>1. \A calls, j : Acts(calls, j)' => Acts(calls, j)
      BY Zenon DEF Acts
    <2>2. n.call \in Deciding /\ n.call # "ack"
      BY Zenon, <1>1 DEF Deciding
    <2> QED
      BY Zenon, <1>1, <2>1, <2>2 DEF OfferInv
  <1>7. CloseInv' /\ OwnerInv'
    <2>1. \A calls, j : Acts(calls, j)' => Acts(calls, j)
      BY Zenon DEF Acts
    <2> QED
      BY Zenon, <1>1, <2>1 DEF CloseInv, OwnerInv
  <1> QED
    BY Zenon, <1>2, <1>3, <1>4, <1>5, <1>6, <1>7

\* A call ends; its client, if it still waits, takes the answer.
LEMMA CallEnds ==
    ASSUME LedgerInv, ClientInv, op # Free, op.call # "reconcile", op' = Free,
           UNCHANGED <<reqs, offers, issued, mem, dir, misread, up>>,
           \/ UNCHANGED cl
           \/ /\ op.live
              /\ \E s \in ClientState :
                    /\ Moves(op.c, s) /\ s # "asked"
                    /\ s # "failed" => op.call # "allocate"
                    /\ op.call = "release" => s \in PastAck
                    /\ s = "released" => mem.rec[op.id] \in Over /\ op.call = "release"
                    /\ s \in Owning => s = "holding" /\ mem.rec[op.id] = "active" /\ op.call # "release"
    PROVE  ClientInv'
  <1> USE DEF ClientInv
  <1>0. \A calls, j : ~Acts(calls, j)'
    BY Zenon DEF Acts
  <1>1. Requests' /\ FreshId' /\ OfferInv'
    BY Zenon, <1>0 DEF Requests, FreshId, OfferInv
  <1>2. CASE UNCHANGED cl
    <2>1. ClientShape' /\ Identities' /\ LiveInv'
      BY Zenon, <1>2 DEF ClientShape, Identities, LiveInv
    <2>2. CloseInv' /\ OwnerInv'
      BY Zenon, <1>0, <1>2 DEF CloseInv, OwnerInv
    <2> QED
      BY Zenon, <1>1, <2>1, <2>2
  <1>3. CASE op.live /\ ~UNCHANGED cl
    <2>1. PICK s \in ClientState :
                    /\ Moves(op.c, s) /\ s # "asked"
                    /\ s # "failed" => op.call # "allocate"
                    /\ op.call = "release" => s \in PastAck
                    /\ s = "released" => mem.rec[op.id] \in Over /\ op.call = "release"
                    /\ s \in Owning => s = "holding" /\ mem.rec[op.id] = "active" /\ op.call # "release"
      BY Zenon, <1>3
    <2>2. PICK c, i : c = op.c /\ i = op.id
      BY Zenon
    <2>3. /\ c \in Client /\ Moves(c, s) /\ (\A r \in reqs : r.live => r.c # c)
          /\ op.call # "withdraw" /\ cl[c].st = Awaits[op.call] /\ (op.call # "allocate" => cl[c].id = i)
      BY Zenon, <1>3, <2>1, <2>2 DEF LiveInv, Requests
    <2>9. op.call \in {"allocate", "ack", "undo", "release"}
      BY Zenon, <2>3 DEF LedgerInv, OpShape, Calls
    <2>4. ClientShape'
      BY Zenon, <2>3 DEF Moves
    <2>5. Identities'
      <3>1. op.call # "allocate" => cl[c].id # 0
        <4>1. op.call \in {"ack", "undo", "release"} => cl[c].st \notin {"failed", "asked"}
          BY <2>3 DEF Awaits
        <4> QED
          BY Zenon, <2>3, <2>9, <4>1 DEF Identities
      <3> QED
        BY <2>1, <2>3, <3>1 DEF Identities, Moves
    <2>6. LiveInv'
      BY <2>3 DEF LiveInv, Moves, Requests
    <2>7. CloseInv'
      <3>1. cl[c].st \in PastAck => s \in PastAck
        BY <2>1, <2>3, <2>9 DEF Awaits, PastAck, Ended
      <3>2. \A d \in Client : cl'[d].id = cl[d].id /\ (cl[d].st \in PastAck => cl'[d].st \in PastAck)
        BY Zenon, <2>3, <3>1 DEF Moves
      <3>3. ASSUME NEW d \in Client, cl'[d].st = "released" PROVE mem.rec[cl[d].id] \in Over
        <4>1. CASE d = c
          BY Zenon, <2>1, <2>2, <2>3, <3>3, <4>1 DEF Moves
        <4>2. CASE d # c
          BY Zenon, <2>3, <3>3, <4>2 DEF Moves, CloseInv
        <4> QED
          BY Zenon, <4>1, <4>2
      <3> QED
        BY Zenon, <1>0, <3>2, <3>3 DEF CloseInv
    <2>8. OwnerInv'
      <3>1. ASSUME NEW d \in Client \ {c}, cl'[d].st \in Owning
            PROVE  cl[d].st = cl'[d].st /\ cl'[d].id = cl[d].id
        BY Zenon, <2>3 DEF Moves
      <3>2. cl'[c].st \in Owning => mem.rec[cl'[c].id] = "active" /\ cl'[c].st = "holding"
        BY <2>1, <2>2, <2>3 DEF Moves
      <3>3. \A q \in reqs : q.call = "ack" => mem.rec[q.id] = "offered"
        BY Zenon DEF OfferInv, Deciding
      <3>4. \A o \in offers : mem.rec[o[2]] = "offered"
        BY Zenon DEF OfferInv
      <3>5. ASSUME NEW d \in Client, cl'[d].st \in Owning
            PROVE  /\ \A r \in reqs : r.call = "ack" => r.id # cl'[d].id
                   /\ \A o \in offers : o[2] # cl'[d].id
                   /\ \/ /\ dir[cl'[d].id].access # "root" => mem.rec[cl'[d].id] = "active"
                         /\ cl'[d].st \in {"spawned", "using"} => dir[cl'[d].id].access = "checkout"
                      \/ cl'[d].id \in misread
        <4>1. CASE d = c
          BY ZenonT(60), <3>2, <3>3, <3>4, <3>5, <4>1
        <4>2. CASE d # c
          <5>1. cl[d].st \in Owning /\ cl'[d].st = cl[d].st /\ cl'[d].id = cl[d].id
            BY Zenon, <3>1, <3>5, <4>2
          <5> QED
            BY Zenon, <5>1 DEF OwnerInv
        <4> QED
          BY Zenon, <4>1, <4>2
      <3> QED
        BY Zenon, <1>0, <3>5 DEF OwnerInv
    <2> QED
      BY Zenon, <1>1, <2>4, <2>5, <2>6, <2>7, <2>8
  <1> QED
    BY Zenon, <1>2, <1>3

\* The answer to an allocation reaches its client as an offer.
LEMMA AllocateReplies ==
    ASSUME LedgerInv, ClientInv, ReplyAllocate
    PROVE  LedgerInv' /\ ClientInv'
  <1>0. PICK c : c = op.c
    BY Zenon
  <1>1. /\ op # Free /\ op.call = "allocate" /\ c \in Client /\ up = "up"
        /\ op.id \notin issued /\ \A r \in reqs : r.call # "allocate" => r.id # op.id
        /\ op.result = "ok" => op.id \in Id /\ op.id < mem.next
        /\ op' = Free /\ UNCHANGED <<mem, dir, misread, up>> /\ LedgerInv'
    BY ZenonT(60), <1>0, AllocationAnswers
  <1>2. CASE /\ op.result = "ok" /\ op.live /\ offers' = offers \cup {<<op.c, op.id>>}
             /\ issued' = issued \cup {op.id} /\ UNCHANGED reqs
             /\ cl' = [cl EXCEPT ![op.c].st = "offered", ![op.c].id = op.id]
    BY ZenonT(60), <1>0, <1>1, <1>2, OfferRecord, OfferArrives DEF ClientInv
  <1>3. CASE /\ op.result = "ok" /\ UNCHANGED <<cl, offers, issued>>
             /\ reqs' = reqs \cup {[call |-> "withdraw", c |-> op.c, id |-> op.id, live |-> FALSE]}
    <2>1. \A o \in offers : o[2] # op.id
      BY Zenon, <1>1 DEF ClientInv, Requests
    <2>2. ~Acts({"ack", "undo", "withdraw"}, op.id)
      BY Zenon, <1>1 DEF Acts
    <2>3. \A r \in reqs : r.call \in Deciding => r.id # op.id
      BY Zenon, <1>1 DEF Deciding
    <2> QED
      BY Zenon, <1>0, <1>1, <1>3, <2>1, <2>2, <2>3, TakesBack
  <1>4. CASE /\ UNCHANGED <<reqs, offers, issued>>
             /\ cl' = IF op.live THEN [cl EXCEPT ![op.c].st = "failed"] ELSE cl
    <2>1. op.live => Moves(c, "failed") /\ "failed" \in ClientState
      BY Zenon, <1>0, <1>1, <1>4, ClientMoves DEF ClientInv, Become, ClientState, Ended
    <2>2. "failed" \notin Owning
      BY Zenon DEF Owning
    <2> QED
      BY Zenon, <1>0, <1>1, <1>4, <2>1, <2>2, CallEnds
  <1> QED
    BY Zenon, <1>2, <1>3, <1>4 DEF ReplyAllocate, Lost

\* The answer to any other call ends it.
LEMMA Replies ==
    ASSUME LedgerInv, ClientInv, Reply
    PROVE  LedgerInv' /\ ClientInv'
  <1>0. PICK c : c = op.c
    BY Zenon
  <1>1. /\ op # Free /\ op.call # "allocate" /\ Replying /\ op' = Free
        /\ UNCHANGED <<disk, mem, dir, misread, up, todo, proc, reqs, offers, issued>>
    BY Zenon, AtStep DEF LedgerInv, Reply, At
  <1>2. c \in Client /\ op.call \in {"ack", "undo", "release"}
    BY Zenon, <1>0, <1>1 DEF Replying, ClientInv, Requests
  <1>3. CASE UNCHANGED cl
    BY Zenon, <1>1, <1>2, <1>3, CallOver, CallEnds
  <1>4. CASE op.live /\ Receive(op.c, op.call, op.result)
    <2>0. {"holding", "resolving", "released", "dropped", "closing", "lost"} \subseteq ClientState
          /\ {"released", "dropped", "closing", "lost"} \subseteq PastAck
          /\ \A s \in {"resolving", "released", "dropped", "closing", "lost"} : s \notin Owning
      BY Zenon DEF ClientState, Owning, Ended, PastAck
    <2>1. CASE op.call # "release"
      <3>1. (op.result = "ok" /\ Moves(c, "holding")) \/ Moves(c, "resolving")
        BY Zenon, <1>0, <1>2, <1>4, <2>0, <2>1, ClientMoves DEF ClientInv, Receive
      <3>2. op.result = "ok" => mem.rec[op.id] = "active"
        BY Zenon, <1>1, <1>2, <2>1 DEF Replying
      <3> QED
        BY Zenon, <1>0, <1>1, <1>2, <1>4, <2>0, <2>1, <3>1, <3>2, CallOver, CallEnds
    <2>2. CASE op.call = "release"
      <3>1. CASE op.result \in {"ok", "completed"}
        <4>1. Moves(c, "released") /\ mem.rec[op.id] \in Over
          BY Zenon, <1>0, <1>1, <1>2, <1>4, <2>0, <2>2, <3>1, ClientMoves
             DEF ClientInv, Receive, Replying, Over
        <4> QED
          BY Zenon, <1>0, <1>1, <1>2, <1>4, <2>0, <2>2, <4>1, CallOver, CallEnds
      <3>2. CASE op.result \notin {"ok", "completed"}
        <4>1. Moves(c, "dropped") \/ Moves(c, "closing") \/ Moves(c, "lost")
          <5>1. \/ Become(c, "dropped") \/ CloseFails(c)
                \/ cl' = [cl EXCEPT ![c].st = "closing", ![c].tries = @ + 1]
            BY Zenon, <1>0, <1>4, <2>2, <3>2 DEF Receive
          <5> QED
            BY Zenon, <1>2, <2>0, <5>1, ClientMoves DEF ClientInv
        <4> QED
          BY Zenon, <1>0, <1>1, <1>2, <1>4, <2>0, <2>2, <4>1, CallOver, CallEnds
      <3> QED
        BY Zenon, <3>1, <3>2
    <2> QED
      BY Zenon, <2>1, <2>2
  <1> QED
    BY Zenon, <1>3, <1>4 DEF Reply, Lost

\* An offer not acknowledged in time becomes a withdrawal.
LEMMA DeadlinePasses ==
    ASSUME LedgerInv, ClientInv, AckDeadline
    PROVE  LedgerInv' /\ ClientInv'
  <1>1. PICK o \in offers : /\ offers' = offers \ {o}
                            /\ reqs' = reqs \cup {[call |-> "withdraw", c |-> o[1], id |-> o[2], live |-> FALSE]}
    BY Zenon DEF AckDeadline
  <1>2. UNCHANGED <<disk, mem, dir, misread, up, todo, op, proc, issued, cl>> /\ up = "up"
    BY Zenon DEF AckDeadline, ClientOnly
  <1>3. o[1] \in Client /\ o[2] \in issued /\ o[2] \in Id /\ o[2] < mem.next
    BY Zenon DEF ClientInv, Requests, Identities
  <1>4. /\ ~Acts({"ack", "undo", "withdraw"}, o[2])
        /\ \A r \in reqs : r.call \in Deciding => r.id # o[2]
        /\ \A p \in offers' : p[2] # o[2]
    BY Zenon, <1>1 DEF ClientInv, OfferInv
  <1>5. op # Free => ~(op.call = "allocate" /\ op.id = o[2] /\ op.step # "reserve")
    BY Zenon, <1>3 DEF ClientInv, FreshId
  <1> QED
    BY Zenon, <1>1, <1>2, <1>3, <1>4, <1>5, LedgerSame, TakesBack

\* A step of the service, or its end, keeps what its clients rely on.
LEMMA ServiceSeen ==
    ASSUME LedgerInv, ClientInv, LedgerInv', Effect, UNCHANGED <<cl, issued>>,
           UNCHANGED <<reqs, offers>> \/ (reqs' = {} /\ offers' = {}),
           up' # "up" => reqs' = {} /\ offers' = {} /\ (op' # Free => op'.call = "reconcile"),
           up' = "up" /\ op' # Free => op'.call # "reconcile"
    PROVE  ClientInv'
  <1> USE DEF ClientInv
  <1>0. reqs' \subseteq reqs /\ offers' \subseteq offers
    BY Zenon
  <1>1. /\ op' # Free => (op # Free /\ SameCall) \/ op'.call = "reconcile"
        /\ mem.next <= mem'.next /\ \A j \in Id : Keeps(j)
    BY Zenon DEF Effect, CallEffect, SameCall
  <1>2. ASSUME NEW j
        PROVE  /\ Acts({"ack", "undo", "withdraw"}, j)' => Acts({"ack", "undo", "withdraw"}, j)
               /\ Acts({"ack", "undo"}, j)' => Acts({"ack", "undo"}, j)
               /\ Acts({"release"}, j)' => Acts({"release"}, j)
    BY Zenon, <1>1 DEF Acts, SameCall
  <1>3. ClientShape'
    BY Zenon DEF ClientShape
  <1>4. \A i \in Id : i < mem.next => i < mem'.next
    <2>1. mem.next \in Nat /\ mem'.next \in Nat
      BY MaxProjectAssumption DEF LedgerInv, LedgerRows, Ledger
    <2> QED
      BY <1>1, <2>1, MaxProjectAssumption DEF Id
  <1>5. Identities'
    BY Zenon, <1>4 DEF Identities
  <1>6. Requests'
    <2>1. \A r \in reqs' : /\ r = [call |-> r.call, c |-> r.c, id |-> r.id, live |-> r.live]
                           /\ r.c \in Client /\ r.live \in BOOLEAN
                           /\ r.call \in {"allocate", "ack", "withdraw", "query", "release"}
                           /\ r.call # "allocate" => r.id \in Id /\ r.id < mem'.next
                           /\ r.call \in {"ack", "query", "release"} => r.id \in issued
      BY Zenon, <1>0, <1>4 DEF Requests
    <2>2. op' # Free /\ op'.call # "reconcile" => op'.c \in Client /\ op'.live \in BOOLEAN
      BY Zenon, <1>1 DEF SameCall, Requests
    <2>3. op' # Free /\ op'.call \in {"ack", "undo", "release"} => op'.id \in issued
      BY Zenon, <1>1 DEF SameCall, Requests
    <2> QED
      BY Zenon, <1>0, <2>1, <2>2, <2>3 DEF Requests
  <1>7. FreshId'
    <2> SUFFICES ASSUME op' # Free, op'.call = "allocate"
                 PROVE  /\ op'.id \notin issued
                        /\ \A r \in reqs' : r.call # "allocate" => r.id # op'.id
      BY Zenon DEF FreshId
    <2>1. op # Free /\ op.call = "allocate" /\ op'.id = op.id
      BY Zenon, <1>1 DEF SameCall
    <2>2. CASE op.step # "reserve"
      BY Zenon, <1>0, <2>1, <2>2 DEF FreshId
    <2>3. CASE op.step = "reserve"
      <3>1. op.id = mem.next /\ mem.next \in Nat
        BY <2>1, <2>3, AtStep, MaxProjectAssumption DEF LedgerInv, At, Reserving, LedgerRows,
           Ledger
      <3>2. \A i \in issued : i \in Nat /\ i < mem.next
        BY MaxProjectAssumption DEF Identities, Id
      <3>3. \A r \in reqs : r.call # "allocate" => r.id \in Nat /\ r.id < mem.next
        BY MaxProjectAssumption DEF Requests, Id
      <3> QED
        BY <1>0, <2>1, <3>1, <3>2, <3>3
    <2> QED
      BY Zenon, <2>2, <2>3
  <1>8. LiveInv'
    <2>1. \A r \in reqs' : r.live => /\ r.call # "withdraw" /\ cl'[r.c].st = Awaits[r.call]
                                     /\ r.call # "allocate" => cl'[r.c].id = r.id
      BY Zenon, <1>0 DEF LiveInv
    <2>2. \A r, s \in reqs' : r.live /\ s.live /\ r.c = s.c => r = s
      BY Zenon, <1>0 DEF LiveInv
    <2>3. op' # Free /\ op'.call # "reconcile" => (op'.live =>
            /\ op'.call # "withdraw" /\ cl'[op'.c].st = Awaits[op'.call]
            /\ op'.call # "allocate" => cl'[op'.c].id = op'.id
            /\ \A r \in reqs' : r.live => r.c # op'.c)
      <3> SUFFICES ASSUME op' # Free, op'.call # "reconcile", op'.live
                   PROVE  /\ op'.call # "withdraw" /\ cl[op'.c].st = Awaits[op'.call]
                          /\ op'.call # "allocate" => cl[op'.c].id = op'.id
                          /\ \A r \in reqs' : r.live => r.c # op'.c
        BY Zenon
      <3>1. /\ op # Free /\ op.call # "reconcile" /\ op.live /\ op'.c = op.c /\ op'.id = op.id
            /\ op'.call = op.call \/ (op.call = "ack" /\ op'.call = "undo")
        BY Zenon, <1>1 DEF SameCall
      <3>2. /\ op.call # "withdraw" /\ cl[op.c].st = Awaits[op.call]
            /\ op.call # "allocate" => cl[op.c].id = op.id
            /\ \A r \in reqs : r.live => r.c # op.c
        BY Zenon, <3>1 DEF LiveInv
      <3>3. Awaits[op'.call] = Awaits[op.call]
        BY <3>1 DEF Awaits
      <3> QED
        BY Zenon, <1>0, <3>1, <3>2, <3>3
    <2> QED
      BY Zenon, <2>1, <2>2, <2>3 DEF LiveInv
  <1>9. OfferInv'
    <2>1. ASSUME NEW i \in Id, mem.rec[i] = "offered", ~Acts({"ack", "undo", "withdraw"}, i),
                 reqs' # {} \/ offers' # {}
          PROVE  mem'.rec[i] = "offered"
      <3>1. up' = "up" /\ up = "up"
        BY Zenon, <1>0, <2>1 DEF Requests
      <3>2. op # Free => op.call # "reconcile"
        BY Zenon, <3>1 DEF Requests
      <3> QED
        BY Zenon, <1>1, <2>1, <3>1, <3>2 DEF Keeps, Acts
    <2>2. \A o \in offers : o[2] \in Id
      BY Zenon DEF Requests, Identities
    <2>3. \A o \in offers' : /\ mem'.rec[o[2]] = "offered"
                             /\ \A r \in reqs' : r.call \in Deciding => r.id # o[2]
                             /\ ~Acts({"ack", "undo", "withdraw"}, o[2])'
                             /\ \A p \in offers' : p[2] = o[2] => p = o
      BY Zenon, <1>0, <1>2, <2>1, <2>2 DEF OfferInv
    <2>4. \A r \in reqs' : r.call \in Deciding =>
            /\ r.call = "ack" => mem'.rec[r.id] = "offered"
            /\ ~Acts({"ack", "undo", "withdraw"}, r.id)'
            /\ \A s \in reqs' : s.call \in Deciding /\ s.id = r.id => s = r
      BY Zenon, <1>0, <1>2, <2>1 DEF OfferInv, Requests
    <2> QED
      BY Zenon, <2>3, <2>4 DEF OfferInv
  <1>10. CloseInv'
    <2>1. ASSUME NEW c \in Client, cl[c].st = "released" PROVE mem'.rec[cl[c].id] \in Over
      <3>1. cl[c].id \in Id /\ cl[c].id < mem.next /\ mem.rec[cl[c].id] \in Over
        BY Zenon, <2>1 DEF Identities, CloseInv
      <3> QED
        BY Zenon, <1>1, <3>1 DEF Keeps
    <2> QED
      BY Zenon, <1>0, <1>2, <2>1 DEF CloseInv
  <1>11. OwnerInv'
    <2> SUFFICES ASSUME NEW c \in Client, cl[c].st \in Owning
                 PROVE  /\ \A r \in reqs' : r.call = "ack" => r.id # cl[c].id
                        /\ \A o \in offers' : o[2] # cl[c].id
                        /\ ~Acts({"ack", "undo"}, cl[c].id)'
                        /\ \/ /\ dir'[cl[c].id].access # "root" => mem'.rec[cl[c].id] = "active"
                              /\ cl[c].st \in {"spawned", "using"} => dir'[cl[c].id].access = "checkout"
                           \/ cl[c].id \in misread'
      BY Zenon DEF OwnerInv
    <2>1. PICK i : i = cl[c].id
      BY Zenon
    <2>2. /\ \A r \in reqs : r.call = "ack" => r.id # i
          /\ \A o \in offers : o[2] # i
          /\ ~Acts({"ack", "undo"}, i)
      BY Zenon, <2>1 DEF OwnerInv
    <2>3. i \in Id /\ Row(i) /\ Keeps(i) /\ ~Acts({"release"}, i)
      BY Zenon, <1>1, <2>1 DEF Identities, LedgerInv, CloseInv, Owning, PastAck, Ended
    <2>4. ASSUME i \notin misread'
          PROVE  /\ dir'[i].access # "root" => mem'.rec[i] = "active"
                 /\ cl[c].st \in {"spawned", "using"} => dir'[i].access = "checkout"
      <3>1. /\ dir[i].access # "root" => mem.rec[i] = "active"
            /\ cl[c].st \in {"spawned", "using"} => dir[i].access = "checkout"
        BY Zenon, <2>1, <2>3, <2>4 DEF OwnerInv, Keeps
      <3>2. dir[i].access # "root" => dir[i].linked /\ Applied(i)
        BY Zenon, <2>3 DEF Row
      <3>3. dir[i].access = "checkout" => VerifyRecordFD(i, "checkout")
        BY Zenon, <3>2 DEF VerifyRecordFD
      <3>4. /\ dir'[i].access # dir[i].access =>
                 dir'[i].access = "root" /\ (mem.rec[i] # "active" \/ ~VerifyRecordFD(i, "checkout"))
            /\ mem.rec[i] = "active" /\ mem'.rec[i] # "active" => dir'[i].access = "root"
        BY Zenon, <2>2, <2>3, <2>4 DEF Keeps, Acts
      <3>5. dir'[i].access # "root" => mem'.rec[i] = "active"
        BY Zenon, <3>1, <3>4
      <3>6. cl[c].st \in {"spawned", "using"} => dir'[i].access = "checkout"
        BY Zenon, <3>1, <3>3, <3>4
      <3> QED
        BY Zenon, <3>5, <3>6
    <2> QED
      BY Zenon, <1>0, <1>2, <2>1, <2>2, <2>4
  <1> QED
    BY Zenon, <1>3, <1>5, <1>6, <1>7, <1>8, <1>9, <1>10, <1>11

\* What the service does alone leaves its clients safe.
LEMMA ServiceWorks ==
    ASSUME LedgerInv, ClientInv, ServiceAlone
    PROVE  LedgerInv' /\ ClientInv'
  <1>0. UNCHANGED <<cl, reqs, offers, issued>>
    BY Zenon DEF ServiceAlone
  <1>1. LedgerInv' /\ Effect
    BY Zenon, StartStep, ReconcileStep, ServiceStepKeeps DEF ServiceAlone
  <1>2. CASE StartService \/ StartServing
    <2>1. /\ reqs = {} /\ offers = {} /\ up' \in {"starting", "up"}
          /\ up' # "up" => (op' # Free => op'.call = "reconcile")
          /\ up' = "up" => op' = Free
      <3>1. CASE StartService
        BY Zenon, <3>1 DEF StartService, ClientInv, Requests
      <3>2. CASE StartServing
        BY Zenon, <3>2 DEF StartServing, ClientInv, Requests
      <3> QED
        BY Zenon, <1>2, <3>1, <3>2
    <2> QED
      BY Zenon, <1>0, <1>1, <2>1, ServiceSeen
  <1>3. CASE Reconcile
    <2>1. up # "up" /\ up' # "up" /\ (op' # Free => op'.call = "reconcile") /\ reqs = {} /\ offers = {}
      <3>1. up = "starting" /\ op = Free /\ up' \in {up, "down"}
        BY <1>3, Zenon DEF Reconcile, ReconcileReserved, ReconcileActive, ReconcileGone,
           ReconcileInterrupted,
                    ReconcileFails, Visit
      <3> QED
        BY Zenon, <1>1, <3>1 DEF Effect, CallEffect, SameCall, ClientInv, Requests
    <2> QED
      BY Zenon, <1>0, <1>1, <2>1, ServiceSeen
  <1>4. CASE ServiceStep
    <2>1. op # Free /\ up' = up
      BY <1>4, Zenon DEF ServiceStep, Reserve, Mkdir, Prepare, Limit, Ready, Offer, Grant,
         Chown, Activate, Revoke,
                  Releasing, Remove, Unproject, Unlimit, Unlink, Complete, At, ServiceKept
    <2>2. op' = Free \/ SameCall
      BY Zenon, <1>1, <2>1 DEF Effect, CallEffect
    <2>3. /\ up # "up" => reqs = {} /\ offers = {} /\ op.call = "reconcile"
          /\ up = "up" => op.call # "reconcile"
      BY Zenon, <2>1 DEF ClientInv, Requests
    <2>4. /\ up' # "up" => reqs' = {} /\ offers' = {} /\ (op' # Free => op'.call = "reconcile")
          /\ up' = "up" /\ op' # Free => op'.call # "reconcile"
      BY Zenon, <1>0, <2>1, <2>2, <2>3 DEF SameCall
    <2> QED
      BY Zenon, <1>0, <1>1, <2>4, ServiceSeen
  <1> QED
    BY Zenon, <1>2, <1>3, <1>4 DEF ServiceAlone

\* A killed service leaves its clients safe.
LEMMA Dies ==
    ASSUME LedgerInv, ClientInv, Kill
    PROVE  LedgerInv' /\ ClientInv'
  <1>1. LedgerInv' /\ Effect
    <2>1. dir' \in [Id -> Directory] /\ \A j \in Id : AtMostRevoked(j)
      BY Zenon DEF Kill, KillService, LedgerInv, LedgerRows, AtMostRevoked
    <2> QED
      BY Zenon, <2>1, StopStep DEF Kill, KillService
  <1> QED
    BY Zenon, <1>1, ServiceSeen DEF Kill, KillService

\* A child starts, closes its files or ends.
LEMMA ChildStep ==
    ASSUME LedgerInv, NEW i \in Id, NEW v \in {"none", "runs"}, proc' = [proc EXCEPT ![i] = v],
           UNCHANGED <<disk, mem, dir, misread, todo, op>>
    PROVE  LedgerInv'
  <1>1. LedgerRows /\ Ahead /\ OpShape /\ CallInv /\ \A j \in Id : Row(j)
    BY Zenon DEF LedgerInv
  <1>2. /\ proc' \in [Id -> {"none", "runs", "open"}]
        /\ \A j \in Id : proc'[j] = "open" => proc[j] = "open"
    BY Zenon, <1>1 DEF LedgerRows
  <1>3. LedgerRows' /\ Ahead' /\ OpShape'
    BY Zenon, <1>1, <1>2 DEF LedgerRows, Ahead, ValidLedger, OpShape
  <1>4. ASSUME NEW j \in Id
        PROVE  (Bare(j) => Bare(j)') /\ (Gone(j) => Gone(j)') /\ Applied(j)' = Applied(j)
    BY Zenon, <1>2 DEF Bare, Gone, Applied
  <1>5. ASSUME NEW j \in Id PROVE Row(j)'
    BY Zenon, <1>1, <1>2, <1>4 DEF Row, Accounts
  <1>6. CallInv'
    BY Zenon, <1>1, <1>2, CallKept
  <1> QED
    BY Zenon, <1>3, <1>5, <1>6 DEF LedgerInv

\* A child writes where it can, which is where the limits count it.
LEMMA ChildWrites ==
    ASSUME LedgerInv, NEW i \in Id, Write(i)
    PROVE  LedgerInv'
  <1>1. LedgerRows /\ Ahead /\ OpShape /\ CallInv /\ \A j \in Id : Row(j)
    BY Zenon DEF LedgerInv
  <1>2. UNCHANGED <<disk, mem, todo, misread, op>>
    BY Zenon DEF Write
  <1>3. /\ proc' \in [Id -> {"none", "runs", "open"}] /\ proc'[i] = "open"
        /\ \A j \in Id \ {i} : proc'[j] = proc[j]
    BY Zenon, <1>1 DEF Write, LedgerRows
  <1>4. dir' = [dir EXCEPT ![i].full = TRUE]
    BY Zenon DEF Write
  <1>5. /\ dir' \in [Id -> Directory] /\ \A j \in Id \ {i} : dir'[j] = dir[j]
        /\ dir'[i].full /\ dir'[i].access = dir[i].access /\ dir'[i].linked = dir[i].linked
        /\ dir'[i].project = dir[i].project /\ dir'[i].limits = dir[i].limits
    BY <1>1, <1>4 DEF LedgerRows, Directory
  <1>6. dir[i].access # "root" \/ (proc[i] = "open" /\ dir[i].full)
    BY Zenon DEF Write
  <1>7. dir[i].limits /\ ~Bare(i) /\ ~Gone(i)
    BY Zenon, <1>1, <1>6 DEF Row, Bare, Gone, Applied
  <1>8. LedgerRows' /\ Ahead' /\ OpShape'
    BY Zenon, <1>1, <1>2, <1>3, <1>5 DEF LedgerRows, Ahead, ValidLedger, OpShape
  <1>9. Row(i)'
    BY Zenon, <1>1, <1>2, <1>5, <1>7 DEF Row, Accounts, Applied
  <1>10. ASSUME NEW j \in Id \ {i} PROVE Row(j)'
    <2>1. Elsewhere(j)
      BY Zenon, <1>2, <1>3, <1>5 DEF Elsewhere
    <2> QED
      BY Zenon, <1>1, <2>1, RowElsewhere
  <1>11. CallInv'
    <2>1. CASE op # Free /\ op.id = i
      <3>1. ~IsBuilding
        BY Zenon, <1>6, <2>1 DEF IsBuilding
      <3>2. IsGranting => IsGranting'
        BY Zenon, <1>2, <1>5, <2>1 DEF IsGranting, Applied
      <3>3. IsCleaning => IsCleaning'
        BY Zenon, <1>2, <1>5, <1>6, <1>7, <2>1 DEF IsCleaning
      <3> QED
        BY Zenon, <1>1, <1>2, <3>1, <3>2, <3>3 DEF CallInv, Reserving, Looking, Replying
    <2>2. CASE op = Free \/ op.id # i
      BY Zenon, <1>1, <1>2, <1>3, <1>5, <2>2, CallKept
    <2> QED
      BY Zenon, <2>1, <2>2
  <1> QED
    BY Zenon, <1>8, <1>9, <1>10, <1>11 DEF LedgerInv

\* So does what a client's Git child does.
LEMMA ChildActs ==
    ASSUME LedgerInv, ClientInv, NEW i \in Id, Write(i) \/ CloseFiles(i) \/ KillChild(i)
    PROVE  LedgerInv' /\ ClientInv'
  <1>1. LedgerInv'
    BY Zenon, ChildStep, ChildWrites DEF CloseFiles, KillChild
  <1>2. UNCHANGED <<cl, reqs, offers, issued, op, mem, misread, up>>
    BY Zenon DEF Write, CloseFiles, KillChild
  <1>3. \A j \in Id : dir'[j].access = dir[j].access
    <2>1. CASE Write(i)
      <3>1. dir' = [dir EXCEPT ![i].full = TRUE] /\ dir \in [Id -> Directory]
        BY Zenon, <2>1 DEF Write, LedgerInv, LedgerRows
      <3> QED
        BY Zenon, <3>1 DEF Directory
    <2>2. CASE CloseFiles(i) \/ KillChild(i)
      BY Zenon, <2>2 DEF CloseFiles, KillChild
    <2> QED
      BY Zenon, <2>1, <2>2
  <1> QED
    BY Zenon, <1>1, <1>2, <1>3, Quiet

\* The steps of a client.
LEMMA ClientActs ==
    ASSUME LedgerInv, ClientInv, NEW c \in Client, ClientStep(c)
    PROVE  LedgerInv' /\ ClientInv'
  <1>0. ClientShape /\ OpShape
    BY Zenon DEF LedgerInv, ClientInv
  <1>s. /\ {"failed", "resolving", "closing", "lost", "holding", "spawned", "using", "acked", "querying",
            "releasing"} \subseteq ClientState
        /\ {"closing", "lost"} \subseteq PastAck
        /\ \A s \in {"failed", "resolving", "closing", "lost"} : s \notin Owning
        /\ \A s \in {"offered", "resolving", "closing", "holding", "spawned", "using"} :
              s \notin Waiting \cup Ended
        /\ \A s \in {"offered", "resolving", "holding", "spawned", "using"} : s \notin PastAck
        /\ {"holding", "spawned", "using"} \subseteq Owning
    BY Zenon DEF ClientState, Ended, Owning, Waiting, PastAck
  <1>1. CASE CallAllocate(c)
    BY Zenon, <1>0, <1>1, Asks, LedgerSame DEF CallAllocate, ClientOnly
  <1>2. CASE SendAck(c)
    <2>0. UNCHANGED <<disk, mem, dir, misread, up, todo, op, proc, issued>> /\ cl[c].st = "offered"
      BY Zenon, <1>2 DEF SendAck, ClientOnly
    <2>1. CASE /\ <<c, cl[c].id>> \in offers /\ offers' = offers \ {<<c, cl[c].id>>}
               /\ Send(c, "ack") /\ Become(c, "acked")
      BY Zenon, <1>0, <1>s, <2>0, <2>1, ClientMoves, LedgerSame, Sends
    <2>2. CASE (Become(c, "failed") \/ Become(c, "resolving")) /\ UNCHANGED <<reqs, offers>>
      BY Zenon, <1>0, <1>s, <2>0, <2>2, ClientMoves, LedgerSame, Alone
    <2> QED
      BY Zenon, <1>2, <2>1, <2>2 DEF SendAck
  <1>3. CASE Resolve(c)
    <2>0. UNCHANGED <<disk, mem, dir, misread, up, todo, op, proc, issued, offers>> /\ cl[c].st = "resolving"
      BY Zenon, <1>3 DEF Resolve, ClientOnly
    <2>1. CASE up = "up" /\ Send(c, "query") /\ Become(c, "querying")
      BY Zenon, <1>0, <1>s, <2>0, <2>1, ClientMoves, LedgerSame, Sends
    <2>2. CASE ResolveFails(c) /\ UNCHANGED reqs
      BY Zenon, <1>0, <1>s, <2>0, <2>2, ClientMoves, LedgerSame, Alone
    <2> QED
      BY Zenon, <1>3, <2>1, <2>2 DEF Resolve
  <1>4. CASE SendRelease(c)
    <2>0. UNCHANGED <<disk, mem, dir, misread, up, todo, op, proc, issued, offers>> /\ cl[c].st = "closing"
      BY Zenon, <1>4 DEF SendRelease, ClientOnly
    <2>1. CASE up = "up" /\ Send(c, "release") /\ Become(c, "releasing")
      BY Zenon, <1>0, <1>s, <2>0, <2>1, ClientMoves, LedgerSame, Sends
    <2>2. CASE CloseFails(c) /\ UNCHANGED reqs
      BY Zenon, <1>0, <1>s, <2>0, <2>2, ClientMoves, LedgerSame, Alone
    <2> QED
      BY Zenon, <1>4, <2>1, <2>2 DEF SendRelease
  <1>5. CASE GiveUp(c)
    BY Zenon, <1>5, GivesUp
  <1>6. CASE Spawn(c)
    <2>0. UNCHANGED <<disk, mem, dir, misread, up, todo, op, reqs, offers, issued>> /\ cl[c].st = "holding"
      BY Zenon, <1>6 DEF Spawn
    <2>1. cl[c].id \in Id
      BY Zenon, <2>0 DEF ClientInv, Identities
    <2>2. CASE /\ dir[cl[c].id].access = "checkout" /\ proc' = [proc EXCEPT ![cl[c].id] = "runs"]
               /\ Become(c, "spawned")
      BY <1>0, <1>s, <2>0, <2>1, <2>2, ClientMoves, ChildStep, Alone
    <2>3. CASE BeginClose(c, 1) /\ UNCHANGED proc
      BY Zenon, <1>0, <1>s, <2>0, <2>3, ClientMoves, LedgerSame, Alone
    <2> QED
      BY Zenon, <1>6, <2>2, <2>3 DEF Spawn
  <1>7. CASE OperationEnds(c)
    <2>0. UNCHANGED <<disk, mem, dir, misread, up, todo, op, reqs, offers, issued>> /\ cl[c].st = "spawned"
          /\ proc' = [proc EXCEPT ![cl[c].id] = "none"]
      BY Zenon, <1>7 DEF OperationEnds
    <2>1. cl[c].id \in Id /\ (dir[cl[c].id].access = "checkout" \/ cl[c].id \in misread)
      BY Zenon, <1>s, <2>0 DEF ClientInv, Identities, OwnerInv
    <2>2. LedgerInv'
      BY Zenon, <2>0, <2>1, ChildStep
    <2>3. Moves(c, "holding") \/ Moves(c, "using") \/ Moves(c, "closing")
      BY Zenon, <1>0, <1>7, ClientMoves DEF OperationEnds
    <2> QED
      BY Zenon, <1>0, <1>s, <2>0, <2>1, <2>2, <2>3, Alone
  <1>8. CASE Abandon(c) \/ Built(c)
    <2>0. UNCHANGED <<disk, mem, dir, misread, up, todo, op, proc, issued, reqs, offers>>
          /\ cl[c].st \in {"spawned", "using"} /\ BeginClose(c, 1)
      BY Zenon, <1>8 DEF Abandon, Built, ClientOnly
    <2> QED
      BY Zenon, <1>0, <1>s, <2>0, ClientMoves, LedgerSame, Alone
  <1> QED
    BY <1>1, <1>2, <1>3, <1>4, <1>5, <1>6, <1>7, <1>8 DEF ClientStep

-----------------------------------------------------------------------------
(* The theorems. *)

\* The inductive invariant: what the ledger in memory and on disk says of every
\* workspace at every step of the call in progress, and what the requests,
\* offers and clients say of the ledger.
THEOREM WorkspaceInvariant == Spec => [](LedgerInv /\ ClientInv)
  <1>1. Init => LedgerInv /\ ClientInv
    <2> SUFFICES ASSUME Init PROVE LedgerInv /\ ClientInv
      BY Zenon
    <2>0. /\ disk = [next |-> 1, rec |-> [i \in Id |-> "none"]] /\ mem = disk
          /\ dir = [i \in Id |-> NoDirectory] /\ todo = {} /\ op = Free /\ up = "down"
          /\ proc = [i \in Id |-> "none"] /\ cl = [c \in Client |-> Fresh]
          /\ reqs = {} /\ offers = {} /\ issued = {}
      BY Zenon DEF Init, LedgerInit
    <2>1. LedgerRows
      BY <2>0, MaxProjectAssumption DEF LedgerRows, Ledger, RecState, Directory, NoDirectory
    <2>2. Ahead
      BY <2>0 DEF Ahead, ValidLedger
    <2>3. \A i \in Id : Row(i)
      BY Zenon, <2>0 DEF Row, Accounts, Gone, Bare, Over, NoDirectory
    <2>4. OpShape /\ CallInv
      BY Zenon, <2>0 DEF OpShape, CallInv
    <2>5. ClientShape
      BY Zenon, <2>0 DEF ClientShape, Fresh, ClientState, Ended
    <2>6. Requests /\ Identities /\ FreshId /\ LiveInv /\ OfferInv
      BY Zenon, <2>0 DEF Requests, Identities, FreshId, LiveInv, OfferInv, Fresh
    <2>7. CloseInv /\ OwnerInv
      BY Zenon, <2>0 DEF CloseInv, OwnerInv, Fresh, Acts, Owning
    <2> QED
      BY Zenon, <2>1, <2>2, <2>3, <2>4, <2>5, <2>6, <2>7 DEF LedgerInv, ClientInv
  <1>2. LedgerInv /\ ClientInv /\ [Next]_vars => (LedgerInv /\ ClientInv)'
    <2> SUFFICES ASSUME LedgerInv, ClientInv, [Next]_vars PROVE LedgerInv' /\ ClientInv'
      BY Zenon
    <2>1. CASE ServiceAlone \/ Kill
      BY Zenon, <2>1, ServiceWorks, Dies
    <2>2. CASE \E c \in Client : ClientStep(c)
      BY Zenon, <2>2, ClientActs
    <2>3. CASE \E r \in reqs : Begin(r) \/ AnswerQuery(r)
      BY Zenon, <2>3, Begins, Answers
    <2>4. CASE ReplyAllocate \/ Reply \/ AckDeadline
      BY Zenon, <2>4, AllocateReplies, Replies, DeadlinePasses
    <2>5. CASE \E i \in Id : Write(i) \/ CloseFiles(i) \/ KillChild(i)
      BY Zenon, <2>5, ChildActs
    <2>6. CASE UNCHANGED vars
      BY Zenon, <2>6, LedgerSame, Quiet DEF vars
    <2> QED
      BY Zenon, <2>1, <2>2, <2>3, <2>4, <2>5, <2>6 DEF Next
  <1> QED
    BY <1>1, <1>2, PTL DEF Spec

\* The ledger file is enough to recover from at every moment: it can be read
\* back, lies ahead of every identifier that was offered, and every workspace the
\* checkout user can reach is under quota and in the file as granting or active,
\* or as releasing if a restart could not look at it.
THEOREM LedgerIsEnough == Spec => []LedgerAccounts
  <1>1. LedgerInv /\ ClientInv => LedgerAccounts
    <2> SUFFICES ASSUME LedgerInv, ClientInv PROVE LedgerAccounts
      BY Zenon
    <2>1. ValidLedger(disk)
      BY Zenon DEF LedgerInv, Ahead
    <2>2. ASSUME NEW i \in issued PROVE i < disk.next
      <3>1. i \in Nat /\ mem.next \in Nat /\ disk.next \in Nat /\ i < mem.next /\ mem.next <= disk.next
        BY MaxProjectAssumption DEF LedgerInv, LedgerRows, Ledger, Ahead, ClientInv,
           Identities, Id
      <3> QED
        BY <3>1
    <2>3. ASSUME NEW i \in Id, dir[i].access # "root"
          PROVE  /\ Applied(i)
                 /\ \/ disk.rec[i] \in {"granting", "active"}
                    \/ disk.rec[i] = "releasing" /\ i \in misread
      BY Zenon, <2>3 DEF LedgerInv, Row, Accounts
    <2> QED
      BY Zenon, <2>1, <2>2, <2>3 DEF LedgerAccounts
  <1> QED
    BY <1>1, WorkspaceInvariant, PTL

\* What a child writes is counted against a limit until it is gone, and it is
\* gone when the client was told that its release is done.
THEOREM NothingIsUncounted == Spec => []FilesAreCounted
  <1>1. LedgerInv /\ ClientInv => FilesAreCounted
    <2> SUFFICES ASSUME LedgerInv, ClientInv PROVE FilesAreCounted
      BY Zenon
    <2>1. \A i \in Id : dir[i].full \/ proc[i] = "open" => dir[i].limits
      BY Zenon DEF LedgerInv, Row
    <2>2. ASSUME NEW c \in Client, cl[c].st = "released"
          PROVE  dir[cl[c].id] = NoDirectory /\ proc[cl[c].id] # "open"
      <3>1. PICK i : i = cl[c].id
        BY Zenon
      <3>2. i \in Id /\ mem.rec[i] \in Over
        BY Zenon, <2>2, <3>1 DEF ClientInv, Identities, CloseInv
      <3>3. Gone(i) /\ dir[i] \in Directory
        BY Zenon, <3>2 DEF LedgerInv, Row, Accounts, LedgerRows
      <3>4. dir[i] = NoDirectory
        BY Zenon, <3>3 DEF Gone, Bare, Directory, NoDirectory
      <3> QED
        BY Zenon, <3>1, <3>3, <3>4 DEF Gone, Bare
    <2> QED
      BY Zenon, <2>1, <2>2 DEF FilesAreCounted
  <1> QED
    BY <1>1, WorkspaceInvariant, PTL

\* A workspace in which Git runs, or from which an image is built, stays active
\* and usable across every kill and restart of the service in which no system
\* call failed while the restart looked at it.
THEOREM HolderIsSafe == Spec => []HolderKeepsWorkspace
  <1>1. LedgerInv /\ ClientInv => HolderKeepsWorkspace
    <2> SUFFICES ASSUME LedgerInv, ClientInv, NEW c \in Client, cl[c].st \in {"spawned", "using"},
                        cl[c].id \notin misread
                 PROVE  disk.rec[cl[c].id] = "active" /\ VerifyRecordFD(cl[c].id, "checkout")
      BY Zenon DEF HolderKeepsWorkspace
    <2>1. PICK i : i = cl[c].id
      BY Zenon
    <2>2. i \in Id /\ mem.rec[i] = "active" /\ dir[i].access = "checkout"
      BY Zenon, <2>1 DEF ClientInv, Identities, OwnerInv, Owning
    <2>3. disk.rec[i] = "active" /\ dir[i].linked /\ Applied(i)
      BY Zenon, <2>1, <2>2 DEF LedgerInv, Row
    <2> QED
      BY Zenon, <2>1, <2>2, <2>3 DEF VerifyRecordFD
  <1> QED
    BY <1>1, WorkspaceInvariant, PTL
====
