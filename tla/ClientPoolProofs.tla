----------------------------- MODULE ClientPoolProofs -----------------------------
(* Theorems about the transport and its pool, for any numbers of clients,    *)
(* processes and calls.                                                      *)
EXTENDS ClientPool, TLAPS

----------------------------------------------------------------------------
(* The strengthening. *)

\* A call that has not returned.
Begun == {"ensuring", "holding", "starting", "sent"}

\* Processes and calls that are under way know their clients.
Owned ==
  /\ \A p \in Processes : IF process[p].status = "unborn" THEN process[p].client = Null /\ process[p].asked = {}
                            ELSE process[p].client \in Clients
  /\ \A k \in Calls : call[k].at \in Begun => call[k].client \in Clients
  /\ \A c \in Clients : transport[c].process # Null => process[transport[c].process].client = c

\* Ids are given out in ascending order.
IdsAscend ==
  /\ \A c \in Clients : \A e \in transport[c].pending : e.id < transport[c].nextId
  /\ \A p \in Processes : \A m \in process[p].asked : m.id < transport[process[p].client].nextId

\* A client that is registered or stopping was created.
CreatedFirst ==
  /\ \A c \in Clients : transport[c].isStopping => transport[c].created
  /\ pool # Null => transport[pool].created

PoolInv ==
  /\ PoolTypeOK /\ Owned /\ IdsAscend /\ CreatedFirst
  /\ AnswersMatch /\ InitializedHasProcess /\ PooledIsNotStopping

----------------------------------------------------------------------------
(* What a step does to ids. *)

\* An entry was there before, or has the next id of c and the waiter w.
Known(entries, c, w) ==
  entries \cup (IF transport'[c].nextId = transport[c].nextId + 1 THEN {[id |-> transport[c].nextId, waiter |-> w]} ELSE {})

\* One waiter may be given the next id of one client.
Numbered(w) ==
  /\ \A c \in Clients :
       /\ transport'[c].nextId \in {transport[c].nextId, transport[c].nextId + 1}
       /\ transport'[c].pending \subseteq Known(transport[c].pending, c, w)
  /\ \A p \in Processes :
       /\ process'[p].client # process[p].client => process[p].asked = {}
       /\ process'[p].asked \subseteq Known(process[p].asked, process'[p].client, w)

LEMMA NumberedIds ==
  ASSUME PoolTypeOK, PoolTypeOK', Owned, Owned', IdsAscend, AnswersMatch, NEW w, Numbered(w)
  PROVE  IdsAscend' /\ AnswersMatch'
<1>1. ASSUME NEW c \in Clients, NEW e \in transport'[c].pending
      PROVE  /\ e \in transport[c].pending
                \/ (e = [id |-> transport[c].nextId, waiter |-> w] /\ transport'[c].nextId = transport[c].nextId + 1)
             /\ e.id < transport'[c].nextId
             /\ transport[c].nextId \in Nat
  <2>1. transport[c] \in Transport /\ transport'[c] \in Transport  BY DEF PoolTypeOK
  <2>2. e \in transport[c].pending
        \/ (e = [id |-> transport[c].nextId, waiter |-> w] /\ transport'[c].nextId = transport[c].nextId + 1)
    BY <1>1 DEF Numbered, Known
  <2>3. e \in Entry  BY <2>1 DEF Transport
  <2>4. e \in transport[c].pending => e.id < transport[c].nextId  BY DEF IdsAscend
  <2>5. transport'[c].nextId \in {transport[c].nextId, transport[c].nextId + 1}  BY DEF Numbered
  <2>6. transport[c].nextId \in Nat /\ e.id \in Nat  BY <2>1, <2>3 DEF Transport, Entry
  <2>7. e.id < transport'[c].nextId  BY <2>2, <2>4, <2>5, <2>6
  <2> QED BY <2>2, <2>6, <2>7
<1>2. ASSUME NEW p \in Processes, NEW m \in process'[p].asked
      PROVE  /\ process'[p].client \in Clients
             /\ \/ m \in process[p].asked /\ process'[p].client = process[p].client
                \/ m = [id |-> transport[process'[p].client].nextId, waiter |-> w]
                   /\ transport'[process'[p].client].nextId = transport[process'[p].client].nextId + 1
             /\ m.id < transport'[process'[p].client].nextId
  <2> DEFINE c == process'[p].client
  <2>1. c \in Clients  BY DEF Owned
  <2>2. \/ m \in process[p].asked /\ c = process[p].client
        \/ m = [id |-> transport[c].nextId, waiter |-> w] /\ transport'[c].nextId = transport[c].nextId + 1
    BY <1>2 DEF Numbered, Known
  <2>3. m \in Entry  BY DEF PoolTypeOK, Process
  <2>4. m \in process[p].asked => m.id < transport[process[p].client].nextId  BY DEF IdsAscend
  <2>5. transport'[c].nextId \in {transport[c].nextId, transport[c].nextId + 1}  BY <2>1 DEF Numbered
  <2>6. transport[c].nextId \in Nat /\ m.id \in Nat  BY <2>1, <2>3 DEF PoolTypeOK, Transport, Entry
  <2> HIDE DEF c
  <2>7. m.id < transport'[c].nextId  BY <2>2, <2>4, <2>5, <2>6
  <2> QED BY <2>1, <2>2, <2>7 DEF c
<1>3. IdsAscend'  BY <1>1, <1>2 DEF IdsAscend
<1>4. ASSUME NEW p \in Processes, NEW m \in process'[p].asked, NEW e \in transport'[process'[p].client].pending,
             m.id = e.id
      PROVE  m.waiter = e.waiter
  <2> DEFINE c == process'[p].client
  <2>1. c \in Clients  BY <1>2
  <2>2. \/ m \in process[p].asked /\ c = process[p].client
        \/ m = [id |-> transport[c].nextId, waiter |-> w]
    BY <1>2
  <2>3. e \in transport[c].pending \/ e = [id |-> transport[c].nextId, waiter |-> w]  BY <1>1, <2>1
  <2>4. m \in process[p].asked /\ c = process[p].client => m.id < transport[c].nextId  BY DEF IdsAscend
  <2>5. e \in transport[c].pending => e.id < transport[c].nextId  BY <2>1 DEF IdsAscend
  <2>6. m \in process[p].asked /\ c = process[p].client /\ e \in transport[c].pending => m.waiter = e.waiter
    BY <1>4 DEF AnswersMatch
  <2>7. transport[c].nextId \in Nat  BY <2>1, <1>1, <1>4
  <2> HIDE DEF c
  <2> QED BY <1>4, <2>2, <2>3, <2>4, <2>5, <2>6, <2>7
<1> QED BY <1>3, <1>4 DEF AnswersMatch

----------------------------------------------------------------------------
(* Steps on the transport of one client. *)

\* The parts of the invariant that are not about ids.
Readiness == Owned /\ CreatedFirst /\ InitializedHasProcess /\ PooledIsNotStopping

LEMMA Assembled ==
  ASSUME PoolInv, PoolTypeOK', Readiness', NEW w, Numbered(w)
  PROVE  PoolInv'
BY NumberedIds DEF PoolInv, Readiness

\* A request: well formed, and its entry is the next one.
LEMMA RequestEntry ==
  ASSUME NEW t \in Transport, NEW w \in Waiters
  PROVE  /\ WithRequest(t, w) \in Transport
         /\ WithRequest(t, w).nextId = t.nextId + 1
         /\ WithRequest(t, w).pending = t.pending \cup {[id |-> t.nextId, waiter |-> w]}
         /\ WithRequest(t, w).created = t.created /\ WithRequest(t, w).process = t.process
         /\ WithRequest(t, w).isInitialized = t.isInitialized /\ WithRequest(t, w).isStopping = t.isStopping
<1>1. [id |-> t.nextId, waiter |-> w] \in Entry  BY DEF Transport, Entry
<1>2. t.nextId + 1 \in Nat \ {0}  BY DEF Transport
<1> QED BY <1>1, <1>2 DEF WithRequest, Transport

\* Calls are told of failures, and so are starts.
LEMMA FailCallsType ==
  ASSUME PoolTypeOK, Owned, NEW lost
  PROVE  /\ FailCalls(lost) \in [Calls -> Call]
         /\ \A k \in Calls : FailCalls(lost)[k].at \in Begun => call[k].at \in Begun
         /\ \A k \in Calls : FailCalls(lost)[k].client = call[k].client
<1>1. \A k \in Calls : call[k] \in Call  BY DEF PoolTypeOK
<1> QED BY <1>1 DEF FailCalls, Call, Begun

LEMMA RejectStartsType ==
  ASSUME PoolTypeOK, NEW lost
  PROVE  /\ RejectStarts(lost) \in [Processes -> Process]
         /\ \A p \in Processes : /\ RejectStarts(lost)[p].client = process[p].client
                                 /\ RejectStarts(lost)[p].asked = process[p].asked
                                 /\ RejectStarts(lost)[p].status = process[p].status
<1>1. \A p \in Processes : process[p] \in Process  BY DEF PoolTypeOK
<1> QED BY <1>1 DEF RejectStarts, Process

\* Calls that only move on.
LEMMA CallMoves ==
  ASSUME PoolInv, call' \in [Calls -> Call], UNCHANGED <<pool, transport, process>>,
         \A k \in Calls : call'[k].at \in Begun => call'[k].client \in Clients
  PROVE  PoolInv'
<1>1. PoolTypeOK'  BY DEF PoolInv, PoolTypeOK
<1>2. Readiness'  BY DEF PoolInv, Readiness, Owned, CreatedFirst, InitializedHasProcess, PooledIsNotStopping
<1>3. Numbered(Null)  BY DEF Numbered, Known
<1> QED BY <1>1, <1>2, <1>3, Assembled

\* A start spawns a process nobody had.
LEMMA SpawnInv ==
  ASSUME PoolInv, NEW c \in Clients, NEW k \in Calls, NEW at \in {"ensuring", "starting"}, Spawn(c, k, at),
         UNCHANGED pool \/ (pool' = c /\ ~transport[c].created)
  PROVE  PoolInv'
<1>1. PICK p \in Processes, spawned \in {"failed", "running"} :
        /\ process[p].status = "unborn"
        /\ transport' = [transport EXCEPT ![c] = StartedTransport(c, p)]
        /\ process' = [process EXCEPT ![p] =
             [client |-> c, status |-> spawned,
              asked |-> IF spawned = "running" THEN {NextEntry(c, p)} ELSE {}, start |-> "pending"]]
        /\ call' = [call EXCEPT ![k] = [at |-> at, client |-> c, awaits |-> p]]
  BY DEF Spawn
<1> DEFINE t == [transport[c] EXCEPT !.created = TRUE, !.process = p, !.reader = p, !.startPromise = p]
           n == transport[c].nextId
<1>2. transport[c] \in Transport /\ process[p].client = Null /\ process[p].asked = {} /\ n \in Nat \ {0}
  BY <1>1 DEF PoolInv, PoolTypeOK, Owned, Transport
<1>3. /\ t \in Transport /\ t.nextId = n /\ t.pending = transport[c].pending
      /\ t.created /\ t.process = p
      /\ t.isInitialized = transport[c].isInitialized /\ t.isStopping = transport[c].isStopping
  BY <1>2 DEF Transport
<1>4. StartedTransport(c, p) = WithRequest(t, p)  BY DEF StartedTransport
<1>5. /\ transport' \in [Clients -> Transport]
      /\ \A d \in Clients : d # c => transport'[d] = transport[d]
      /\ transport'[c].nextId = n + 1
      /\ transport'[c].pending = transport[c].pending \cup {[id |-> n, waiter |-> p]}
      /\ transport'[c].created /\ transport'[c].process = p
      /\ transport'[c].isInitialized = transport[c].isInitialized
      /\ transport'[c].isStopping = transport[c].isStopping
  <2> HIDE DEF t
  <2>1. p \in Waiters  BY DEF Waiters
  <2>2. transport'[c] = WithRequest(t, p)  BY <1>1, <1>4 DEF PoolInv, PoolTypeOK
  <2>3. WithRequest(t, p) \in Transport  BY <1>3, <2>1, RequestEntry
  <2>4. transport' \in [Clients -> Transport] /\ \A d \in Clients : d # c => transport'[d] = transport[d]
    BY <1>1, <1>4, <2>3 DEF PoolInv, PoolTypeOK
  <2> QED BY <1>3, <2>1, <2>2, <2>4, RequestEntry
<1>6. /\ process' \in [Processes -> Process]
      /\ \A q \in Processes : q # p => process'[q] = process[q]
      /\ process'[p].client = c /\ process'[p].status # "unborn"
      /\ process'[p].asked \subseteq {[id |-> n, waiter |-> p]}
  <2>1. NextEntry(c, p) = [id |-> n, waiter |-> p] /\ NextEntry(c, p) \in Entry
    BY <1>2 DEF NextEntry, Entry, Waiters
  <2> QED BY <1>1, <2>1 DEF PoolInv, PoolTypeOK, Process
<1>7. call' \in [Calls -> Call] /\ \A x \in Calls : call'[x].at \in Begun => call'[x].client \in Clients
  BY <1>1 DEF PoolInv, PoolTypeOK, Owned, Call
<1> HIDE DEF t, n
<1>8. PoolTypeOK'  BY <1>5, <1>6, <1>7 DEF PoolInv, PoolTypeOK
<1>9. Numbered(p)
  BY <1>2, <1>5, <1>6 DEF n, Numbered, Known
<1>10. Owned'
  <2>1. \A d \in Clients : transport'[d].process # Null => process'[transport'[d].process].client = d
    <3> SUFFICES ASSUME NEW d \in Clients, transport'[d].process # Null
                 PROVE  process'[transport'[d].process].client = d
      OBVIOUS
    <3>1. CASE d = c  BY <1>5, <1>6, <3>1
    <3>2. CASE d # c
      <4>1. transport[d].process \in Processes /\ process[transport[d].process].client = d
        BY <1>5, <3>2 DEF PoolInv, PoolTypeOK, Transport, Owned
      <4>2. transport[d].process # p  BY <1>2, <4>1, Names
      <4> QED BY <1>5, <1>6, <3>2, <4>1, <4>2
    <3> QED BY <3>1, <3>2
  <2> QED BY <1>6, <1>7, <2>1 DEF PoolInv, Owned
<1>11. CreatedFirst' /\ InitializedHasProcess' /\ PooledIsNotStopping'
  BY <1>5, Names DEF PoolInv, PoolTypeOK, CreatedFirst, InitializedHasProcess, PooledIsNotStopping
<1> QED BY <1>8, <1>9, <1>10, <1>11, Assembled DEF Readiness

\* A factory that throws leaves a client without a process.
LEMMA SpawnThrowsInv ==
  ASSUME PoolInv, NEW c \in Clients, NEW k \in Calls, SpawnThrows(c, k),
         UNCHANGED pool \/ (pool' = c /\ ~transport[c].created)
  PROVE  PoolInv'
<1>1. transport[c] \in Transport  BY DEF PoolInv, PoolTypeOK
<1>2. /\ transport' \in [Clients -> Transport]
      /\ \A d \in Clients : d # c => transport'[d] = transport[d]
      /\ transport'[c].created
      /\ transport'[c].nextId = transport[c].nextId /\ transport'[c].pending = transport[c].pending
      /\ transport'[c].process = transport[c].process
      /\ transport'[c].isInitialized = transport[c].isInitialized
      /\ transport'[c].isStopping = transport[c].isStopping
  <2>1. transport' = [transport EXCEPT ![c] = [transport[c] EXCEPT !.created = TRUE, !.startPromise = Thrown]]
    BY DEF SpawnThrows, PoolInv, PoolTypeOK
  <2>2. [transport[c] EXCEPT !.created = TRUE, !.startPromise = Thrown] \in Transport
    BY <1>1 DEF Transport
  <2> QED BY <1>1, <2>1, <2>2 DEF PoolInv, PoolTypeOK, Transport
<1>3. call' \in [Calls -> Call] /\ \A x \in Calls : call'[x].at \in Begun => call'[x].client \in Clients
  BY DEF SpawnThrows, PoolInv, PoolTypeOK, Owned, Call
<1>4. PoolTypeOK'  BY <1>2, <1>3 DEF SpawnThrows, PoolInv, PoolTypeOK
<1>5. Numbered(Null)  BY <1>2 DEF SpawnThrows, Numbered, Known
<1>6. Owned'  BY <1>2, <1>3 DEF SpawnThrows, PoolInv, Owned
<1>7. CreatedFirst' /\ InitializedHasProcess' /\ PooledIsNotStopping'
  BY <1>2, Names DEF PoolInv, PoolTypeOK, CreatedFirst, InitializedHasProcess, PooledIsNotStopping
<1> QED BY <1>4, <1>5, <1>6, <1>7, Assembled DEF Readiness

LEMMA JoinStartInv ==
  ASSUME PoolInv, NEW c \in Clients, NEW k \in Calls, JoinStart(c, k, "starting"), UNCHANGED pool
  PROVE  PoolInv'
<1>1. transport[c].startPromise \in Processes \cup {Thrown}
  BY DEF JoinStart, PoolInv, PoolTypeOK, Transport
<1>2. call' \in [Calls -> Call] /\ \A x \in Calls : call'[x].at \in Begun => call'[x].client \in Clients
  BY <1>1 DEF JoinStart, PoolInv, PoolTypeOK, Owned, Call
<1> QED BY <1>2, CallMoves DEF JoinStart

\* A request that is sent: to the client's own process.
LEMMA SendInv ==
  ASSUME PoolInv, NEW c \in Clients, NEW k \in Calls, Send(k, c), call[k].client \in Clients, UNCHANGED pool
  PROVE  PoolInv'
<1>1. /\ call' \in [Calls -> Call]
      /\ \A x \in Calls : call'[x].at \in Begun => call'[x].client \in Clients
  <2>1. call[k] \in Call /\ \A x \in Calls : call[x].at \in Begun => call[x].client \in Clients
    BY DEF PoolInv, PoolTypeOK, Owned
  <2>2. \/ call' = [call EXCEPT ![k] = [call[k] EXCEPT !.at = "failed", !.awaits = Null]]
        \/ call' = [call EXCEPT ![k] = [call[k] EXCEPT !.at = "sent", !.awaits = Null]]
    BY DEF Send, PoolInv, PoolTypeOK
  <2>3. /\ [call[k] EXCEPT !.at = "failed", !.awaits = Null] \in Call
        /\ [call[k] EXCEPT !.at = "sent", !.awaits = Null] \in Call
        /\ [call[k] EXCEPT !.at = "failed", !.awaits = Null].client \in Clients
        /\ [call[k] EXCEPT !.at = "sent", !.awaits = Null].client \in Clients
    BY <2>1 DEF Call
  <2> QED BY <2>1, <2>2, <2>3 DEF PoolInv, PoolTypeOK
<1>2. CASE transport[c].process = Null
  BY <1>1, <1>2, CallMoves DEF Send
<1>3. CASE transport[c].process # Null
  <2> DEFINE p == transport[c].process
             n == transport[c].nextId
             entry == [id |-> n, waiter |-> k]
  <2>1. p \in Processes /\ process[p].client = c /\ transport[c] \in Transport /\ n \in Nat \ {0} /\ k \in Waiters
    BY <1>3 DEF PoolInv, PoolTypeOK, Transport, Owned, Waiters
  <2>2. /\ transport' \in [Clients -> Transport]
        /\ \A d \in Clients : d # c => transport'[d] = transport[d]
        /\ transport'[c].nextId = n + 1 /\ transport'[c].pending = transport[c].pending \cup {entry}
        /\ transport'[c].created = transport[c].created /\ transport'[c].process = p
        /\ transport'[c].isInitialized = transport[c].isInitialized
        /\ transport'[c].isStopping = transport[c].isStopping
    <3>1. transport' = [transport EXCEPT ![c] = WithRequest(transport[c], k)]  BY <1>3 DEF Send
    <3>2. WithRequest(transport[c], k) \in Transport  BY <2>1, RequestEntry
    <3>3. /\ transport' \in [Clients -> Transport] /\ transport'[c] = WithRequest(transport[c], k)
          /\ \A d \in Clients : d # c => transport'[d] = transport[d]
      BY <3>1, <3>2 DEF PoolInv, PoolTypeOK
    <3> QED BY <2>1, <3>3, RequestEntry
  <2>3. /\ process' \in [Processes -> Process]
        /\ \A q \in Processes : /\ process'[q].client = process[q].client
                                /\ process'[q].status = process[q].status
                                /\ q # p => process'[q].asked = process[q].asked
        /\ process'[p].asked \subseteq process[p].asked \cup {entry}
        /\ process[p].status = "unborn" => process'[p].asked = process[p].asked
    <3>1. process' = [process EXCEPT ![p] = [process[p] EXCEPT !.asked =
                        IF process[p].status = "running" THEN process[p].asked \cup {NextEntry(c, k)} ELSE process[p].asked]]
      BY <1>3 DEF Send
    <3>2. NextEntry(c, k) = entry /\ entry \in Entry  BY <2>1 DEF NextEntry, Entry
    <3>3. process[p] \in Process  BY <2>1 DEF PoolInv, PoolTypeOK
    <3> QED BY <2>1, <3>1, <3>2, <3>3 DEF PoolInv, PoolTypeOK, Process
  <2>4. PoolTypeOK'  BY <1>1, <2>2, <2>3 DEF PoolInv, PoolTypeOK
  <2>5. Numbered(k)
    <3>1. \A d \in Clients :
            /\ transport'[d].nextId \in {transport[d].nextId, transport[d].nextId + 1}
            /\ transport'[d].pending \subseteq Known(transport[d].pending, d, k)
      BY <2>2 DEF Known
    <3>2. \A q \in Processes : process'[q].asked \subseteq Known(process[q].asked, process'[q].client, k)
      BY <2>1, <2>2, <2>3 DEF Known
    <3> QED BY <2>3, <3>1, <3>2 DEF Numbered
  <2>6. Owned'
    <3>1. \A d \in Clients : transport'[d].process = transport[d].process  BY <2>2
    <3>2. \A q \in Processes : process[q].status = "unborn" => process'[q].asked = process[q].asked  BY <2>3
    <3>3. \A d \in Clients : transport[d].process \in Processes \cup {Null}  BY DEF PoolInv, PoolTypeOK, Transport
    <3> QED BY <1>1, <2>3, <3>1, <3>2, <3>3 DEF PoolInv, Owned
  <2>7. CreatedFirst' /\ InitializedHasProcess' /\ PooledIsNotStopping'
    BY <2>2 DEF PoolInv, PoolTypeOK, CreatedFirst, InitializedHasProcess, PooledIsNotStopping
  <2> QED BY <2>4, <2>5, <2>6, <2>7, Assembled DEF Readiness
<1> QED BY <1>2, <1>3

----------------------------------------------------------------------------
(* Steps that take away. *)

\* Nothing is born or asked; a client is stopped only when it leaves the pool.
Shrinks ==
  /\ \A c \in Clients :
       /\ transport'[c].nextId = transport[c].nextId
       /\ transport'[c].pending \subseteq transport[c].pending
       /\ transport'[c].created = transport[c].created
       /\ transport'[c].process \in {transport[c].process, Null}
       /\ transport'[c].isStopping => transport[c].isStopping \/ (c = pool /\ pool' = Null)
       /\ transport'[c].isInitialized => transport'[c].process # Null
  /\ \A p \in Processes :
       /\ process'[p].client = process[p].client
       /\ process'[p].asked \subseteq process[p].asked
       /\ process'[p].status = "unborn" <=> process[p].status = "unborn"
  /\ \A k \in Calls : call'[k].client = call[k].client /\ (call'[k].at \in Begun => call[k].at \in Begun)
  /\ pool' \in {pool, Null}

LEMMA ShrinksInv ==
  ASSUME PoolInv, PoolTypeOK', Shrinks
  PROVE  PoolInv'
<1>1. Numbered(Null)  BY DEF Shrinks, Numbered, Known
<1>2. Owned'
  <2>1. \A c \in Clients : transport[c].process \in Processes \cup {Null}  BY DEF PoolInv, PoolTypeOK, Transport
  <2>2. \A c \in Clients : transport'[c].process # Null => process'[transport'[c].process].client = c
    BY <2>1 DEF PoolInv, Owned, Shrinks
  <2>3. \A p \in Processes : IF process'[p].status = "unborn" THEN process'[p].client = Null /\ process'[p].asked = {}
                               ELSE process'[p].client \in Clients
    BY DEF PoolInv, Owned, Shrinks
  <2>4. \A k \in Calls : call'[k].at \in Begun => call'[k].client \in Clients
    BY DEF PoolInv, Owned, Shrinks
  <2> QED BY <2>2, <2>3, <2>4 DEF Owned
<1>3. pool \in Clients \cup {Null}  BY DEF PoolInv, PoolTypeOK
<1>4. CreatedFirst'  BY <1>3, Names DEF PoolInv, CreatedFirst, Shrinks
<1>5. InitializedHasProcess'  BY DEF InitializedHasProcess, Shrinks
<1>6. PooledIsNotStopping'  BY <1>3 DEF PoolInv, PooledIsNotStopping, Shrinks
<1> QED BY <1>1, <1>2, <1>4, <1>5, <1>6, Assembled DEF Readiness

\* The client of a line, of an event or of a timer.
LEMMA BornProcess ==
  ASSUME PoolInv, NEW p \in Processes, process[p].status # "unborn"
  PROVE  process[p].client \in Clients /\ process[p] \in Process /\ transport[process[p].client] \in Transport
BY DEF PoolInv, PoolTypeOK, Owned

LEMMA DeliverInv ==
  ASSUME PoolInv, NEW p \in Processes, Deliver(p)
  PROVE  PoolInv'
<1> DEFINE c == process[p].client
<1>1. c \in Clients /\ transport[c] \in Transport  BY BornProcess DEF Deliver
<1>2. PICK m \in process[p].asked, ok \in BOOLEAN :
        LET answered == {e \in transport[c].pending : e.id = m.id}
            starts == {e.waiter : e \in answered} \cap Processes
            isReady == BecomesReady(c, ok)
        IN  /\ transport' = [transport EXCEPT ![c] = [transport[c] EXCEPT
                 !.pending = @ \ answered, !.isInitialized = @ \/ (starts # {} /\ isReady)]]
            /\ process' = [q \in Processes |->
                 [process[q] EXCEPT !.asked = IF q = p THEN @ \ {m} ELSE @,
                                    !.start = IF q \notin starts THEN @
                                              ELSE IF isReady THEN "resolved" ELSE "rejected"]]
            /\ call' = [k \in Calls |->
                 IF \E e \in answered : e.waiter = k
                   THEN [call[k] EXCEPT !.at = IF ok THEN "done" ELSE "failed"]
                   ELSE call[k]]
  BY DEF Deliver
<1> DEFINE answered == {e \in transport[c].pending : e.id = m.id}
           starts == {e.waiter : e \in answered} \cap Processes
           isReady == BecomesReady(c, ok)
           becomes == transport[c].isInitialized \/ (starts # {} /\ isReady)
<1>3. /\ transport' \in [Clients -> Transport]
      /\ \A d \in Clients : d # c => transport'[d] = transport[d]
      /\ transport'[c] = [transport[c] EXCEPT !.pending = @ \ answered, !.isInitialized = becomes]
  <2>1. [transport[c] EXCEPT !.pending = @ \ answered, !.isInitialized = becomes] \in Transport
    BY <1>1 DEF Transport
  <2> QED BY <1>1, <1>2, <2>1 DEF PoolInv, PoolTypeOK
<1>4. becomes => transport[c].process # Null
  BY <1>1 DEF PoolInv, InitializedHasProcess, BecomesReady
<1> HIDE DEF answered, becomes
<1>5. \A d \in Clients :
       /\ transport'[d].nextId = transport[d].nextId
       /\ transport'[d].pending \subseteq transport[d].pending
       /\ transport'[d].created = transport[d].created
       /\ transport'[d].process = transport[d].process
       /\ transport'[d].isStopping = transport[d].isStopping
       /\ transport'[d].isInitialized => transport'[d].process # Null
  <2>1. transport'[c].isInitialized = becomes /\ transport'[c].process = transport[c].process
    BY <1>1, <1>3 DEF Transport
  <2> QED BY <1>1, <1>3, <1>4, <2>1 DEF PoolInv, InitializedHasProcess, Transport
<1>6. process' \in [Processes -> Process]
      /\ \A q \in Processes : /\ process'[q].client = process[q].client
                              /\ process'[q].asked \subseteq process[q].asked
                              /\ process'[q].status = process[q].status
  <2>1. \A q \in Processes : process[q] \in Process  BY DEF PoolInv, PoolTypeOK
  <2> HIDE DEF starts, isReady
  <2>2. process' = [q \in Processes |->
          [process[q] EXCEPT !.asked = IF q = p THEN @ \ {m} ELSE @,
                             !.start = IF q \notin starts THEN @ ELSE IF isReady THEN "resolved" ELSE "rejected"]]
    BY <1>2 DEF starts, isReady, answered
  <2> QED BY <2>1, <2>2 DEF Process
<1>7. call' \in [Calls -> Call]
      /\ \A k \in Calls : call'[k].client = call[k].client /\ (call'[k].at \in Begun => call[k].at \in Begun)
  <2>1. \A k \in Calls : call[k] \in Call  BY DEF PoolInv, PoolTypeOK
  <2> QED BY <1>2, <2>1 DEF Call, Begun
<1>8. UNCHANGED pool  BY DEF Deliver
<1>9. PoolTypeOK'  BY <1>3, <1>6, <1>7, <1>8 DEF PoolInv, PoolTypeOK
<1>10. Shrinks  BY <1>5, <1>6, <1>7, <1>8 DEF Shrinks
<1> QED BY <1>9, <1>10, ShrinksInv

\* What a rejection leaves of the starts and of the calls.
LEMMA RejectedShrinks ==
  ASSUME PoolInv, NEW lost, process' = RejectStarts(lost), call' = FailCalls(lost)
  PROVE  /\ process' \in [Processes -> Process] /\ call' \in [Calls -> Call]
         /\ \A p \in Processes : /\ process'[p].client = process[p].client
                                 /\ process'[p].asked \subseteq process[p].asked
                                 /\ process'[p].status = process[p].status
         /\ \A k \in Calls : call'[k].client = call[k].client /\ (call'[k].at \in Begun => call[k].at \in Begun)
BY FailCallsType, RejectStartsType DEF PoolInv

LEMMA TimeoutInv ==
  ASSUME PoolInv, NEW c \in Clients, NEW waiter \in Waiters, Timeout(c, waiter)
  PROVE  PoolInv'
<1>1. transport[c] \in Transport  BY DEF PoolInv, PoolTypeOK
<1>2. transport' = [transport EXCEPT ![c] = [transport[c] EXCEPT
                      !.pending = {e \in transport[c].pending : e.waiter # waiter}]]
      /\ process' = RejectStarts({waiter}) /\ call' = FailCalls({waiter}) /\ UNCHANGED pool
  BY DEF Timeout
<1>3. transport' \in [Clients -> Transport]
      /\ \A d \in Clients :
           /\ transport'[d].nextId = transport[d].nextId
           /\ transport'[d].pending \subseteq transport[d].pending
           /\ transport'[d].created = transport[d].created
           /\ transport'[d].process = transport[d].process
           /\ transport'[d].isStopping = transport[d].isStopping
           /\ transport'[d].isInitialized = transport[d].isInitialized
  <2>1. [transport[c] EXCEPT !.pending = {e \in transport[c].pending : e.waiter # waiter}] \in Transport
    BY <1>1 DEF Transport
  <2> QED BY <1>1, <1>2, <2>1 DEF PoolInv, PoolTypeOK, Transport
<1>4. PoolTypeOK'  BY <1>2, <1>3, RejectedShrinks DEF PoolInv, PoolTypeOK
<1>5. Shrinks  BY <1>2, <1>3, RejectedShrinks DEF Shrinks, PoolInv, InitializedHasProcess
<1> QED BY <1>4, <1>5, ShrinksInv

LEMMA ErrorEventInv ==
  ASSUME PoolInv, NEW p \in Processes, ErrorEvent(p)
  PROVE  PoolInv'
<1> DEFINE c == process[p].client
<1>1. c \in Clients /\ transport[c] \in Transport /\ process[p] \in Process  BY BornProcess DEF ErrorEvent
<1>2. CASE transport[c].isStopping
  <2>1. process' = [process EXCEPT ![p] = [process[p] EXCEPT !.status = "exited"]]
        /\ UNCHANGED <<transport, call, pool>> /\ process[p].status = "failed"
    BY <1>2 DEF ErrorEvent
  <2>2. [process[p] EXCEPT !.status = "exited"] \in Process  BY <1>1 DEF Process
  <2>3. PoolTypeOK'  BY <2>1, <2>2 DEF PoolInv, PoolTypeOK
  <2>4. Shrinks  BY <1>1, <2>1 DEF Shrinks, PoolInv, PoolTypeOK, InitializedHasProcess, Process
  <2> QED BY <2>3, <2>4, ShrinksInv
<1>3. CASE ~transport[c].isStopping
  <2> DEFINE lost == PendingOf(c)
             r == RejectStarts(lost)
  <2>1. /\ transport' = [transport EXCEPT ![c] = [transport[c] EXCEPT !.pending = {}, !.startPromise = Null]]
        /\ process' = [r EXCEPT ![p] = [r[p] EXCEPT !.status = "exited"]]
        /\ call' = FailCalls(lost) /\ UNCHANGED pool /\ process[p].status = "failed"
    BY <1>1, <1>3 DEF ErrorEvent, PoolInv, PoolTypeOK
  <2>2. /\ r \in [Processes -> Process]
        /\ \A q \in Processes : r[q].client = process[q].client /\ r[q].asked = process[q].asked
                                /\ r[q].status = process[q].status
    BY RejectStartsType DEF PoolInv
  <2> HIDE DEF r
  <2>3. /\ process' \in [Processes -> Process]
        /\ \A q \in Processes : /\ process'[q].client = process[q].client
                                /\ process'[q].asked = process[q].asked
                                /\ process'[q].status = "unborn" <=> process[q].status = "unborn"
    <3>1. [r[p] EXCEPT !.status = "exited"] \in Process  BY <2>2 DEF Process
    <3> QED BY <2>1, <2>2, <3>1 DEF Process
  <2>4. transport' \in [Clients -> Transport]
        /\ \A d \in Clients :
             /\ transport'[d].nextId = transport[d].nextId
             /\ transport'[d].pending \subseteq transport[d].pending
             /\ transport'[d].created = transport[d].created
             /\ transport'[d].process = transport[d].process
             /\ transport'[d].isStopping = transport[d].isStopping
             /\ transport'[d].isInitialized = transport[d].isInitialized
    <3>1. [transport[c] EXCEPT !.pending = {}, !.startPromise = Null] \in Transport  BY <1>1 DEF Transport
    <3> QED BY <1>1, <2>1, <3>1 DEF PoolInv, PoolTypeOK, Transport
  <2>5. call' \in [Calls -> Call]
        /\ \A k \in Calls : call'[k].client = call[k].client /\ (call'[k].at \in Begun => call[k].at \in Begun)
    BY <2>1, FailCallsType DEF PoolInv
  <2>6. PoolTypeOK'  BY <2>1, <2>3, <2>4, <2>5 DEF PoolInv, PoolTypeOK
  <2>7. Shrinks  BY <2>1, <2>3, <2>4, <2>5 DEF Shrinks, PoolInv, InitializedHasProcess
  <2> QED BY <2>6, <2>7, ShrinksInv
<1> QED BY <1>2, <1>3

\* A close clears the transport of whichever process it has by now.
LEMMA CloseEventInv ==
  ASSUME PoolInv, NEW p \in Processes, CloseEvent(p)
  PROVE  PoolInv'
<1> DEFINE c == process[p].client
           lost == IF transport[c].isStopping THEN {} ELSE PendingOf(c)
           r == RejectStarts(lost)
           t == [transport[c] EXCEPT !.isStopping = FALSE, !.isInitialized = FALSE, !.startPromise = Null,
                                     !.process = Null]
           kept == IF transport[c].isStopping THEN transport[c].pending ELSE {}
<1>1. c \in Clients /\ transport[c] \in Transport  BY BornProcess DEF CloseEvent
<1>2. /\ transport' = [transport EXCEPT ![c] = [t EXCEPT !.pending = kept]]
      /\ process' = [r EXCEPT ![p] = [r[p] EXCEPT !.status = "closed", !.asked = {}]]
      /\ call' = FailCalls(lost) /\ pool' \in {pool, Null} /\ process[p].status = "exited"
  <2>1. /\ t \in Transport /\ t.pending = transport[c].pending  BY <1>1 DEF Transport
  <2>2. Cleared(transport[c]) = t  BY DEF Cleared
  <2>3. [Cleared(transport[c]) EXCEPT !.pending = IF transport[c].isStopping THEN @ ELSE {}]
          = [t EXCEPT !.pending = kept]
    BY <2>1, <2>2
  <2>4. r \in [Processes -> Process]  BY RejectStartsType DEF PoolInv
  <2> HIDE DEF t, kept, r
  <2>5. transport' = [transport EXCEPT ![c] = [t EXCEPT !.pending = kept]]  BY <2>3 DEF CloseEvent
  <2>6. process' = [r EXCEPT ![p] = [r[p] EXCEPT !.status = "closed", !.asked = {}]]
    BY <2>4 DEF CloseEvent, r
  <2> QED BY <2>5, <2>6 DEF CloseEvent, DeleteClient
<1>3. /\ r \in [Processes -> Process]
      /\ \A q \in Processes : r[q].client = process[q].client /\ r[q].asked = process[q].asked
                              /\ r[q].status = process[q].status
  BY RejectStartsType DEF PoolInv
<1>4. call' \in [Calls -> Call]
      /\ \A k \in Calls : call'[k].client = call[k].client /\ (call'[k].at \in Begun => call[k].at \in Begun)
  BY <1>2, FailCallsType DEF PoolInv
<1>5. transport' \in [Clients -> Transport]
      /\ \A d \in Clients :
           /\ transport'[d].nextId = transport[d].nextId
           /\ transport'[d].pending \subseteq transport[d].pending
           /\ transport'[d].created = transport[d].created
           /\ transport'[d].process \in {transport[d].process, Null}
           /\ transport'[d].isStopping => transport[d].isStopping
           /\ transport'[d].isInitialized => transport'[d].process # Null
  <2>1. [t EXCEPT !.pending = kept] \in Transport  BY <1>1 DEF Transport
  <2>2. LET u == [t EXCEPT !.pending = kept] IN
          /\ u.nextId = transport[c].nextId /\ u.pending \subseteq transport[c].pending
          /\ u.created = transport[c].created /\ u.process = Null
          /\ u.isStopping = FALSE /\ u.isInitialized = FALSE
    BY <1>1 DEF Transport
  <2> HIDE DEF t, kept
  <2> QED BY <1>1, <1>2, <2>1, <2>2 DEF PoolInv, PoolTypeOK, InitializedHasProcess
<1> HIDE DEF r
<1>6. /\ process' \in [Processes -> Process]
      /\ \A q \in Processes : /\ process'[q].client = process[q].client
                              /\ process'[q].asked \subseteq process[q].asked
                              /\ process'[q].status = "unborn" <=> process[q].status = "unborn"
  <2>1. [r[p] EXCEPT !.status = "closed", !.asked = {}] \in Process  BY <1>3 DEF Process
  <2> QED BY <1>2, <1>3, <2>1 DEF Process
<1>7. PoolTypeOK'  BY <1>2, <1>4, <1>5, <1>6 DEF PoolInv, PoolTypeOK
<1>8. Shrinks  BY <1>2, <1>4, <1>5, <1>6 DEF Shrinks
<1> QED BY <1>7, <1>8, ShrinksInv

LEMMA ExitInv ==
  ASSUME PoolInv, NEW p \in Processes, Exit(p)
  PROVE  PoolInv'
<1>1. process' = [process EXCEPT ![p] = [process[p] EXCEPT !.status = "exited"]]
      /\ UNCHANGED <<pool, transport, call>> /\ process[p].status = "running" /\ process[p] \in Process
  BY DEF Exit, PoolInv, PoolTypeOK
<1>2. [process[p] EXCEPT !.status = "exited"] \in Process  BY <1>1 DEF Process
<1>3. PoolTypeOK'  BY <1>1, <1>2 DEF PoolInv, PoolTypeOK
<1>4. Shrinks  BY <1>1 DEF Shrinks, PoolInv, PoolTypeOK, InitializedHasProcess, Process
<1> QED BY <1>3, <1>4, ShrinksInv

\* A stop leaves the pool without the client.
LEMMA StopClientInv ==
  ASSUME PoolInv, StopClient
  PROVE  PoolInv'
<1> DEFINE t == transport[pool]
           stopped == [t EXCEPT !.isStopping = t.process # Null, !.pending = {}, !.isInitialized = FALSE,
                                !.startPromise = Null, !.reader = Null, !.process = Null]
           lost == PendingOf(pool)
           r == RejectStarts(lost)
<1>1. pool \in Clients /\ t \in Transport /\ pool' = Null
  BY DEF StopClient, DeleteClient, PoolInv, PoolTypeOK
<1>2. /\ transport' = [transport EXCEPT ![pool] = stopped]
      /\ process' = [p \in Processes |-> [r[p] EXCEPT !.asked = IF p = t.reader THEN {} ELSE @]]
      /\ call' = FailCalls(lost)
  BY DEF StopClient
<1>3. transport' \in [Clients -> Transport]
      /\ \A d \in Clients :
           /\ transport'[d].nextId = transport[d].nextId
           /\ transport'[d].pending \subseteq transport[d].pending
           /\ transport'[d].created = transport[d].created
           /\ transport'[d].process \in {transport[d].process, Null}
           /\ transport'[d].isStopping => transport[d].isStopping \/ (d = pool /\ pool' = Null)
           /\ transport'[d].isInitialized => transport'[d].process # Null
  <2>1. /\ stopped \in Transport
        /\ stopped.nextId = t.nextId /\ stopped.pending = {} /\ stopped.created = t.created
        /\ stopped.process = Null /\ stopped.isInitialized = FALSE
    BY <1>1 DEF Transport
  <2> HIDE DEF stopped
  <2> QED BY <1>1, <1>2, <2>1 DEF PoolInv, PoolTypeOK, InitializedHasProcess
<1>4. process' \in [Processes -> Process]
      /\ \A p \in Processes : /\ process'[p].client = process[p].client
                              /\ process'[p].asked \subseteq process[p].asked
                              /\ process'[p].status = process[p].status
  <2>1. /\ r \in [Processes -> Process]
        /\ \A p \in Processes : r[p].client = process[p].client /\ r[p].asked = process[p].asked
                                /\ r[p].status = process[p].status
    BY RejectStartsType DEF PoolInv
  <2> HIDE DEF r
  <2> QED BY <1>2, <2>1 DEF Process
<1>5. call' \in [Calls -> Call]
      /\ \A k \in Calls : call'[k].client = call[k].client /\ (call'[k].at \in Begun => call[k].at \in Begun)
  BY <1>2, FailCallsType DEF PoolInv
<1>6. PoolTypeOK'  BY <1>1, <1>3, <1>4, <1>5 DEF PoolTypeOK
<1>7. Shrinks  BY <1>1, <1>3, <1>4, <1>5 DEF Shrinks
<1> QED BY <1>6, <1>7, ShrinksInv

LEMMA CallInv ==
  ASSUME PoolInv, NEW k \in Calls, EnsureNew(k) \/ EnsureExisting(k) \/ Request(k) \/ Continue(k)
  PROVE  PoolInv'
<1> DEFINE c == call[k].client
<1>1. CASE EnsureNew(k)
  <2>1. PICK d \in Clients : ~transport[d].created /\ pool' = d /\ (Spawn(d, k, "ensuring") \/ SpawnThrows(d, k))
    BY <1>1 DEF EnsureNew
  <2> QED BY <2>1, SpawnInv, SpawnThrowsInv
<1>2. CASE EnsureExisting(k)
  <2>1. pool \in Clients  BY <1>2 DEF EnsureExisting, PoolInv, PoolTypeOK
  <2>2. call' \in [Calls -> Call] /\ \A x \in Calls : call'[x].at \in Begun => call'[x].client \in Clients
    BY <1>2, <2>1 DEF EnsureExisting, PoolInv, PoolTypeOK, Owned, Call
  <2> QED BY <1>2, <2>2, CallMoves DEF EnsureExisting
<1>3. CASE Request(k)
  <2>1. c \in Clients  BY <1>3 DEF Request, PoolInv, Owned, Begun
  <2>2. Send(k, c) \/ Spawn(c, k, "starting") \/ SpawnThrows(c, k) \/ JoinStart(c, k, "starting")
    BY <1>3 DEF Request
  <2>3. UNCHANGED pool  BY <1>3 DEF Request
  <2> QED BY <2>1, <2>2, <2>3, SendInv, SpawnInv, SpawnThrowsInv, JoinStartInv
<1>4. CASE Continue(k)
  <2>1. c \in Clients /\ call[k] \in Call
    BY <1>4 DEF Continue, Waiting, PoolInv, PoolTypeOK, Owned, Begun
  <2>2. UNCHANGED pool  BY <1>4 DEF Continue
  <2>3. CASE Send(k, c)  BY <2>1, <2>2, <2>3, SendInv
  <2>4. ASSUME NEW at \in {"holding", "failed"},
               call' = [call EXCEPT ![k] = [call[k] EXCEPT !.at = at, !.awaits = Null]], UNCHANGED <<transport, process>>
        PROVE  PoolInv'
    <3>1. [call[k] EXCEPT !.at = at, !.awaits = Null] \in Call
          /\ [call[k] EXCEPT !.at = at, !.awaits = Null].client = c
      BY <2>1 DEF Call
    <3>2. call' \in [Calls -> Call] /\ \A x \in Calls : call'[x].at \in Begun => call'[x].client \in Clients
      BY <2>1, <2>4, <3>1 DEF PoolInv, PoolTypeOK, Owned
    <3> QED BY <2>2, <2>4, <3>2, CallMoves
  <2>5. \/ Send(k, c)
        \/ /\ \E at \in {"holding", "failed"} : call' = [call EXCEPT ![k] = [call[k] EXCEPT !.at = at, !.awaits = Null]]
           /\ UNCHANGED <<transport, process>>
    <3>1. \A at : [call EXCEPT ![k].at = at, ![k].awaits = Null]
                    = [call EXCEPT ![k] = [call[k] EXCEPT !.at = at, !.awaits = Null]]
      BY <2>1 DEF PoolInv, PoolTypeOK, Call
    <3> QED BY <1>4, <3>1 DEF Continue
  <2> QED BY <2>3, <2>4, <2>5
<1> QED BY <1>1, <1>2, <1>3, <1>4

----------------------------------------------------------------------------
(* The theorems. *)

LEMMA PoolStep ==
  ASSUME PoolInv, [Next]_vars
  PROVE  PoolInv'
<1>1. CASE UNCHANGED vars
  BY <1>1, CallMoves DEF vars, PoolInv, PoolTypeOK, Owned
<1> QED BY <1>1, CallInv, DeliverInv, ErrorEventInv, ExitInv, CloseEventInv, TimeoutInv, StopClientInv DEF Next

LEMMA PoolInit ==
  ASSUME Init
  PROVE  PoolInv
<1>1. PoolTypeOK  BY DEF Init, PoolTypeOK, Transport, Process, Call
<1>2. Owned /\ IdsAscend /\ CreatedFirst  BY DEF Init, Owned, Begun, IdsAscend, CreatedFirst
<1>3. AnswersMatch /\ InitializedHasProcess /\ PooledIsNotStopping
  BY DEF Init, AnswersMatch, InitializedHasProcess, PooledIsNotStopping
<1> QED BY <1>1, <1>2, <1>3 DEF PoolInv

\* The inductive invariant, in every state.
THEOREM PoolInvariant == Spec => []PoolInv
<1>1. PoolInv /\ [Next]_vars => PoolInv'  BY PoolStep
<1> QED BY <1>1, PoolInit, PTL DEF Spec

\* Promises, processes, requests and calls stay in their domains; in
\* particular startPromise is that of a start, of a throw, or null.
THEOREM PoolTyping == Spec => []PoolTypeOK
BY PoolInvariant, PTL DEF PoolInv

\* However often clients are restarted and processes replaced, an answer of
\* any process that is still read finds its own request or none: one counter
\* numbers the requests to all processes of a client.
THEOREM AnswersReachTheirRequests == Spec => []AnswersMatch
BY PoolInvariant, PTL DEF PoolInv

\* A transport that skips its start can write.
THEOREM InitializedCanWrite == Spec => []InitializedHasProcess
BY PoolInvariant, PTL DEF PoolInv

\* A client that is being stopped is out of the pool.
THEOREM StoppedIsForgotten == Spec => []PooledIsNotStopping
BY PoolInvariant, PTL DEF PoolInv
=============================================================================
