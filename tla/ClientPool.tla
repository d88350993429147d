------------------------------ MODULE ClientPool ------------------------------
(***************************************************************************)
(* How backend calls of one source reach a `codex app-server` process:     *)
(* OpenCodexClientPool keeps at most one client, the client's transport    *)
(* starts a process on demand, shakes hands with it and matches answers to *)
(* requests by id, and a process may fail to spawn, answer late, never     *)
(* answer, die by itself or be stopped for a restart.                      *)
(*                                                                         *)
(* One action is one macrotask of the event loop with the microtasks that  *)
(* cannot be overtaken; the continuations of a start that has settled are  *)
(* actions of their own, and run before the next event (Quiet).            *)
(***************************************************************************)
EXTENDS Naturals

CONSTANTS
  Clients,    \* CodexAppServerClient instances that may be created
  Processes,  \* processes that may be spawned
  Calls,      \* backend calls, each making one request
  Null,
  Thrown      \* the promise of a start whose process factory threw

ASSUME Names ==
  /\ Null \notin Clients \cup Processes \cup Calls \cup {Thrown}
  /\ Thrown \notin Processes
  /\ Processes \cap Calls = {}

VARIABLES
  pool,       \* clientsBySourceId at this source
  transport,  \* the fields of each client's CodexAppServerTransport
  process,    \* each process, its pipe and the start that spawned it
  call        \* where each backend call is

vars == <<pool, transport, process, call>>

\* Who waits for an answer: a call, or the start of a process (initialize).
Waiters == Calls \cup Processes

Entry == [id : Nat \ {0}, waiter : Waiters]

Transport ==
  [created : BOOLEAN, process : Processes \cup {Null}, reader : Processes \cup {Null},
   startPromise : Processes \cup {Null, Thrown}, isInitialized : BOOLEAN, isStopping : BOOLEAN,
   nextId : Nat \ {0}, pending : SUBSET Entry]

\* asked: requests whose answers may still be read, with the waiter they were
\* sent for; an answer carries the id alone.
Process ==
  [client : Clients \cup {Null}, status : {"unborn", "failed", "running", "exited", "closed"},
   asked : SUBSET Entry, start : {"pending", "resolved", "rejected"}]

Call ==
  [at : {"idle", "ensuring", "holding", "starting", "sent", "done", "failed"},
   client : Clients \cup {Null}, awaits : Processes \cup {Null}]

Init ==
  /\ pool = Null
  /\ transport = [c \in Clients |->
       [created |-> FALSE, process |-> Null, reader |-> Null, startPromise |-> Null,
        isInitialized |-> FALSE, isStopping |-> FALSE, nextId |-> 1, pending |-> {}]]
  /\ process = [p \in Processes |->
       [client |-> Null, status |-> "unborn", asked |-> {}, start |-> "pending"]]
  /\ call = [k \in Calls |-> [at |-> "idle", client |-> Null, awaits |-> Null]]

----------------------------------------------------------------------------
(* Helpers. *)

Waiting(k) == call[k].at \in {"ensuring", "starting"}

\* No continuation of a settled start is left to run.
Quiet == \A k \in Calls : Waiting(k) => process[call[k].awaits].start = "pending"

NextEntry(c, waiter) == [id |-> transport[c].nextId, waiter |-> waiter]

WithRequest(t, waiter) ==
  [t EXCEPT !.pending = @ \cup {[id |-> t.nextId, waiter |-> waiter]}, !.nextId = @ + 1]

\* rejectPendingRequests: everyone who waits on the client is refused.
PendingOf(c) == {e.waiter : e \in transport[c].pending}
\* Defect: the requests are dropped and nobody is told.
FailNoCalls(lost) == call

FailCalls(lost) == [k \in Calls |-> IF k \in lost THEN [call[k] EXCEPT !.at = "failed"] ELSE call[k]]
RejectStarts(lost) ==
  [p \in Processes |-> IF p \in lost THEN [process[p] EXCEPT !.start = "rejected"] ELSE process[p]]

\* Defect: the client stays registered.
DeleteNothing == UNCHANGED pool

\* The source has no client any more, whichever one it had.
DeleteClient == pool' = Null

----------------------------------------------------------------------------
(* Starting a transport. *)

\* startProcess up to its first await: the process is spawned, its listeners
\* are installed and initialize is written.  A spawn that fails reports later.
StartedTransport(c, p) ==
  WithRequest([transport[c] EXCEPT !.created = TRUE, !.process = p, !.reader = p, !.startPromise = p], p)

Spawn(c, k, at) ==
  /\ transport[c].startPromise = Null
  /\ \E p \in Processes, status \in {"failed", "running"} :
       /\ process[p].status = "unborn"
       /\ transport' = [transport EXCEPT ![c] = StartedTransport(c, p)]
       /\ process' = [process EXCEPT ![p] =
            [client |-> c, status |-> status,
             asked |-> IF status = "running" THEN {NextEntry(c, p)} ELSE {}, start |-> "pending"]]
       /\ call' = [call EXCEPT ![k] = [at |-> at, client |-> c, awaits |-> p]]

\* The process factory throws: startProcess clears startPromise, and start
\* then assigns it the promise that has been rejected.
SpawnThrows(c, k) ==
  /\ transport[c].startPromise = Null
  /\ transport' = [transport EXCEPT ![c].created = TRUE, ![c].startPromise = Thrown]
  /\ call' = [call EXCEPT ![k] = [at |-> "failed", client |-> c, awaits |-> Null]]
  /\ UNCHANGED process

\* A start that exists is shared, settled or not.
JoinStart(c, k, at) ==
  /\ transport[c].startPromise # Null
  /\ call' = [call EXCEPT ![k] =
       IF transport[c].startPromise = Thrown
         THEN [at |-> "failed", client |-> c, awaits |-> Null]
         ELSE [at |-> at, client |-> c, awaits |-> transport[c].startPromise]]
  /\ UNCHANGED <<transport, process>>

----------------------------------------------------------------------------
(* Backend calls. *)

\* ensureClient once resolveSource has answered and the pool is empty.
EnsureNew(k) ==
  /\ Quiet /\ call[k].at = "idle" /\ pool = Null
  /\ \E c \in Clients :
       /\ ~transport[c].created
       /\ pool' = c
       /\ \/ Spawn(c, k, "ensuring")
          \/ SpawnThrows(c, k)

\* ensureClient with a registered client: it is returned as it is.
EnsureExisting(k) ==
  /\ Quiet /\ call[k].at = "idle" /\ pool # Null
  /\ call' = [call EXCEPT ![k] = [at |-> "holding", client |-> pool, awaits |-> Null]]
  /\ UNCHANGED <<pool, transport, process>>

\* The rest of request: take an id, remember the waiter and write.  What is
\* written to a process that has gone is lost.
Send(k, c) ==
  IF transport[c].process = Null
    THEN /\ call' = [call EXCEPT ![k].at = "failed", ![k].awaits = Null]
         /\ UNCHANGED <<transport, process>>
    ELSE /\ transport' = [transport EXCEPT ![c] = WithRequest(transport[c], k)]
         /\ LET p == transport[c].process
            IN  process' = [process EXCEPT ![p].asked =
                  IF process[p].status = "running" THEN @ \cup {NextEntry(c, k)} ELSE @]
         /\ call' = [call EXCEPT ![k].at = "sent", ![k].awaits = Null]

\* request on a client that may have been obtained long ago.
Request(k) ==
  LET c == call[k].client IN
  /\ Quiet /\ call[k].at = "holding"
  /\ \/ transport[c].isInitialized /\ Send(k, c)
     \/ ~transport[c].isInitialized /\ (Spawn(c, k, "starting") \/ SpawnThrows(c, k) \/ JoinStart(c, k, "starting"))
  /\ UNCHANGED pool

\* A start has settled: the call that waited for it goes on.
Continue(k) ==
  /\ Waiting(k)
  /\ LET start == process[call[k].awaits].start IN
     \/ /\ start = "resolved" /\ call[k].at = "ensuring"
        /\ call' = [call EXCEPT ![k].at = "holding", ![k].awaits = Null]
        /\ UNCHANGED <<transport, process>>
     \/ start = "resolved" /\ call[k].at = "starting" /\ Send(k, call[k].client)
     \/ /\ start = "rejected"
        /\ call' = [call EXCEPT ![k].at = "failed", ![k].awaits = Null]
        /\ UNCHANGED <<transport, process>>
  /\ UNCHANGED pool

----------------------------------------------------------------------------
(* Answers, timers and the life of a process. *)

\* Defect: an answered initialize makes the transport ready.
AnsweredIsReady(c, ok) == ok

\* initialize has been answered and the notification after it could be written.
BecomesReady(c, ok) == ok /\ transport[c].process # Null

\* A line of a process is read.  An id nobody waits for is ignored.  The
\* answer to an initialize makes the transport ready, unless it has lost its
\* process and the notification that follows throws.
Deliver(p) ==
  LET c == process[p].client IN
  /\ Quiet /\ process[p].status \in {"running", "exited"}
  /\ \E m \in process[p].asked, ok \in BOOLEAN :
       LET answered == {e \in transport[c].pending : e.id = m.id}
           starts == {e.waiter : e \in answered} \cap Processes
           isReady == BecomesReady(c, ok)
       IN  /\ transport' = [transport EXCEPT ![c] = [transport[c] EXCEPT
                !.pending = @ \ answered, !.isInitialized = @ \/ (starts # {} /\ isReady)]]
           /\ process' = [q \in Processes |->
                [process[q] EXCEPT !.asked = IF q = p THEN @ \ {m} ELSE @,
                                   !.start = IF q \notin starts THEN @
                                             ELSE IF isReady THEN "resolved" ELSE "rejected"]]
           /\ call' = [k \in Calls |->
                IF \E e \in answered : e.waiter = k
                  THEN [call[k] EXCEPT !.at = IF ok THEN "done" ELSE "failed"]
                  ELSE call[k]]
  /\ UNCHANGED pool

\* The timer of a request: 120 s after it was written.
Timeout(c, waiter) ==
  /\ Quiet /\ waiter \in PendingOf(c)
  /\ transport' = [transport EXCEPT ![c].pending = {e \in @ : e.waiter # waiter}]
  /\ process' = RejectStarts({waiter})
  /\ call' = FailCalls({waiter})
  /\ UNCHANGED pool

\* The error event of a process that could not be spawned; close follows.
ErrorEvent(p) ==
  LET c == process[p].client IN
  /\ Quiet /\ process[p].status = "failed"
  /\ IF transport[c].isStopping
       THEN /\ process' = [process EXCEPT ![p].status = "exited"]
            /\ UNCHANGED <<transport, call>>
       ELSE /\ transport' = [transport EXCEPT ![c].pending = {}, ![c].startPromise = Null]
            /\ process' = [RejectStarts(PendingOf(c)) EXCEPT ![p].status = "exited"]
            /\ call' = FailCalls(PendingOf(c))
  /\ UNCHANGED pool

\* A process ends: crashed, or killed by stop.
Exit(p) ==
  /\ Quiet /\ process[p].status = "running"
  /\ process' = [process EXCEPT ![p].status = "exited"]
  /\ UNCHANGED <<pool, transport, call>>

\* Defect: the ids start again with the next process.
ClearedWithIds(t) ==
  [t EXCEPT !.isStopping = FALSE, !.isInitialized = FALSE, !.startPromise = Null, !.process = Null, !.nextId = 1]

\* What a close leaves of the transport, whichever process it is about.
Cleared(t) ==
  [t EXCEPT !.isStopping = FALSE, !.isInitialized = FALSE, !.startPromise = Null, !.process = Null]

\* The close event.  When nobody asked for it, handleClose removes the
\* client of the source from the pool and the pending requests are rejected.
CloseEvent(p) ==
  LET c == process[p].client
      wasStopping == transport[c].isStopping
      lost == IF wasStopping THEN {} ELSE PendingOf(c)
  IN
  /\ Quiet /\ process[p].status = "exited"
  /\ transport' = [transport EXCEPT ![c] = [Cleared(transport[c]) EXCEPT !.pending = IF wasStopping THEN @ ELSE {}]]
  /\ process' = [RejectStarts(lost) EXCEPT ![p].status = "closed", ![p].asked = {}]
  /\ call' = FailCalls(lost)
  /\ IF wasStopping THEN UNCHANGED pool ELSE DeleteClient

\* restartClient up to its ensureClient, and dispose: the client is stopped
\* and forgotten.  The latest process is no longer read; the one that is
\* killed dies later.
StopClient ==
  /\ Quiet /\ pool # Null
  /\ LET t == transport[pool] IN
     /\ transport' = [transport EXCEPT ![pool] =
          [t EXCEPT !.isStopping = t.process # Null, !.pending = {}, !.isInitialized = FALSE,
                    !.startPromise = Null, !.reader = Null, !.process = Null]]
     /\ process' = [p \in Processes |->
          [RejectStarts(PendingOf(pool))[p] EXCEPT !.asked = IF p = t.reader THEN {} ELSE @]]
     /\ call' = FailCalls(PendingOf(pool))
  /\ DeleteClient

Next ==
  \/ \E k \in Calls : EnsureNew(k) \/ EnsureExisting(k) \/ Request(k) \/ Continue(k)
  \/ \E p \in Processes : Deliver(p) \/ ErrorEvent(p) \/ Exit(p) \/ CloseEvent(p)
  \/ \E c \in Clients, waiter \in Waiters : Timeout(c, waiter)
  \/ StopClient

Spec == Init /\ [][Next]_vars

\* Timers fire and continuations run; nothing is assumed of the app-server.
Fairness ==
  /\ \A k \in Calls : WF_vars(Continue(k))
  /\ \A c \in Clients, waiter \in Waiters : WF_vars(Timeout(c, waiter))

FairSpec == Spec /\ Fairness

----------------------------------------------------------------------------
(* Properties. *)

\* Values stay in their domains.
PoolTypeOK ==
  /\ pool \in Clients \cup {Null}
  /\ transport \in [Clients -> Transport]
  /\ process \in [Processes -> Process]
  /\ call \in [Calls -> Call]

\* An answer reaches the request it answers: of the requests that are still
\* being answered by any process a client has had, old or new, none shares
\* its id with the pending request of somebody else (nextId survives start,
\* close and stop, and late answers are recognised by their id alone).
AnswersMatch ==
  \A p \in Processes : \A m \in process[p].asked : \A e \in transport[process[p].client].pending :
    m.id = e.id => m.waiter = e.waiter

\* A transport that believes it is initialized has a process to write to, so
\* a request never fails for want of one after start said it was ready,
\* whatever close, error and stop events came in between.
InitializedHasProcess ==
  \A c \in Clients : transport[c].isInitialized => transport[c].process # Null

\* The pool never hands out a client that was stopped: stop and removal from
\* the pool belong together, also when a stopped client is started again by a
\* call that still held it.
PooledIsNotStopping == pool # Null => ~transport[pool].isStopping

\* Every call that waits, for a start or for its answer, is eventually told:
\* by an answer, a timer, an error, a close or a stop.
CallsSettle ==
  \A k \in Calls : call[k].at \in {"ensuring", "starting", "sent"} ~> call[k].at \in {"holding", "done", "failed"}

\* A client that can serve a request: ready, being started, or free to start.
CanServe(c) ==
  \/ transport[c].isInitialized
  \/ transport[c].startPromise = Null
  \/ /\ transport[c].startPromise \in Processes
     /\ process[transport[c].startPromise].start = "pending"

\* ensureClient returns a "Started Codex app-server client": what it hands to
\* a call has started, is starting, or will start at the first request.
EnsuresStarted ==
  [][\A k \in Calls : (call[k].at # "holding" /\ call'[k].at = "holding") => CanServe(call[k].client)']_vars
=============================================================================
