---------------------------- MODULE ProjectCommands ----------------------------
(***************************************************************************)
(* ProjectCommandService: configured commands run as processes of an       *)
(* app-server.  Launches reserve their command before the first await, a   *)
(* run is tracked from its registration to its first end, and an end may   *)
(* be told by an exit notification, by the answer to a spawn or to a kill, *)
(* by a timer, or by the close of the connection the process belongs to.   *)
(*                                                                         *)
(* A connection is what ClientPool calls a client with its process.  It    *)
(* answers requests in any order; what it sends is handled in order.       *)
(***************************************************************************)
EXTENDS Naturals, Sequences

CONSTANTS
  MaxRuns,   \* launches that may be admitted
  Requests,  \* launches a user may ask for: a command in a context, and its mode
  Stops,     \* stopRun calls
  Clients,   \* connections to app-servers
  Null

ASSUME MaxRunsIsNat == MaxRuns \in Nat
ASSUME NullIsNoClient == Null \notin Clients
ASSUME RequestsAreContexts ==
  \A q \in Requests :
    /\ DOMAIN q = {"command", "source", "workspace", "cwd", "mode"}
    /\ q.mode \in {"project", "workspace", "parallel"}
    /\ q.source # Null /\ q.cwd # Null

Runs == 1..MaxRuns
Sources == {q.source : q \in Requests}

VARIABLES
  call,          \* the runCommand call of each run
  startingRuns,  \* launches that have not returned
  runsById,      \* runs the service can find, for a stop and for a close
  runsByHandle,  \* runs the service can find for a notification
  stoppingRuns,  \* runs whose exit will be reported as killed
  status,        \* the status last told to the user
  exits,         \* projectCommand.exited events emitted for each run
  stop,          \* each stopRun call
  pool,          \* the connection of each source
  client         \* each connection: processes it manages and its two pipes

serviceVars == <<startingRuns, runsById, runsByHandle, stoppingRuns, status, exits>>
vars == <<call, serviceVars, stop, pool, client>>

Calls ==
  [at : {"none", "preparing", "holding", "spawning", "returned", "refused"},
   request : Requests \cup {Null}, client : Clients \cup {Null}]
StopCalls ==
  [at : {"idle", "ensuring", "killing", "done"}, run : Runs \cup {0}, client : Clients \cup {Null}]
ToServer == [method : {"spawn"}, run : Runs] \cup [method : {"kill"}, stop : Stops]
ToService ==
  [type : {"spawned", "refused", "exited"}, run : Runs] \cup [type : {"killed", "missing"}, stop : Stops]
Connections ==
  [source : Sources \cup {Null}, isUp : BOOLEAN, processes : SUBSET Runs,
   inbox : SUBSET ToServer, outbox : Seq(ToService)]

Init ==
  /\ call = [r \in Runs |-> [at |-> "none", request |-> Null, client |-> Null]]
  /\ startingRuns = {} /\ runsById = {} /\ runsByHandle = {} /\ stoppingRuns = {}
  /\ status = [r \in Runs |-> "none"]
  /\ exits = [r \in Runs |-> 0]
  /\ stop = [s \in Stops |-> [at |-> "idle", run |-> 0, client |-> Null]]
  /\ pool = [x \in Sources |-> Null]
  /\ client = [c \in Clients |->
       [source |-> Null, isUp |-> FALSE, processes |-> {}, inbox |-> {}, outbox |-> <<>>]]

----------------------------------------------------------------------------
(* Which launches exclude each other. *)

Both(a, b) == a # Null /\ b # Null

\* commandExecutionConflicts: the mode is that of the launch being judged.
Conflicts(target, active) ==
  /\ target.command = active.command
  /\ target.mode # "parallel"
  /\ \/ target.mode = "project"
     \/ /\ ~(Both(target.source, active.source) /\ target.source # active.source)
        /\ \/ Both(target.workspace, active.workspace) /\ target.workspace = active.workspace
           \/ Both(target.cwd, active.cwd) /\ target.cwd = active.cwd
           \/ ~Both(target.workspace, active.workspace) /\ ~Both(target.cwd, active.cwd)

RunningRuns == {r \in runsById : status[r] = "running"}

\* Defect: a launch is not seen before its run is registered.
RegisteredRuns == RunningRuns

\* Runs and launches a new launch is compared with.
ActiveRuns == RunningRuns \cup startingRuns

----------------------------------------------------------------------------
(* Ends of runs. *)

Once(isEmitted) == IF isEmitted THEN 1 ELSE 0

\* Defect: a run that was being stopped ends without an event.
FinishSilently(first, again, how) ==
  LET ended == first \cup again IN
  /\ runsById' = runsById \ ended
  /\ runsByHandle' = runsByHandle \ ended
  /\ status' = [r \in Runs |-> IF r \in ended THEN how ELSE status[r]]
  /\ exits' = [r \in Runs |-> exits[r] + Once(r \in first \ stoppingRuns) + Once(r \in again)]

\* finishRun for the runs of first and then for those of again: whatever a
\* run's status is, it is forgotten, the status replaced and the event emitted.
Finish(first, again, how) ==
  LET ended == first \cup again IN
  /\ runsById' = runsById \ ended
  /\ runsByHandle' = runsByHandle \ ended
  /\ status' = [r \in Runs |-> IF r \in ended THEN how ELSE status[r]]
  /\ exits' = [r \in Runs |-> exits[r] + Once(r \in first) + Once(r \in again)]

----------------------------------------------------------------------------
(* Connections. *)

\* ensureClient: the connection of the source, made when there is none.
Ensure(source, c) ==
  IF pool[source] # Null
    THEN c = pool[source] /\ UNCHANGED pool
    ELSE client[c].source = Null /\ pool' = [pool EXCEPT ![source] = c]

WithRequest(c, source, m) ==
  [client EXCEPT ![c] = [client[c] EXCEPT !.source = source, !.isUp = TRUE, !.inbox = @ \cup {m}]]

SpawnsOn(c) == {r \in Runs : call[r].at = "spawning" /\ call[r].client = c}
KillsOn(c) == {s \in Stops : stop[s].at = "killing" /\ stop[s].client = c}
SourceRuns(source) == {r \in RunningRuns : call[r].request.source = source}

\* A connection ends with its processes and everything in its pipes: the runs
\* of orphans are finalized, then the requests that wait on it are rejected,
\* which fails the launches among them and takes the mark of the stops back.
Disconnect(c, orphans) ==
  LET source == client[c].source
      stops == KillsOn(c)
  IN
  /\ client[c].isUp
  /\ client' = [client EXCEPT ![c] = [client[c] EXCEPT !.isUp = FALSE, !.processes = {}, !.inbox = {}, !.outbox = <<>>]]
  /\ pool' = [pool EXCEPT ![source] = Null]
  /\ Finish(orphans, SpawnsOn(c), "failed")
  /\ stoppingRuns' = stoppingRuns \ (orphans \cup SpawnsOn(c) \cup {stop[s].run : s \in stops})
  /\ call' = [r \in Runs |-> IF r \in SpawnsOn(c) THEN [call[r] EXCEPT !.at = "refused"] ELSE call[r]]
  /\ startingRuns' = startingRuns \ SpawnsOn(c)
  /\ stop' = [s \in Stops |-> IF s \in stops THEN [stop[s] EXCEPT !.at = "done"] ELSE stop[s]]

\* The app-server dies: handleClientClosed finalizes every run of the source,
\* and the source has no connection any more.
Close(c) == Disconnect(c, SourceRuns(client[c].source))

\* restartClient stops the connection, which emits no close event; only turns
\* keep it from doing so.
Restart(source) == pool[source] # Null /\ Disconnect(pool[source], {})

----------------------------------------------------------------------------
(* runCommand. *)

\* Everything up to the reservation; a launch in conflict throws.  A source
\* that has a connection gives it without leaving the event loop.
Admit(r) ==
  /\ call[r].at = "none"
  /\ \A earlier \in 1..(r - 1) : call[earlier].at # "none"
  /\ \E q \in Requests :
       /\ \A a \in ActiveRuns : ~Conflicts(q, call[a].request)
       /\ call' = [call EXCEPT ![r] =
            [at |-> IF pool[q.source] = Null THEN "preparing" ELSE "holding", request |-> q, client |-> pool[q.source]]]
  /\ startingRuns' = startingRuns \cup {r}
  /\ UNCHANGED <<runsById, runsByHandle, stoppingRuns, status, exits, stop, pool, client>>

\* ensureClient has started a connection; the shell is looked for and the log
\* opened next.
Prepare(r) ==
  /\ call[r].at = "preparing"
  /\ \E c \in Clients :
       /\ Ensure(call[r].request.source, c)
       /\ call' = [call EXCEPT ![r].at = "holding", ![r].client = c]
       /\ client' = IF pool[call[r].request.source] # Null THEN client
                      ELSE [client EXCEPT ![c] = [client[c] EXCEPT !.source = call[r].request.source, !.isUp = TRUE]]
  /\ UNCHANGED <<serviceVars, stop>>

\* Defect: a failure before the registration leaves the reservation.
PrepareFailsHolding(r) ==
  /\ call[r].at \in {"preparing", "holding"}
  /\ call' = [call EXCEPT ![r].at = "refused"]
  /\ UNCHANGED <<serviceVars, stop, pool, client>>

\* One of these awaits throws.
PrepareFails(r) ==
  /\ call[r].at \in {"preparing", "holding"}
  /\ call' = [call EXCEPT ![r].at = "refused"]
  /\ startingRuns' = startingRuns \ {r}
  /\ UNCHANGED <<runsById, runsByHandle, stoppingRuns, status, exits, stop, pool, client>>

\* The run is registered and its spawn written.  A connection that was lost
\* in the meantime is made again by the request.
Launch(r) ==
  /\ call[r].at = "holding"
  /\ call' = [call EXCEPT ![r].at = "spawning"]
  /\ runsById' = runsById \cup {r}
  /\ runsByHandle' = runsByHandle \cup {r}
  /\ status' = [status EXCEPT ![r] = "running"]
  /\ client' = WithRequest(call[r].client, call[r].request.source, [method |-> "spawn", run |-> r])
  /\ UNCHANGED <<startingRuns, stoppingRuns, exits, stop, pool>>

\* The same when the lost connection cannot be made again.
LaunchFails(r) ==
  /\ call[r].at = "holding" /\ ~client[call[r].client].isUp
  /\ call' = [call EXCEPT ![r].at = "refused"]
  /\ Finish({}, {r}, "failed")
  /\ startingRuns' = startingRuns \ {r}
  /\ UNCHANGED <<stoppingRuns, stop, pool, client>>

\* The spawn is rejected by its answer or by its timer.
SpawnFails(r) ==
  /\ call[r].at = "spawning"
  /\ call' = [call EXCEPT ![r].at = "refused"]
  /\ Finish({}, {r}, "failed")
  /\ startingRuns' = startingRuns \ {r}
  /\ stoppingRuns' = stoppingRuns \ {r}

SpawnTimeout(r) == SpawnFails(r) /\ UNCHANGED <<stop, pool, client>>

----------------------------------------------------------------------------
(* stopRun. *)

\* The run is marked and the kill written, to the connection the source has
\* now; nobody looks again whether the run still runs.
Kill(s, r, c) ==
  /\ stop' = [stop EXCEPT ![s] = [at |-> "killing", run |-> r, client |-> c]]
  /\ stoppingRuns' = stoppingRuns \cup {r}
  /\ client' = WithRequest(c, call[r].request.source, [method |-> "kill", stop |-> s])
  /\ UNCHANGED <<call, startingRuns, runsById, runsByHandle, status, exits>>

StopBegin(s) ==
  /\ stop[s].at = "idle"
  /\ \E r \in RunningRuns :
       LET c == pool[call[r].request.source] IN
       \/ c # Null /\ Kill(s, r, c) /\ UNCHANGED pool
       \/ /\ c = Null
          /\ stop' = [stop EXCEPT ![s] = [at |-> "ensuring", run |-> r, client |-> Null]]
          /\ UNCHANGED <<call, serviceVars, pool, client>>

\* ensureClient has started a connection.
StopKill(s) ==
  /\ stop[s].at = "ensuring"
  /\ \E c \in Clients : Ensure(call[stop[s].run].request.source, c) /\ Kill(s, stop[s].run, c)

\* ensureClient throws.
StopFails(s) ==
  /\ stop[s].at = "ensuring"
  /\ stop' = [stop EXCEPT ![s].at = "done"]
  /\ UNCHANGED <<call, serviceVars, pool, client>>

\* Defect: the mark stays when the kill is not answered.
KillTimeoutMarked(s) ==
  /\ stop[s].at = "killing"
  /\ stop' = [stop EXCEPT ![s].at = "done"]
  /\ UNCHANGED <<call, serviceVars, pool, client>>

KillTimeout(s) ==
  /\ stop[s].at = "killing"
  /\ stop' = [stop EXCEPT ![s].at = "done"]
  /\ stoppingRuns' = stoppingRuns \ {stop[s].run}
  /\ UNCHANGED <<call, startingRuns, runsById, runsByHandle, status, exits, pool, client>>

----------------------------------------------------------------------------
(* The app-server, and what the service makes of its messages. *)

ServeSpawn(c) ==
  /\ \E m \in client[c].inbox :
       /\ m.method = "spawn"
       /\ \E isSpawned \in BOOLEAN :
            client' = [client EXCEPT ![c] = [client[c] EXCEPT
              !.inbox = @ \ {m},
              !.processes = IF isSpawned THEN @ \cup {m.run} ELSE @,
              !.outbox = Append(@, [type |-> IF isSpawned THEN "spawned" ELSE "refused", run |-> m.run])]]
  /\ UNCHANGED <<call, serviceVars, stop, pool>>

\* A kill is refused when the connection manages no such process.
ServeKill(c) ==
  /\ \E m \in client[c].inbox :
       /\ m.method = "kill"
       /\ client' = [client EXCEPT ![c] = [client[c] EXCEPT
            !.inbox = @ \ {m},
            !.outbox = Append(@,
              [type |-> IF stop[m.stop].run \in client[c].processes THEN "killed" ELSE "missing", stop |-> m.stop])]]
  /\ UNCHANGED <<call, serviceVars, stop, pool>>

\* A process ends, killed or not.
ProcessExit(c, r) ==
  /\ r \in client[c].processes
  /\ client' = [client EXCEPT ![c] = [client[c] EXCEPT
       !.processes = @ \ {r}, !.outbox = Append(@, [type |-> "exited", run |-> r])]]
  /\ UNCHANGED <<call, serviceVars, stop, pool>>

Receive(c, type) ==
  /\ client[c].outbox # <<>> /\ Head(client[c].outbox).type = type
  /\ client' = [client EXCEPT ![c].outbox = Tail(@)]
  /\ UNCHANGED pool

\* Answers to a request that has timed out are ignored.
HandleSpawned(c) ==
  /\ Receive(c, "spawned")
  /\ LET r == Head(client[c].outbox).run IN
     IF call[r].at = "spawning"
       THEN /\ call' = [call EXCEPT ![r].at = "returned"]
            /\ startingRuns' = startingRuns \ {r}
       ELSE UNCHANGED <<call, startingRuns>>
  /\ UNCHANGED <<runsById, runsByHandle, stoppingRuns, status, exits, stop>>

HandleRefused(c) ==
  /\ Receive(c, "refused")
  /\ LET r == Head(client[c].outbox).run IN
     IF call[r].at = "spawning" THEN SpawnFails(r) ELSE UNCHANGED <<call, serviceVars>>
  /\ UNCHANGED stop

\* Defect: an exit that comes while a kill waits for its answer is left to it.
HandleExitedUnlessStopping(c) ==
  /\ Receive(c, "exited")
  /\ LET r == Head(client[c].outbox).run IN
     IF r \in runsByHandle /\ r \notin stoppingRuns
       THEN Finish({r}, {}, "exited") /\ UNCHANGED stoppingRuns
       ELSE UNCHANGED <<runsById, runsByHandle, stoppingRuns, status, exits>>
  /\ UNCHANGED <<call, startingRuns, stop>>

\* handleProcessExited.
HandleExited(c) ==
  /\ Receive(c, "exited")
  /\ LET r == Head(client[c].outbox).run IN
     IF r \in runsByHandle
       THEN /\ Finish({r}, {}, IF r \in stoppingRuns THEN "killed" ELSE "exited")
            /\ stoppingRuns' = stoppingRuns \ {r}
       ELSE UNCHANGED <<runsById, runsByHandle, stoppingRuns, status, exits>>
  /\ UNCHANGED <<call, startingRuns, stop>>

HandleKilled(c) ==
  /\ Receive(c, "killed")
  /\ LET s == Head(client[c].outbox).stop IN
     stop' = IF stop[s].at = "killing" THEN [stop EXCEPT ![s].at = "done"] ELSE stop
  /\ UNCHANGED <<call, serviceVars>>

\* The server does not know the process: the run is finished here, also when
\* its exit has been handled while the kill was on its way.
HandleMissing(c) ==
  /\ Receive(c, "missing")
  /\ LET s == Head(client[c].outbox).stop IN
     IF stop[s].at = "killing"
       THEN /\ stop' = [stop EXCEPT ![s].at = "done"]
            /\ Finish({stop[s].run}, {}, "failed")
            /\ stoppingRuns' = stoppingRuns \ {stop[s].run}
       ELSE UNCHANGED <<stop, runsById, runsByHandle, stoppingRuns, status, exits>>
  /\ UNCHANGED <<call, startingRuns>>

Handle(c) ==
  HandleSpawned(c) \/ HandleRefused(c) \/ HandleExited(c) \/ HandleKilled(c) \/ HandleMissing(c)

Next ==
  \/ \E r \in Runs :
       Admit(r) \/ Prepare(r) \/ PrepareFails(r) \/ Launch(r) \/ LaunchFails(r) \/ SpawnTimeout(r)
  \/ \E s \in Stops : StopBegin(s) \/ StopKill(s) \/ StopFails(s) \/ KillTimeout(s)
  \/ \E c \in Clients :
       \/ ServeSpawn(c) \/ ServeKill(c) \/ Handle(c) \/ Close(c)
       \/ \E r \in Runs : ProcessExit(c, r)
  \/ \E source \in Sources : Restart(source)

Spec == Init /\ [][Next]_vars

\* What a launch awaits is answered or times out, and what the app-server
\* sends is handled.  Nothing is assumed of the app-server or of the user.
Fairness ==
  /\ \A r \in Runs : WF_vars(Prepare(r) \/ PrepareFails(r)) /\ WF_vars(Launch(r) \/ PrepareFails(r))
  /\ \A r \in Runs : WF_vars(SpawnTimeout(r))
  /\ \A c \in Clients : WF_vars(Handle(c))

FairSpec == Spec /\ Fairness

----------------------------------------------------------------------------
(* Properties. *)

\* Values stay in their domains.
CommandsTypeOK ==
  /\ call \in [Runs -> Calls] /\ stop \in [Stops -> StopCalls]
  /\ startingRuns \subseteq Runs /\ stoppingRuns \subseteq Runs
  /\ runsById \subseteq Runs /\ runsByHandle = runsById
  /\ status \in [Runs -> {"none", "running", "exited", "killed", "failed"}]
  /\ exits \in [Runs -> Nat]
  /\ pool \in [Sources -> Clients \cup {Null}]
  /\ client \in [Clients -> Connections]

\* However their awaits interleave, no two launches or runs that are under
\* way at the same time conflict by the mode the later one was asked for
\* with: none starts between the check of another and its registration.
NoConflictingRuns ==
  \A r, s \in RunningRuns \cup startingRuns : r < s => ~Conflicts(call[s].request, call[r].request)

\* A run whose start was reported is either known to the service, so that it
\* can be stopped and is ended with its connection, or its end was reported:
\* exits, closes, refusals and timers in any order lose neither.
StartedIsKnownOrEnded ==
  \A r \in Runs : call[r].at = "returned" => (r \in runsById <=> exits[r] = 0)

\* A mark of stoppingRunIds is never left behind: it belongs to a run that is
\* tracked, or to a kill whose answer will take it back, also when the run
\* ended while stopRun waited for its connection.
NoStopMarkLeft ==
  \A r \in stoppingRuns :
    \/ r \in runsById
    \/ \E s \in Stops : stop[s].at = "killing" /\ stop[s].run = r

\* A launch reservation is always given back, whichever step of the launch
\* fails, times out or loses its connection.
LaunchReleased == \A r \in Runs : r \in startingRuns ~> r \notin startingRuns

ExitQueued(c, r) == [type |-> "exited", run |-> r] \in {client[c].outbox[i] : i \in DOMAIN client[c].outbox}

\* A run whose process has told its exit stops being tracked, unless the
\* connection is lost before.
ExitEndsRun ==
  \A c \in Clients, r \in Runs :
    (ExitQueued(c, r) /\ r \in runsById) ~> (r \notin runsById \/ ~client[c].isUp)

\* Runs whose connection is gone are finalized: a process handle is scoped to
\* its connection, and what runs is on a connection that is up.
RunningIsConnected == \A r \in RunningRuns : client[call[r].client].isUp
=============================================================================
