------------------------- MODULE ProjectCommandsProofs -------------------------
(* Theorems about configured commands, for any numbers of launches, stops,   *)
(* sources and connections and any launches users may ask for.               *)
EXTENDS ProjectCommands, TLAPS

----------------------------------------------------------------------------
(* What the service knows of its runs. *)

\* A launch that has not registered its run.
Early == {"none", "preparing", "holding"}

\* Launches are admitted one after the other, and what is active was admitted.
AdmittedInOrder ==
  /\ \A r \in Runs : call[r].at # "none" => call[r].request \in Requests
  /\ \A r, s \in Runs : r < s /\ call[s].at # "none" => call[r].at # "none"
  /\ \A r \in startingRuns \cup runsById : call[r].at # "none"
  /\ \A r \in Runs : call[r].at \in {"preparing", "holding"} => r \in startingRuns
  /\ \A r \in Runs : call[r].at = "holding" => call[r].client \in Clients

\* No end comes before the registration, and from then on a run is tracked or
\* its end was reported.  A stop is about a run that was registered.
EndsAgree ==
  /\ \A r \in Runs : call[r].at \in Early => exits[r] = 0 /\ r \notin runsById
  /\ \A r \in Runs : call[r].at \in {"spawning", "returned"} => (r \in runsById <=> exits[r] = 0)
  /\ \A s \in Stops : stop[s].at # "idle" => stop[s].run \in Runs /\ call[stop[s].run].at \notin Early

CommandsInv == CommandsTypeOK /\ AdmittedInOrder /\ EndsAgree /\ NoConflictingRuns

----------------------------------------------------------------------------
(* The operators actions are made of. *)

\* What the end of some runs leaves of them and of the others.
Ends(ended) ==
  /\ runsById' = runsById \ ended /\ runsByHandle' = runsById'
  /\ status' \in [Runs -> {"none", "running", "exited", "killed", "failed"}]
  /\ exits' \in [Runs -> Nat]
  /\ \A r \in ended : status'[r] # "running" /\ exits'[r] # 0
  /\ \A r \in Runs \ ended : status'[r] = status[r] /\ exits'[r] = exits[r]

\* What the failure of some launches leaves.
Refuses(refused) ==
  /\ call' \in [Runs -> Calls]
  /\ \A r \in Runs : /\ call'[r].at = (IF r \in refused THEN "refused" ELSE call[r].at)
                     /\ call'[r].request = call[r].request
                     /\ call'[r].client = call[r].client
  /\ startingRuns' = startingRuns \ refused

\* The rest of a step: well formed, and no stop begins.
Rest ==
  /\ stoppingRuns' \in SUBSET Runs
  /\ stop' \in [Stops -> StopCalls]
  /\ \A s \in Stops : stop'[s].run = stop[s].run /\ (stop'[s].at # "idle" => stop[s].at # "idle")
  /\ pool' \in [Sources -> Clients \cup {Null}]
  /\ client' \in [Clients -> Connections]

LEMMA FinishEnds ==
  ASSUME CommandsTypeOK, NEW first \in SUBSET Runs, NEW again \in SUBSET Runs,
         NEW how \in {"exited", "killed", "failed"}, Finish(first, again, how)
  PROVE  Ends(first \cup again)
BY DEF CommandsTypeOK, Finish, Once, Ends

LEMMA NothingEnds ==
  ASSUME CommandsTypeOK, UNCHANGED <<runsById, runsByHandle, status, exits>>
  PROVE  Ends({})
BY DEF CommandsTypeOK, Ends

LEMMA NothingRefused ==
  ASSUME CommandsTypeOK, UNCHANGED <<call, startingRuns>>
  PROVE  Refuses({})
BY DEF CommandsTypeOK, Refuses

LEMMA OneRefused ==
  ASSUME CommandsTypeOK, NEW r \in Runs, call' = [call EXCEPT ![r].at = "refused"],
         startingRuns' = startingRuns \ {r}
  PROVE  Refuses({r})
<1>1. call[r] \in Calls  BY DEF CommandsTypeOK
<1>2. [call[r] EXCEPT !.at = "refused"] \in Calls  BY <1>1 DEF Calls
<1> QED BY <1>1, <1>2 DEF CommandsTypeOK, Refuses, Calls

\* A request keeps the connections well formed.
LEMMA RequestType ==
  ASSUME CommandsTypeOK, NEW c \in Clients, NEW source \in Sources, NEW m \in ToServer
  PROVE  WithRequest(c, source, m) \in [Clients -> Connections]
<1>1. client[c] \in Connections  BY DEF CommandsTypeOK
<1>2. client[c].inbox \cup {m} \in SUBSET ToServer  BY <1>1 DEF Connections
<1>3. [client[c] EXCEPT !.source = source, !.isUp = TRUE, !.inbox = @ \cup {m}] \in Connections
  BY <1>1, <1>2 DEF Connections
<1> QED BY <1>3 DEF CommandsTypeOK, WithRequest

LEMMA EnsureType ==
  ASSUME CommandsTypeOK, NEW source \in Sources, NEW c \in Clients, Ensure(source, c)
  PROVE  pool' \in [Sources -> Clients \cup {Null}]
BY DEF CommandsTypeOK, Ensure

\* So does a message, sent or received.
LEMMA SentType ==
  ASSUME CommandsTypeOK, NEW c \in Clients, NEW inbox \in SUBSET ToServer,
         NEW processes \in SUBSET Runs, NEW m \in ToService,
         client' = [client EXCEPT ![c] = [client[c] EXCEPT !.inbox = inbox, !.processes = processes, !.outbox = Append(@, m)]]
  PROVE  client' \in [Clients -> Connections]
<1>1. client[c] \in Connections  BY DEF CommandsTypeOK
<1>2. Append(client[c].outbox, m) \in Seq(ToService)  BY <1>1 DEF Connections
<1>3. [client[c] EXCEPT !.inbox = inbox, !.processes = processes, !.outbox = Append(@, m)] \in Connections
  BY <1>1, <1>2 DEF Connections
<1> QED BY <1>3 DEF CommandsTypeOK

LEMMA ReceivedType ==
  ASSUME CommandsTypeOK, NEW c \in Clients, NEW type, Receive(c, type)
  PROVE  /\ client' \in [Clients -> Connections] /\ UNCHANGED pool
         /\ Head(client[c].outbox) \in ToService
         /\ Head(client[c].outbox).type = type
<1>1. client[c].outbox \in Seq(ToService) /\ client[c].outbox # <<>>
  BY DEF CommandsTypeOK, Connections, Receive
<1>2. Tail(client[c].outbox) \in Seq(ToService) /\ Head(client[c].outbox) \in ToService
  BY <1>1
<1> QED BY <1>2 DEF CommandsTypeOK, Connections, Receive

\* The runs and stops that messages are about.
LEMMA MessageOfRun ==
  ASSUME NEW m \in ToService, m.type \in {"spawned", "refused", "exited"}
  PROVE  m.run \in Runs
BY DEF ToService

LEMMA MessageOfStop ==
  ASSUME NEW m \in ToService, m.type \in {"killed", "missing"}
  PROVE  m.stop \in Stops
BY DEF ToService

----------------------------------------------------------------------------
(* One step. *)

\* Without an admission nothing becomes active: a registration moves its run
\* from the launches to the runs.
NoneAdmitted ==
  /\ RunningRuns' \cup startingRuns' \subseteq RunningRuns \cup startingRuns
  /\ \A r \in Runs : call'[r].request = call[r].request

LEMMA NoneAdmittedInv ==
  ASSUME CommandsTypeOK, NoConflictingRuns, NoneAdmitted
  PROVE  NoConflictingRuns'
<1> SUFFICES ASSUME NEW r \in (RunningRuns \cup startingRuns)', NEW s \in (RunningRuns \cup startingRuns)', r < s
             PROVE  ~Conflicts(call'[s].request, call'[r].request)
  BY DEF NoConflictingRuns, Conflicts, Both
<1>1. r \in RunningRuns \cup startingRuns /\ s \in RunningRuns \cup startingRuns  BY DEF NoneAdmitted
<1>2. r \in Runs /\ s \in Runs  BY <1>1 DEF CommandsTypeOK, RunningRuns
<1>3. call'[s].request = call[s].request /\ call'[r].request = call[r].request  BY <1>2 DEF NoneAdmitted
<1> QED BY <1>1, <1>3 DEF NoConflictingRuns

\* Steps that leave launches and runs as they are.
LEMMA SameRunsInv ==
  ASSUME CommandsInv, UNCHANGED <<call, startingRuns, runsById, runsByHandle, status, exits>>,
         stoppingRuns' \in SUBSET Runs, stop' \in [Stops -> StopCalls],
         pool' \in [Sources -> Clients \cup {Null}], client' \in [Clients -> Connections],
         \A s \in Stops : stop'[s].at # "idle" =>
           \/ stop[s].at # "idle" /\ stop'[s].run = stop[s].run
           \/ stop'[s].run \in runsById
  PROVE  CommandsInv'
<1>1. CommandsTypeOK'  BY DEF CommandsInv, CommandsTypeOK
<1>2. AdmittedInOrder'  BY DEF CommandsInv, AdmittedInOrder
<1>3. EndsAgree'  BY DEF CommandsInv, EndsAgree, CommandsTypeOK
<1>4. NoneAdmitted  BY DEF NoneAdmitted, RunningRuns
<1> QED BY <1>1, <1>2, <1>3, <1>4, NoneAdmittedInv DEF CommandsInv

\* An admission: what it excludes is excluded, and it is the latest.
LEMMA AdmitInv ==
  ASSUME CommandsInv, NEW r \in Runs, Admit(r)
  PROVE  CommandsInv'
<1>1. PICK q \in Requests :
        /\ \A a \in ActiveRuns : ~Conflicts(q, call[a].request)
        /\ call' = [call EXCEPT ![r] =
             [at |-> IF pool[q.source] = Null THEN "preparing" ELSE "holding", request |-> q, client |-> pool[q.source]]]
  BY DEF Admit
<1>2. q.source \in Sources /\ pool[q.source] \in Clients \cup {Null}
  BY DEF Sources, CommandsInv, CommandsTypeOK
<1>3. CommandsTypeOK'
  <2>1. call'[r] \in Calls  BY <1>1, <1>2 DEF Calls, CommandsInv, CommandsTypeOK
  <2> QED BY <1>1, <2>1 DEF Admit, CommandsInv, CommandsTypeOK
<1>4. AdmittedInOrder'
  BY <1>1, <1>2 DEF Admit, CommandsInv, CommandsTypeOK, AdmittedInOrder, Runs
<1>5. EndsAgree'
  BY <1>1 DEF Admit, CommandsInv, CommandsTypeOK, EndsAgree, Early
<1>6. NoConflictingRuns'
  <2> SUFFICES ASSUME NEW a \in (RunningRuns \cup startingRuns)', NEW b \in (RunningRuns \cup startingRuns)', a < b
               PROVE  ~Conflicts(call'[b].request, call'[a].request)
    BY DEF NoConflictingRuns, Conflicts, Both
  <2>1. a \in RunningRuns \cup startingRuns \cup {r} /\ b \in RunningRuns \cup startingRuns \cup {r}
    BY DEF Admit, RunningRuns
  <2>2. a \in Runs /\ b \in Runs  BY <2>1 DEF CommandsInv, CommandsTypeOK, RunningRuns
  <2>3. \A x \in RunningRuns \cup startingRuns : x < r
    <3> SUFFICES ASSUME NEW x \in RunningRuns \cup startingRuns  PROVE x < r
      OBVIOUS
    <3>1. x \in Runs /\ call[x].at # "none"  BY DEF CommandsInv, CommandsTypeOK, AdmittedInOrder, RunningRuns
    <3>2. call[r].at = "none"  BY DEF Admit
    <3>3. ~(r < x)  BY <3>1, <3>2 DEF CommandsInv, AdmittedInOrder
    <3> QED BY <3>1, <3>2, <3>3, MaxRunsIsNat DEF Runs
  <2>4. CASE b = r
    <3>1. a \in ActiveRuns /\ a # r  BY <2>1, <2>2, <2>4, MaxRunsIsNat DEF ActiveRuns, Runs
    <3>2. call'[b].request = q /\ call'[a].request = call[a].request
      BY <1>1, <2>2, <2>4, <3>1 DEF CommandsInv, CommandsTypeOK
    <3> QED BY <1>1, <3>1, <3>2
  <2>5. CASE b # r
    <3>1. a # r /\ a \in RunningRuns \cup startingRuns /\ b \in RunningRuns \cup startingRuns
      BY <2>1, <2>2, <2>3, <2>5, MaxRunsIsNat DEF Runs
    <3>2. call'[b].request = call[b].request /\ call'[a].request = call[a].request
      BY <1>1, <2>2, <2>5, <3>1 DEF CommandsInv, CommandsTypeOK
    <3> QED BY <3>1, <3>2 DEF CommandsInv, NoConflictingRuns
  <2> QED BY <2>4, <2>5
<1> QED BY <1>3, <1>4, <1>5, <1>6 DEF CommandsInv

\* Runs end and launches fail together: what ends was registered or fails.
LEMMA EndsInv ==
  ASSUME CommandsInv, NEW ended \in SUBSET Runs, NEW refused \in SUBSET Runs,
         Ends(ended), Refuses(refused), Rest,
         \A r \in ended : r \in refused \/ call[r].at \notin Early,
         \A r \in refused : call[r].at # "none"
  PROVE  CommandsInv'
<1>1. CommandsTypeOK'  BY DEF CommandsInv, CommandsTypeOK, Ends, Refuses, Rest
<1>2. AdmittedInOrder'
  BY DEF CommandsInv, CommandsTypeOK, AdmittedInOrder, Ends, Refuses
<1>3. EndsAgree'
  <2>1. ASSUME NEW r \in Runs, call'[r].at \in Early  PROVE exits'[r] = 0 /\ r \notin runsById'
    BY <2>1 DEF CommandsInv, EndsAgree, Early, Ends, Refuses
  <2>2. ASSUME NEW r \in Runs, call'[r].at \in {"spawning", "returned"}
        PROVE  r \in runsById' <=> exits'[r] = 0
    BY <2>2 DEF CommandsInv, EndsAgree, Ends, Refuses
  <2>3. ASSUME NEW s \in Stops, stop'[s].at # "idle"
        PROVE  stop'[s].run \in Runs /\ call'[stop'[s].run].at \notin Early
    BY <2>3 DEF CommandsInv, EndsAgree, Early, Refuses, Rest
  <2> QED BY <2>1, <2>2, <2>3 DEF EndsAgree, Early
<1>4. NoneAdmitted
  BY DEF CommandsInv, CommandsTypeOK, NoneAdmitted, RunningRuns, Ends, Refuses
<1> QED BY <1>1, <1>2, <1>3, <1>4, NoneAdmittedInv DEF CommandsInv

LEMMA PrepareInv ==
  ASSUME CommandsInv, NEW r \in Runs, Prepare(r)
  PROVE  CommandsInv'
<1>1. PICK c \in Clients :
        /\ Ensure(call[r].request.source, c)
        /\ call' = [call EXCEPT ![r].at = "holding", ![r].client = c]
        /\ client' = IF pool[call[r].request.source] # Null THEN client
                       ELSE [client EXCEPT ![c] = [client[c] EXCEPT !.source = call[r].request.source, !.isUp = TRUE]]
  BY DEF Prepare
<1>2. call[r] \in Calls /\ call[r].request.source \in Sources /\ call[r].at = "preparing"
  BY DEF Prepare, CommandsInv, CommandsTypeOK, AdmittedInOrder, Sources
<1>3. /\ call' \in [Runs -> Calls]
      /\ \A s \in Runs : call'[s].request = call[s].request /\ (s # r => call'[s] = call[s])
      /\ call'[r].at = "holding" /\ call'[r].client = c
  BY <1>1, <1>2 DEF CommandsInv, CommandsTypeOK, Calls
<1>4. client' \in [Clients -> Connections]
  <2>1. client[c] \in Connections  BY DEF CommandsInv, CommandsTypeOK
  <2>2. [client[c] EXCEPT !.source = call[r].request.source, !.isUp = TRUE] \in Connections
    BY <1>2, <2>1 DEF Connections
  <2> QED BY <1>1, <2>2 DEF CommandsInv, CommandsTypeOK
<1>5. pool' \in [Sources -> Clients \cup {Null}]  BY <1>1, <1>2, EnsureType DEF CommandsInv
<1>6. CommandsTypeOK'  BY <1>3, <1>4, <1>5 DEF Prepare, serviceVars, CommandsInv, CommandsTypeOK
<1>7. AdmittedInOrder'
  BY <1>2, <1>3 DEF Prepare, serviceVars, CommandsInv, CommandsTypeOK, AdmittedInOrder
<1>8. EndsAgree'
  BY <1>2, <1>3 DEF Prepare, serviceVars, CommandsInv, CommandsTypeOK, EndsAgree, Early
<1>9. NoneAdmitted  BY <1>3 DEF Prepare, serviceVars, NoneAdmitted, RunningRuns
<1> QED BY <1>6, <1>7, <1>8, <1>9, NoneAdmittedInv DEF CommandsInv

\* The registration: the run was a launch before.
LEMMA LaunchInv ==
  ASSUME CommandsInv, NEW r \in Runs, Launch(r)
  PROVE  CommandsInv'
<1>1. /\ call[r] \in Calls /\ call[r].at = "holding" /\ r \in startingRuns
      /\ call[r].client \in Clients /\ call[r].request.source \in Sources
  BY DEF Launch, CommandsInv, CommandsTypeOK, AdmittedInOrder, Sources
<1>2. /\ call' \in [Runs -> Calls]
      /\ \A s \in Runs : call'[s].request = call[s].request /\ (s # r => call'[s] = call[s])
      /\ call'[r].at = "spawning"
  BY <1>1 DEF Launch, CommandsInv, CommandsTypeOK, Calls
<1>3. client' \in [Clients -> Connections]
  <2>1. [method |-> "spawn", run |-> r] \in ToServer  BY DEF ToServer
  <2> QED BY <1>1, <2>1, RequestType DEF Launch, CommandsInv
<1>4. CommandsTypeOK'  BY <1>2, <1>3 DEF Launch, CommandsInv, CommandsTypeOK
<1>5. AdmittedInOrder'
  BY <1>1, <1>2 DEF Launch, CommandsInv, CommandsTypeOK, AdmittedInOrder
<1>6. EndsAgree'
  BY <1>1, <1>2 DEF Launch, CommandsInv, CommandsTypeOK, EndsAgree, Early
<1>7. NoneAdmitted
  BY <1>1, <1>2 DEF Launch, CommandsInv, CommandsTypeOK, NoneAdmitted, RunningRuns
<1> QED BY <1>4, <1>5, <1>6, <1>7, NoneAdmittedInv DEF CommandsInv

\* The failures of a launch before and after its registration.
LEMMA LaunchFailureInv ==
  ASSUME CommandsInv, NEW r \in Runs, PrepareFails(r) \/ LaunchFails(r) \/ SpawnTimeout(r)
  PROVE  CommandsInv'
<1>1. CASE PrepareFails(r)
  <2>1. Refuses({r}) /\ Ends({}) /\ Rest /\ call[r].at # "none"
    BY <1>1, OneRefused, NothingEnds DEF PrepareFails, Rest, CommandsInv, CommandsTypeOK
  <2> QED BY <2>1, EndsInv
<1>2. CASE LaunchFails(r)
  <2>1. Refuses({r}) /\ Rest /\ call[r].at # "none"
    BY <1>2, OneRefused DEF LaunchFails, Rest, CommandsInv, CommandsTypeOK
  <2>2. Ends({} \cup {r})  BY <1>2, FinishEnds DEF LaunchFails, CommandsInv
  <2> QED BY <2>1, <2>2, EndsInv
<1>3. CASE SpawnTimeout(r)
  <2>1. Refuses({r}) /\ Rest /\ call[r].at # "none"
    BY <1>3, OneRefused DEF SpawnTimeout, SpawnFails, Rest, CommandsInv, CommandsTypeOK
  <2>2. Ends({} \cup {r})  BY <1>3, FinishEnds DEF SpawnTimeout, SpawnFails, CommandsInv
  <2> QED BY <2>1, <2>2, EndsInv
<1> QED BY <1>1, <1>2, <1>3

\* The loss of a connection, whichever of its runs are finalized.
LEMMA DisconnectInv ==
  ASSUME CommandsInv, NEW c \in Clients, NEW orphans \in SUBSET RunningRuns, Disconnect(c, orphans)
  PROVE  CommandsInv'
<1> DEFINE spawns == SpawnsOn(c)
<1>1. spawns \in SUBSET Runs /\ orphans \in SUBSET Runs
      /\ (\A r \in spawns : call[r].at = "spawning") /\ orphans \subseteq runsById
  BY DEF SpawnsOn, RunningRuns, CommandsInv, CommandsTypeOK
<1>2. Ends(orphans \cup spawns)  BY <1>1, FinishEnds DEF Disconnect, CommandsInv
<1>3. Refuses(spawns)
  <2>1. \A r \in Runs : call[r] \in Calls /\ [call[r] EXCEPT !.at = "refused"] \in Calls
    BY DEF CommandsInv, CommandsTypeOK, Calls
  <2>2. call' \in [Runs -> Calls]  BY <2>1 DEF Disconnect
  <2>3. \A r \in Runs : /\ call'[r].at = (IF r \in spawns THEN "refused" ELSE call[r].at)
                        /\ call'[r].request = call[r].request
                        /\ call'[r].client = call[r].client
    BY <2>1 DEF Disconnect, Calls
  <2> QED BY <2>2, <2>3 DEF Disconnect, Refuses
<1>4. Rest
  <2>1. client[c] \in Connections  BY DEF CommandsInv, CommandsTypeOK
  <2>2. [client[c] EXCEPT !.isUp = FALSE, !.processes = {}, !.inbox = {}, !.outbox = <<>>] \in Connections
    <3>1. <<>> \in Seq(ToService)  OBVIOUS
    <3> QED BY <2>1, <3>1 DEF Connections
  <2>3. client' \in [Clients -> Connections]  BY <2>2 DEF Disconnect, CommandsInv, CommandsTypeOK
  <2>4. \A s \in Stops : stop[s] \in StopCalls /\ [stop[s] EXCEPT !.at = "done"] \in StopCalls
    BY DEF CommandsInv, CommandsTypeOK, StopCalls
  <2>5. stop' \in [Stops -> StopCalls]  BY <2>4 DEF Disconnect
  <2>6. \A s \in Stops : stop'[s].run = stop[s].run /\ (stop'[s].at # "idle" => stop[s].at # "idle")
    BY <2>4 DEF Disconnect, StopCalls, KillsOn
  <2>7. pool' \in [Sources -> Clients \cup {Null}] /\ stoppingRuns' \in SUBSET Runs
    BY DEF Disconnect, CommandsInv, CommandsTypeOK
  <2> QED BY <2>3, <2>5, <2>6, <2>7 DEF Rest
<1>5. \A r \in orphans \cup spawns : r \in spawns \/ call[r].at \notin Early
  BY <1>1 DEF CommandsInv, EndsAgree
<1> HIDE DEF spawns
<1>6. \A r \in spawns : call[r].at # "none"  BY <1>1
<1> QED BY <1>1, <1>2, <1>3, <1>4, <1>5, <1>6, EndsInv

\* Stops and the app-server leave launches and runs as they are.
LEMMA StopInv ==
  ASSUME CommandsInv, NEW s \in Stops, StopBegin(s) \/ StopKill(s) \/ StopFails(s) \/ KillTimeout(s)
  PROVE  CommandsInv'
<1>1. ASSUME NEW r \in Runs, NEW c \in Clients, Kill(s, r, c), call[r].request.source \in Sources,
             pool' \in [Sources -> Clients \cup {Null}],
             r \in runsById \/ (stop[s].at # "idle" /\ stop[s].run = r)
      PROVE  CommandsInv'
  <2>1. [at |-> "killing", run |-> r, client |-> c] \in StopCalls  BY DEF StopCalls
  <2>2. [method |-> "kill", stop |-> s] \in ToServer  BY DEF ToServer
  <2>3. client' \in [Clients -> Connections]  BY <1>1, <2>2, RequestType DEF Kill, CommandsInv
  <2>4. /\ stop' \in [Stops -> StopCalls] /\ stoppingRuns' \in SUBSET Runs
        /\ \A x \in Stops : stop'[x].at # "idle" =>
             (stop[x].at # "idle" /\ stop'[x].run = stop[x].run) \/ stop'[x].run \in runsById
    BY <1>1, <2>1 DEF Kill, CommandsInv, CommandsTypeOK
  <2> QED BY <1>1, <2>3, <2>4, SameRunsInv DEF Kill
<1>2. CASE StopBegin(s)
  <2>1. PICK r \in RunningRuns :
          LET c == pool[call[r].request.source] IN
          \/ c # Null /\ Kill(s, r, c) /\ UNCHANGED pool
          \/ /\ c = Null
             /\ stop' = [stop EXCEPT ![s] = [at |-> "ensuring", run |-> r, client |-> Null]]
             /\ UNCHANGED <<call, serviceVars, pool, client>>
    BY <1>2 DEF StopBegin
  <2>2. r \in Runs /\ r \in runsById /\ call[r].request.source \in Sources
    BY DEF RunningRuns, CommandsInv, CommandsTypeOK, AdmittedInOrder, Sources
  <2>3. pool[call[r].request.source] \in Clients \cup {Null}  BY <2>2 DEF CommandsInv, CommandsTypeOK
  <2>4. CASE pool[call[r].request.source] # Null
    <3>1. /\ Kill(s, r, pool[call[r].request.source]) /\ pool[call[r].request.source] \in Clients
          /\ pool' \in [Sources -> Clients \cup {Null}]
      BY <2>1, <2>3, <2>4 DEF CommandsInv, CommandsTypeOK
    <3> QED BY <1>1, <2>2, <3>1
  <2>5. CASE pool[call[r].request.source] = Null
    <3>1. [at |-> "ensuring", run |-> r, client |-> Null] \in StopCalls  BY <2>2 DEF StopCalls
    <3>2. stop' = [stop EXCEPT ![s] = [at |-> "ensuring", run |-> r, client |-> Null]]
          /\ UNCHANGED <<call, serviceVars, pool, client>>
      BY <2>1, <2>5
    <3> QED BY <2>2, <3>1, <3>2, SameRunsInv DEF serviceVars, CommandsInv, CommandsTypeOK
  <2> QED BY <2>4, <2>5
<1>3. CASE StopKill(s)
  <2>1. PICK c \in Clients : Ensure(call[stop[s].run].request.source, c) /\ Kill(s, stop[s].run, c)
    BY <1>3 DEF StopKill
  <2>2. stop[s].at # "idle" /\ stop[s].run \in Runs /\ call[stop[s].run].request.source \in Sources
    BY <1>3 DEF StopKill, CommandsInv, EndsAgree, AdmittedInOrder, Early, Sources
  <2>3. pool' \in [Sources -> Clients \cup {Null}]  BY <2>1, <2>2, EnsureType DEF CommandsInv
  <2> QED BY <1>1, <2>1, <2>2, <2>3
<1>4. CASE StopFails(s) \/ KillTimeout(s)
  <2>1. stop[s] \in StopCalls /\ [stop[s] EXCEPT !.at = "done"] \in StopCalls
    BY DEF CommandsInv, CommandsTypeOK, StopCalls
  <2>2. stop' = [stop EXCEPT ![s].at = "done"] /\ stop[s].at # "idle" /\ stoppingRuns' \in SUBSET Runs
        /\ UNCHANGED <<call, startingRuns, runsById, runsByHandle, status, exits, pool, client>>
    BY <1>4 DEF StopFails, KillTimeout, serviceVars, CommandsInv, CommandsTypeOK
  <2>3. \A x \in Stops : stop'[x].run = stop[x].run /\ (stop'[x].at # "idle" => stop[x].at # "idle")
    BY <2>1, <2>2 DEF CommandsInv, CommandsTypeOK, StopCalls
  <2>4. stop' \in [Stops -> StopCalls]  BY <2>1, <2>2 DEF CommandsInv, CommandsTypeOK
  <2> QED BY <2>2, <2>3, <2>4, SameRunsInv DEF CommandsInv, CommandsTypeOK
<1> QED BY <1>2, <1>3, <1>4

LEMMA ServeInv ==
  ASSUME CommandsInv, NEW c \in Clients, ServeSpawn(c) \/ ServeKill(c) \/ \E r \in Runs : ProcessExit(c, r)
  PROVE  CommandsInv'
<1> DEFINE Sent(inbox, processes, m) ==
      client' = [client EXCEPT ![c] = [client[c] EXCEPT
                   !.inbox = inbox, !.processes = processes, !.outbox = Append(@, m)]]
<1>1. client[c] \in Connections /\ client[c].inbox \in SUBSET ToServer /\ client[c].processes \in SUBSET Runs
  BY DEF CommandsInv, CommandsTypeOK, Connections
<1>2. client' \in [Clients -> Connections]
  <2>1. CASE ServeSpawn(c)
    <3>1. PICK m \in client[c].inbox, isSpawned \in BOOLEAN :
            /\ m.method = "spawn"
            /\ Sent(client[c].inbox \ {m}, IF isSpawned THEN client[c].processes \cup {m.run} ELSE client[c].processes,
                    [type |-> IF isSpawned THEN "spawned" ELSE "refused", run |-> m.run])
      BY <2>1 DEF ServeSpawn
    <3>2. m.run \in Runs  BY <1>1, <3>1 DEF ToServer
    <3>3. [type |-> IF isSpawned THEN "spawned" ELSE "refused", run |-> m.run] \in ToService
      BY <3>2 DEF ToService
    <3> QED BY <1>1, <3>1, <3>2, <3>3, SentType DEF CommandsInv
  <2>2. CASE ServeKill(c)
    <3>1. PICK m \in client[c].inbox :
            /\ m.method = "kill"
            /\ client' = [client EXCEPT ![c] = [client[c] EXCEPT
                 !.inbox = @ \ {m},
                 !.outbox = Append(@,
                   [type |-> IF stop[m.stop].run \in client[c].processes THEN "killed" ELSE "missing", stop |-> m.stop])]]
      BY <2>2 DEF ServeKill
    <3>2. m.stop \in Stops  BY <1>1, <3>1 DEF ToServer
    <3>3. [type |-> IF stop[m.stop].run \in client[c].processes THEN "killed" ELSE "missing", stop |-> m.stop] \in ToService
      BY <3>2 DEF ToService
    <3>4. Append(client[c].outbox, [type |-> IF stop[m.stop].run \in client[c].processes THEN "killed" ELSE "missing",
                                    stop |-> m.stop]) \in Seq(ToService)
      BY <1>1, <3>3 DEF Connections
    <3>5. [client[c] EXCEPT
             !.inbox = @ \ {m},
             !.outbox = Append(@,
               [type |-> IF stop[m.stop].run \in client[c].processes THEN "killed" ELSE "missing", stop |-> m.stop])]
            \in Connections
      BY <1>1, <3>4 DEF Connections
    <3> QED BY <3>1, <3>5 DEF CommandsInv, CommandsTypeOK
  <2>3. ASSUME NEW r \in Runs, ProcessExit(c, r)  PROVE client' \in [Clients -> Connections]
    <3>1. [type |-> "exited", run |-> r] \in ToService  BY DEF ToService
    <3>2. Append(client[c].outbox, [type |-> "exited", run |-> r]) \in Seq(ToService)
      BY <1>1, <3>1 DEF Connections
    <3>3. [client[c] EXCEPT !.processes = @ \ {r}, !.outbox = Append(@, [type |-> "exited", run |-> r])] \in Connections
      BY <1>1, <3>2 DEF Connections
    <3> QED BY <2>3, <3>3 DEF ProcessExit, CommandsInv, CommandsTypeOK
  <2> QED BY <2>1, <2>2, <2>3
<1>3. UNCHANGED <<call, serviceVars, stop, pool>>  BY DEF ServeSpawn, ServeKill, ProcessExit
<1> QED BY <1>2, <1>3, SameRunsInv DEF serviceVars, CommandsInv, CommandsTypeOK

\* The answer to a spawn: the launch is over, its run stays or has ended.
LEMMA HandleSpawnedInv ==
  ASSUME CommandsInv, NEW c \in Clients, HandleSpawned(c)
  PROVE  CommandsInv'
<1> DEFINE r == Head(client[c].outbox).run
<1>1. r \in Runs /\ client' \in [Clients -> Connections] /\ UNCHANGED pool
  BY ReceivedType, MessageOfRun DEF HandleSpawned, CommandsInv
<1>2. /\ IF call[r].at = "spawning"
           THEN call' = [call EXCEPT ![r].at = "returned"] /\ startingRuns' = startingRuns \ {r}
           ELSE UNCHANGED <<call, startingRuns>>
      /\ UNCHANGED <<runsById, runsByHandle, stoppingRuns, status, exits, stop>>
  BY DEF HandleSpawned
<1> HIDE DEF r
<1>3. CASE call[r].at = "spawning"
  <2>1. call[r] \in Calls /\ [call[r] EXCEPT !.at = "returned"] \in Calls
    BY <1>1 DEF CommandsInv, CommandsTypeOK, Calls
  <2>2. /\ call' \in [Runs -> Calls] /\ call'[r].at = "returned"
        /\ \A s \in Runs : /\ s # r => call'[s] = call[s]
                           /\ call'[s].request = call[s].request /\ call'[s].client = call[s].client
    BY <1>1, <1>2, <1>3, <2>1 DEF CommandsInv, CommandsTypeOK, Calls
  <2>3. CommandsTypeOK'  BY <1>1, <1>2, <1>3, <2>2 DEF CommandsInv, CommandsTypeOK
  <2>4. AdmittedInOrder'
    BY <1>1, <1>2, <1>3, <2>2 DEF CommandsInv, CommandsTypeOK, AdmittedInOrder
  <2>5. EndsAgree'
    BY <1>1, <1>2, <1>3, <2>2 DEF CommandsInv, CommandsTypeOK, EndsAgree, Early
  <2>6. NoneAdmitted  BY <1>2, <1>3, <2>2 DEF NoneAdmitted, RunningRuns
  <2> QED BY <2>3, <2>4, <2>5, <2>6, NoneAdmittedInv DEF CommandsInv
<1>4. CASE call[r].at # "spawning"
  BY <1>1, <1>2, <1>4, SameRunsInv DEF CommandsInv, CommandsTypeOK
<1> QED BY <1>3, <1>4

LEMMA HandleRefusedInv ==
  ASSUME CommandsInv, NEW c \in Clients, HandleRefused(c)
  PROVE  CommandsInv'
<1> DEFINE r == Head(client[c].outbox).run
<1>1. r \in Runs /\ client' \in [Clients -> Connections] /\ UNCHANGED pool
  BY ReceivedType, MessageOfRun DEF HandleRefused, CommandsInv
<1>2. (IF call[r].at = "spawning" THEN SpawnFails(r) ELSE UNCHANGED <<call, serviceVars>>) /\ UNCHANGED stop
  BY DEF HandleRefused
<1> HIDE DEF r
<1>3. CASE call[r].at = "spawning"
  <2>1. Refuses({r}) /\ Rest
    BY <1>1, <1>2, <1>3, OneRefused DEF SpawnFails, Rest, CommandsInv, CommandsTypeOK
  <2>2. Ends({} \cup {r})  BY <1>1, <1>2, <1>3, FinishEnds DEF SpawnFails, CommandsInv
  <2> QED BY <1>1, <1>3, <2>1, <2>2, EndsInv
<1>4. CASE call[r].at # "spawning"
  BY <1>1, <1>2, <1>4, SameRunsInv DEF serviceVars, CommandsInv, CommandsTypeOK
<1> QED BY <1>3, <1>4

\* An exit ends a run that is tracked, so one that was registered.
LEMMA HandleExitedInv ==
  ASSUME CommandsInv, NEW c \in Clients, HandleExited(c)
  PROVE  CommandsInv'
<1> DEFINE r == Head(client[c].outbox).run
<1>1. r \in Runs /\ client' \in [Clients -> Connections] /\ UNCHANGED pool
  BY ReceivedType, MessageOfRun DEF HandleExited, CommandsInv
<1>2. /\ IF r \in runsByHandle
           THEN /\ Finish({r}, {}, IF r \in stoppingRuns THEN "killed" ELSE "exited")
                /\ stoppingRuns' = stoppingRuns \ {r}
           ELSE UNCHANGED <<runsById, runsByHandle, stoppingRuns, status, exits>>
      /\ UNCHANGED <<call, startingRuns, stop>>
  BY DEF HandleExited
<1> HIDE DEF r
<1>3. Refuses({}) /\ Rest
  BY <1>1, <1>2, NothingRefused DEF Rest, CommandsInv, CommandsTypeOK
<1>4. CASE r \in runsByHandle
  <2>1. Ends({r} \cup {})  BY <1>1, <1>2, <1>4, FinishEnds DEF CommandsInv
  <2>2. call[r].at \notin Early  BY <1>1, <1>4 DEF CommandsInv, CommandsTypeOK, EndsAgree
  <2> QED BY <1>1, <1>3, <2>1, <2>2, EndsInv
<1>5. CASE r \notin runsByHandle
  <2>1. Ends({})  BY <1>2, <1>5, NothingEnds DEF CommandsInv
  <2> QED BY <1>3, <2>1, EndsInv
<1> QED BY <1>4, <1>5

\* The answers to a kill: a run that is unknown to the server ends again.
LEMMA HandleKillInv ==
  ASSUME CommandsInv, NEW c \in Clients, HandleKilled(c) \/ HandleMissing(c)
  PROVE  CommandsInv'
<1> DEFINE s == Head(client[c].outbox).stop
           r == stop[s].run
<1>1. s \in Stops /\ client' \in [Clients -> Connections] /\ UNCHANGED pool
  BY ReceivedType, MessageOfStop DEF HandleKilled, HandleMissing, CommandsInv
<1>2. stop[s] \in StopCalls /\ [stop[s] EXCEPT !.at = "done"] \in StopCalls
  BY <1>1 DEF CommandsInv, CommandsTypeOK, StopCalls
<1>3. UNCHANGED <<call, startingRuns>>  BY DEF HandleKilled, HandleMissing, serviceVars
<1>4. /\ stop' = (IF stop[s].at = "killing" THEN [stop EXCEPT ![s].at = "done"] ELSE stop)
      /\ stoppingRuns' \in SUBSET Runs
      /\ \/ stop[s].at = "killing" /\ Finish({r}, {}, "failed")
         \/ UNCHANGED <<runsById, runsByHandle, status, exits>>
  BY DEF HandleKilled, HandleMissing, serviceVars, CommandsInv, CommandsTypeOK
<1> HIDE DEF s
<1>5. Refuses({})  BY <1>3, NothingRefused DEF CommandsInv
<1>6. Rest
  <2>1. \A x \in Stops : stop'[x].run = stop[x].run /\ (stop'[x].at # "idle" => stop[x].at # "idle")
    BY <1>1, <1>2, <1>4 DEF CommandsInv, CommandsTypeOK, StopCalls
  <2>2. stop' \in [Stops -> StopCalls]  BY <1>1, <1>2, <1>4 DEF CommandsInv, CommandsTypeOK
  <2> QED BY <1>1, <1>4, <2>1, <2>2 DEF Rest, CommandsInv, CommandsTypeOK
<1>7. CASE stop[s].at = "killing" /\ Finish({r}, {}, "failed")
  <2>1. r \in Runs /\ call[r].at \notin Early  BY <1>1, <1>7 DEF CommandsInv, EndsAgree
  <2>2. Ends({r} \cup {})  BY <1>7, <2>1, FinishEnds DEF CommandsInv
  <2> QED BY <1>5, <1>6, <2>1, <2>2, EndsInv
<1>8. CASE UNCHANGED <<runsById, runsByHandle, status, exits>>
  <2>1. Ends({})  BY <1>8, NothingEnds DEF CommandsInv
  <2> QED BY <1>5, <1>6, <2>1, EndsInv
<1> QED BY <1>4, <1>7, <1>8

----------------------------------------------------------------------------
(* The theorems. *)

LEMMA CommandsStep ==
  ASSUME CommandsInv, [Next]_vars
  PROVE  CommandsInv'
<1>1. CASE UNCHANGED vars
  BY <1>1, SameRunsInv DEF vars, serviceVars, CommandsInv, CommandsTypeOK
<1>2. ASSUME NEW r \in Runs,
             Admit(r) \/ Prepare(r) \/ PrepareFails(r) \/ Launch(r) \/ LaunchFails(r) \/ SpawnTimeout(r)
      PROVE  CommandsInv'
  BY <1>2, AdmitInv, PrepareInv, LaunchInv, LaunchFailureInv
<1>3. ASSUME NEW c \in Clients, Handle(c)  PROVE CommandsInv'
  BY <1>3, HandleSpawnedInv, HandleRefusedInv, HandleExitedInv, HandleKillInv DEF Handle
<1>4. ASSUME NEW c \in Clients, Close(c)  PROVE CommandsInv'
  <2>1. SourceRuns(client[c].source) \in SUBSET RunningRuns  BY DEF SourceRuns
  <2> QED BY <1>4, <2>1, DisconnectInv DEF Close
<1>5. ASSUME NEW source \in Sources, Restart(source)  PROVE CommandsInv'
  <2>1. pool[source] \in Clients /\ {} \in SUBSET RunningRuns
    BY <1>5 DEF Restart, CommandsInv, CommandsTypeOK
  <2> QED BY <1>5, <2>1, DisconnectInv DEF Restart
<1> QED BY <1>1, <1>2, <1>3, <1>4, <1>5, StopInv, ServeInv DEF Next

LEMMA CommandsInit ==
  ASSUME Init
  PROVE  CommandsInv
<1>1. /\ [at |-> "none", request |-> Null, client |-> Null] \in Calls
      /\ [at |-> "idle", run |-> 0, client |-> Null] \in StopCalls
  BY DEF Calls, StopCalls
<1>2. [source |-> Null, isUp |-> FALSE, processes |-> {}, inbox |-> {}, outbox |-> <<>>] \in Connections
  <2>1. <<>> \in Seq(ToService)  OBVIOUS
  <2> QED BY <2>1 DEF Connections
<1>3. CommandsTypeOK  BY <1>1, <1>2 DEF Init, CommandsTypeOK
<1>4. AdmittedInOrder /\ EndsAgree  BY DEF Init, AdmittedInOrder, EndsAgree, Early
<1>5. NoConflictingRuns  BY DEF Init, NoConflictingRuns, RunningRuns
<1> QED BY <1>3, <1>4, <1>5 DEF CommandsInv

\* The inductive invariant, in every state and for any launches and stops.
THEOREM CommandsInvariant == Spec => []CommandsInv
<1>1. CommandsInv /\ [Next]_vars => CommandsInv'  BY CommandsStep
<1> QED BY <1>1, CommandsInit, PTL DEF Spec

\* The maps of ProjectCommandService hold runs, and the same ones by id and by
\* process handle.
THEOREM CommandsTyping == Spec => []CommandsTypeOK
BY CommandsInvariant, PTL DEF CommandsInv

\* Whatever the launches that are asked for and their interleaving, what
\* runCommand has admitted and is under way does not conflict: the set of
\* starting runs closes the gap between the check and the registration.
THEOREM RunsExclude == Spec => []NoConflictingRuns
BY CommandsInvariant, PTL DEF CommandsInv

\* No order of answers, exits, timers, closes and restarts loses a run whose
\* start was reported: it can be stopped or its end has been told.
THEOREM StartedRunsAreKept == Spec => []StartedIsKnownOrEnded
<1>1. CommandsInv => StartedIsKnownOrEnded  BY DEF CommandsInv, EndsAgree, StartedIsKnownOrEnded
<1> QED BY <1>1, CommandsInvariant, PTL

----------------------------------------------------------------------------
(* Marks of stops.  An end takes the mark of its run back, so a mark without *)
(* a tracked run was set after the end, by a stop that had to wait for a     *)
(* connection.  That connection is not the one of the run, and so answers    *)
(* that it does not know the process.                                        *)

\* A tracked run has a connection, and connections stay with their source.
ConnectionsAgree ==
  /\ \A r \in runsById : call[r].client \in Clients
  /\ \A x \in Sources : pool[x] # Null => client[pool[x]].source = x
  /\ \A r \in Runs : call[r].at # "none" /\ call[r].client # Null =>
       client[call[r].client].source = call[r].request.source

\* A process runs on the connection of its run.  A kill is asked for and
\* answered where stopRun sent it; only the connection of the run obeys.
RunIsOn(r, c) == call[r].at \notin Early /\ call[r].client = c
KillIsOn(s, c) == stop[s].at \in {"killing", "done"} /\ stop[s].client = c
RequestAgrees(m, c) == /\ m.method = "spawn" => RunIsOn(m.run, c)
                       /\ m.method = "kill" => KillIsOn(m.stop, c)
AnswerAgrees(m, c) == m.type = "killed" => KillIsOn(m.stop, c) /\ RunIsOn(stop[m.stop].run, c)
PipesAgree ==
  \A c \in Clients :
    /\ \A r \in client[c].processes : RunIsOn(r, c)
    /\ \A m \in client[c].inbox : RequestAgrees(m, c)
    /\ \A i \in DOMAIN client[c].outbox : AnswerAgrees(client[c].outbox[i], c)

\* A stop waits because the source of its run has lost the run's connection.
StopsAgree ==
  \A s \in Stops : stop[s].at = "ensuring" =>
    LET r == stop[s].run IN call[r].client \in Clients /\ pool[call[r].request.source] # call[r].client

LateKill(s, r) == stop[s].at = "killing" /\ stop[s].run = r /\ stop[s].client # call[r].client
MarksAgree ==
  \A r \in stoppingRuns : r \in runsById \/ \E s \in Stops : LateKill(s, r)

MarksInv == ConnectionsAgree /\ PipesAgree /\ StopsAgree /\ MarksAgree

\* What registered runs and sent kills keep in every step.
Kept ==
  /\ \A r \in Runs : call[r].at \notin Early =>
       call'[r].at \notin Early /\ call'[r].client = call[r].client /\ call'[r].request = call[r].request
  /\ \A s \in Stops : stop[s].at \in {"killing", "done"} =>
       stop'[s].at \in {"killing", "done"} /\ stop'[s].run = stop[s].run /\ stop'[s].client = stop[s].client

\* A step that makes no launch, no connection and no stop.
Steady ==
  /\ Kept
  /\ \A r \in Runs : /\ call'[r].client = call[r].client /\ call'[r].request = call[r].request
                     /\ call'[r].at # "none" => call[r].at # "none"
  /\ \A r \in runsById' : r \in runsById \/ call[r].client \in Clients
  /\ \A x \in Sources : pool'[x] \in {pool[x], Null}
  /\ \A c \in Clients : client[c].source # Null => client'[c].source = client[c].source
  /\ \A s \in Stops : stop'[s].at = "ensuring" => stop[s].at = "ensuring" /\ stop'[s].run = stop[s].run

\* Nothing new is in the pipes.
NothingSent ==
  \A c \in Clients :
    /\ client'[c].processes \subseteq client[c].processes /\ client'[c].inbox \subseteq client[c].inbox
    /\ \A i \in DOMAIN client'[c].outbox : \E j \in DOMAIN client[c].outbox : client'[c].outbox[i] = client[c].outbox[j]

LEMMA SourceOfRun ==
  ASSUME CommandsInv, NEW r \in Runs, call[r].at # "none"
  PROVE  call[r].request.source \in Sources /\ call[r].request.source # Null
BY RequestsAreContexts DEF CommandsInv, AdmittedInOrder, Sources

\* What messages say stays true.
LEMMA KeptAgrees ==
  ASSUME CommandsInv, Kept, NEW c \in Clients
  PROVE  /\ \A r \in Runs : RunIsOn(r, c) => RunIsOn(r, c)'
         /\ \A m \in ToServer : RequestAgrees(m, c) => RequestAgrees(m, c)'
         /\ \A m \in ToService : AnswerAgrees(m, c) => AnswerAgrees(m, c)'
<1>1. \A r \in Runs : RunIsOn(r, c) => RunIsOn(r, c)'
  BY DEF Kept, RunIsOn
<1>2. \A s \in Stops : KillIsOn(s, c) => KillIsOn(s, c)' /\ stop'[s].run = stop[s].run /\ stop[s].run \in Runs
  BY DEF Kept, KillIsOn, CommandsInv, EndsAgree
<1>3. \A m \in ToServer : (m.method = "spawn" => m.run \in Runs) /\ (m.method = "kill" => m.stop \in Stops)
  BY DEF ToServer
<1>4. \A m \in ToService : m.type = "killed" => m.stop \in Stops
  BY MessageOfStop
<1>5. \A m \in ToServer : RequestAgrees(m, c) => RequestAgrees(m, c)'
  BY <1>1, <1>2, <1>3 DEF RequestAgrees
<1>6. \A m \in ToService : AnswerAgrees(m, c) => AnswerAgrees(m, c)'
  BY <1>1, <1>2, <1>4 DEF AnswerAgrees
<1> QED BY <1>1, <1>5, <1>6

LEMMA PipesTyped ==
  ASSUME CommandsTypeOK, NEW c \in Clients
  PROVE  /\ client[c].processes \in SUBSET Runs /\ client[c].inbox \in SUBSET ToServer
         /\ client[c].outbox \in Seq(ToService)
         /\ \A i \in DOMAIN client[c].outbox : client[c].outbox[i] \in ToService
<1>1. client[c].outbox \in Seq(ToService)
  BY DEF CommandsTypeOK, Connections
<1>2. client[c].processes \in SUBSET Runs /\ client[c].inbox \in SUBSET ToServer
  BY DEF CommandsTypeOK, Connections
<1>3. \A i \in DOMAIN client[c].outbox : client[c].outbox[i] \in ToService
  BY <1>1
<1> QED BY <1>1, <1>2, <1>3

LEMMA PipesKept ==
  ASSUME CommandsInv, MarksInv, Kept, NothingSent
  PROVE  PipesAgree'
<1> SUFFICES ASSUME NEW c \in Clients
             PROVE  /\ \A r \in client'[c].processes : RunIsOn(r, c)'
                    /\ \A m \in client'[c].inbox : RequestAgrees(m, c)'
                    /\ \A i \in DOMAIN client'[c].outbox : AnswerAgrees(client[c].outbox[i], c)'
  BY DEF PipesAgree
<1>1. /\ client[c].processes \in SUBSET Runs /\ client[c].inbox \in SUBSET ToServer
      /\ \A i \in DOMAIN client[c].outbox : client[c].outbox[i] \in ToService
  BY PipesTyped DEF CommandsInv
<1>2. \A m \in ToService : AnswerAgrees(m, c) => AnswerAgrees(m, c)'
  BY KeptAgrees
<1>3. ASSUME NEW i \in DOMAIN client'[c].outbox
      PROVE  AnswerAgrees(client[c].outbox[i], c)'
  <2>1. PICK j \in DOMAIN client[c].outbox : client'[c].outbox[i] = client[c].outbox[j]
    BY DEF NothingSent
  <2>2. AnswerAgrees(client[c].outbox[j], c) /\ client[c].outbox[j] \in ToService
    BY <1>1 DEF MarksInv, PipesAgree
  <2>3. client'[c].outbox[i] \in ToService /\ AnswerAgrees(client'[c].outbox[i], c)
    BY <2>1, <2>2
  <2> QED BY <1>2, <2>1, <2>2 DEF AnswerAgrees, KillIsOn, RunIsOn
<1>4. \A r \in client'[c].processes : RunIsOn(r, c)'
  BY <1>1, KeptAgrees DEF NothingSent, MarksInv, PipesAgree
<1>5. \A m \in client'[c].inbox : RequestAgrees(m, c)'
  BY <1>1, KeptAgrees DEF NothingSent, MarksInv, PipesAgree
<1> QED BY <1>3, <1>4, <1>5

LEMMA SteadyAgrees ==
  ASSUME CommandsInv, MarksInv, Steady, CommandsTypeOK'
  PROVE  ConnectionsAgree' /\ StopsAgree'
<1>1. \A r \in runsById' : call'[r].client \in Clients
  BY DEF Steady, MarksInv, ConnectionsAgree, CommandsInv, CommandsTypeOK
<1>2. \A x \in Sources : pool'[x] # Null => client'[pool'[x]].source = x
  <2>1. \A x \in Sources : x # Null
    BY RequestsAreContexts DEF Sources
  <2>2. \A x \in Sources : pool[x] \in Clients \cup {Null}
    BY DEF CommandsInv, CommandsTypeOK
  <2> QED BY <2>1, <2>2 DEF Steady, MarksInv, ConnectionsAgree
<1>3. ASSUME NEW r \in Runs, call'[r].at # "none", call'[r].client # Null
      PROVE  client'[call'[r].client].source = call'[r].request.source
  <2>1. call'[r].client = call[r].client /\ call'[r].request = call[r].request /\ call[r].at # "none"
    BY <1>3 DEF Steady
  <2>2. call[r].client \in Clients
    BY <1>3, <2>1 DEF CommandsInv, CommandsTypeOK, Calls
  <2>3. client[call[r].client].source = call[r].request.source /\ call[r].request.source # Null
    BY <1>3, <2>1, SourceOfRun DEF MarksInv, ConnectionsAgree
  <2> QED BY <2>1, <2>2, <2>3 DEF Steady
<1>4. StopsAgree'
  <2> SUFFICES ASSUME NEW s \in Stops, stop'[s].at = "ensuring"
               PROVE  /\ call'[stop'[s].run].client \in Clients
                      /\ pool'[call'[stop'[s].run].request.source] # call'[stop'[s].run].client
    BY DEF StopsAgree
  <2>1. stop[s].at = "ensuring" /\ stop'[s].run = stop[s].run
    BY DEF Steady
  <2>2. stop[s].run \in Runs /\ call[stop[s].run].at # "none"
    BY <2>1 DEF CommandsInv, EndsAgree, Early
  <2>3. /\ call[stop[s].run].client \in Clients /\ call[stop[s].run].request.source \in Sources
        /\ pool[call[stop[s].run].request.source] # call[stop[s].run].client
    BY <2>1, <2>2, SourceOfRun DEF MarksInv, StopsAgree
  <2>4. call'[stop[s].run].client = call[stop[s].run].client /\ call'[stop[s].run].request = call[stop[s].run].request
    BY <2>2 DEF Steady
  <2>5. pool'[call[stop[s].run].request.source] \in {pool[call[stop[s].run].request.source], Null}
    BY <2>3 DEF Steady
  <2> QED BY <2>1, <2>3, <2>4, <2>5, NullIsNoClient
<1> QED BY <1>1, <1>2, <1>3, <1>4 DEF ConnectionsAgree

\* Launches go on or fail, stops end, and connections are at most lost.
GoesOn(r) ==
  /\ call'[r].client = call[r].client /\ call'[r].request = call[r].request
  /\ \/ call'[r].at = call[r].at
     \/ call[r].at \in {"preparing", "holding", "spawning"} /\ call'[r].at \in {"spawning", "returned", "refused"}
StopEnds(s) ==
  stop'[s].run = stop[s].run /\ stop'[s].client = stop[s].client /\ stop'[s].at \in {stop[s].at, "done"}
OnlyLost ==
  /\ \A x \in Sources : pool'[x] \in {pool[x], Null}
  /\ \A c \in Clients : client[c].source # Null => client'[c].source = client[c].source

LEMMA GoingOnIsSteady ==
  ASSUME CommandsInv, \A r \in Runs : GoesOn(r), \A s \in Stops : stop[s].at # "idle" => StopEnds(s),
         \A s \in Stops : stop'[s].at = "ensuring" => StopEnds(s), OnlyLost,
         \A r \in runsById' : r \in runsById \/ call[r].client \in Clients
  PROVE  Steady
<1>1. Kept
  BY DEF Kept, GoesOn, StopEnds, Early
<1>2. \A r \in Runs : /\ call'[r].client = call[r].client /\ call'[r].request = call[r].request
                      /\ call'[r].at # "none" => call[r].at # "none"
  BY DEF GoesOn
<1>3. \A s \in Stops : stop'[s].at = "ensuring" => stop[s].at = "ensuring" /\ stop'[s].run = stop[s].run
  BY DEF StopEnds
<1> QED BY <1>1, <1>2, <1>3 DEF Steady, OnlyLost

\* No mark is set, and what keeps a mark stays or the mark is taken back.
LEMMA MarksStay ==
  ASSUME CommandsInv, MarksInv, Kept, stoppingRuns' \subseteq stoppingRuns,
         \A r \in stoppingRuns' : r \in runsById => r \in runsById',
         \A s \in Stops : LateKill(s, stop[s].run) /\ stop[s].run \in stoppingRuns' => stop'[s].at = "killing"
  PROVE  MarksAgree'
<1> SUFFICES ASSUME NEW r \in stoppingRuns'
             PROVE  r \in runsById' \/ \E s \in Stops : LateKill(s, r)'
  BY DEF MarksAgree
<1>1. r \in runsById \/ \E s \in Stops : LateKill(s, r)
  BY DEF MarksInv, MarksAgree
<1>2. ASSUME NEW s \in Stops, LateKill(s, r)
      PROVE  LateKill(s, r)'
  <2>1. stop[s].at = "killing" /\ stop[s].run = r /\ stop[s].client # call[r].client
    BY <1>2 DEF LateKill
  <2>2. stop'[s].at = "killing"
    BY <1>2, <2>1
  <2>3. r \in Runs /\ call[r].at \notin Early
    BY <2>1 DEF CommandsInv, EndsAgree
  <2>4. stop'[s].run = r /\ stop'[s].client = stop[s].client /\ call'[r].client = call[r].client
    BY <2>1, <2>3 DEF Kept
  <2> QED BY <2>1, <2>2, <2>4 DEF LateKill
<1> QED BY <1>1, <1>2

LEMMA QuietMarks ==
  ASSUME CommandsInv, MarksInv, CommandsTypeOK',
         \A r \in Runs : GoesOn(r), \A s \in Stops : StopEnds(s), OnlyLost, NothingSent,
         runsById' \subseteq runsById, stoppingRuns' \subseteq stoppingRuns,
         \A r \in stoppingRuns' : r \in runsById => r \in runsById',
         \A s \in Stops : LateKill(s, stop[s].run) /\ stop[s].run \in stoppingRuns' => stop'[s].at = "killing"
  PROVE  MarksInv'
<1>1. Steady
  BY GoingOnIsSteady
<1>2. Kept
  BY <1>1 DEF Steady
<1>3. ConnectionsAgree' /\ StopsAgree' /\ PipesAgree'
  BY <1>1, <1>2, SteadyAgrees, PipesKept
<1>4. MarksAgree'
  BY <1>2, MarksStay
<1> QED BY <1>3, <1>4 DEF MarksInv

LEMMA NothingIsSent ==
  ASSUME UNCHANGED client
  PROVE  NothingSent /\ \A c \in Clients : client'[c].source = client[c].source
BY DEF NothingSent

LEMMA ReceivingSendsNothing ==
  ASSUME CommandsTypeOK, NEW c \in Clients, NEW type, Receive(c, type)
  PROVE  /\ NothingSent /\ OnlyLost
         /\ 1 \in DOMAIN client[c].outbox /\ Head(client[c].outbox) = client[c].outbox[1]
<1>1. client[c] \in Connections /\ client[c].outbox \in Seq(ToService) /\ client[c].outbox # <<>>
  BY DEF Receive, CommandsTypeOK, Connections
<1>2. /\ Head(client[c].outbox) = client[c].outbox[1] /\ 1 \in DOMAIN client[c].outbox
      /\ \A i \in DOMAIN Tail(client[c].outbox) :
           i + 1 \in DOMAIN client[c].outbox /\ Tail(client[c].outbox)[i] = client[c].outbox[i + 1]
  <2> DEFINE box == client[c].outbox
  <2>1. Len(box) \in Nat /\ Len(box) > 0 /\ DOMAIN box = 1..Len(box)
    BY <1>1
  <2>2. Len(Tail(box)) = Len(box) - 1 /\ DOMAIN Tail(box) = 1..(Len(box) - 1)
    BY <1>1, <2>1
  <2> QED BY <1>1, <2>1, <2>2
<1>3. \A d \in Clients : /\ client'[d].source = client[d].source /\ client'[d].processes = client[d].processes
                         /\ client'[d].inbox = client[d].inbox
                         /\ client'[d].outbox = IF d = c THEN Tail(client[c].outbox) ELSE client[d].outbox
  BY <1>1 DEF Receive, CommandsTypeOK, Connections
<1>4. NothingSent
  <2> SUFFICES ASSUME NEW d \in Clients, NEW i \in DOMAIN client'[d].outbox
               PROVE  \E j \in DOMAIN client[d].outbox : client'[d].outbox[i] = client[d].outbox[j]
    BY <1>3 DEF NothingSent
  <2>1. CASE d = c
    <3>1. client'[d].outbox = Tail(client[c].outbox)
      BY <1>3, <2>1
    <3>2. i + 1 \in DOMAIN client[c].outbox /\ client'[d].outbox[i] = client[c].outbox[i + 1]
      BY <1>2, <3>1
    <3> QED BY <2>1, <3>2
  <2>2. CASE d # c
    <3>1. client'[d].outbox = client[d].outbox
      BY <1>3, <2>2
    <3> QED BY <3>1
  <2> QED BY <2>1, <2>2
<1>5. OnlyLost
  BY <1>3 DEF OnlyLost, Receive
<1> QED BY <1>2, <1>4, <1>5

\* A launch is admitted with the connection its source has, if it has one.
LEMMA AdmitMarks ==
  ASSUME CommandsInv, MarksInv, NEW r \in Runs, Admit(r)
  PROVE  MarksInv'
<1>1. PICK q \in Requests :
        call' = [call EXCEPT ![r] =
          [at |-> IF pool[q.source] = Null THEN "preparing" ELSE "holding", request |-> q, client |-> pool[q.source]]]
  BY DEF Admit
<1>2. UNCHANGED <<runsById, stoppingRuns, stop, pool, client>> /\ call[r].at = "none"
  BY DEF Admit
<1>3. /\ call'[r].request = q /\ call'[r].client = pool[q.source] /\ call'[r].at \in {"preparing", "holding"}
      /\ \A x \in Runs : x # r => call'[x] = call[x]
  BY <1>1 DEF CommandsInv, CommandsTypeOK
<1>4. Kept
  BY <1>2, <1>3 DEF Kept, Early
<1>5. /\ r \notin runsById /\ runsById \subseteq Runs /\ stoppingRuns \subseteq Runs
      /\ \A s \in Stops : stop[s].at # "idle" => stop[s].run \in Runs /\ stop[s].run # r
  BY <1>2 DEF CommandsInv, CommandsTypeOK, EndsAgree, Early
<1>6. PipesAgree'
  BY <1>2, <1>4, NothingIsSent, PipesKept
<1>7. ConnectionsAgree'
  <2>1. q.source \in Sources
    BY DEF Sources
  <2> QED BY <1>2, <1>3, <1>5, <2>1 DEF MarksInv, ConnectionsAgree
<1>8. StopsAgree'
  BY <1>2, <1>3, <1>5 DEF MarksInv, StopsAgree
<1>9. MarksAgree'
  <2>1. r \notin stoppingRuns
    BY <1>2, <1>5 DEF MarksInv, MarksAgree, LateKill
  <2>2. \A x \in stoppingRuns : call'[x] = call[x]
    BY <1>3, <1>5, <2>1
  <2> QED BY <1>2, <2>2 DEF MarksInv, MarksAgree, LateKill
<1> QED BY <1>6, <1>7, <1>8, <1>9 DEF MarksInv

\* A connection that is made is that of no run.
LEMMA EnsureAgrees ==
  ASSUME CommandsInv, MarksInv, NEW source \in Sources, NEW c \in Clients, Ensure(source, c)
  PROVE  /\ client[c].source \in {Null, source}
         /\ \A x \in Sources : pool'[x] = (IF x = source THEN c ELSE pool[x])
         /\ \A r \in Runs : /\ call[r].at # "none" /\ call[r].client \in Clients
                            /\ pool[call[r].request.source] # call[r].client
                            => pool'[call[r].request.source] # call[r].client
<1>1. client[c].source \in {Null, source} /\ \A x \in Sources : pool'[x] = (IF x = source THEN c ELSE pool[x])
  BY DEF Ensure, MarksInv, ConnectionsAgree, CommandsInv, CommandsTypeOK
<1>2. ASSUME NEW r \in Runs, call[r].at # "none", call[r].client \in Clients,
             pool[call[r].request.source] # call[r].client
      PROVE  pool'[call[r].request.source] # call[r].client
  <2>1. call[r].request.source \in Sources /\ client[call[r].client].source # Null
    BY <1>2, SourceOfRun, NullIsNoClient DEF MarksInv, ConnectionsAgree
  <2>2. CASE pool[source] # Null
    BY <1>2, <2>1, <2>2 DEF Ensure
  <2>3. CASE pool[source] = Null
    BY <1>1, <1>2, <2>1, <2>3 DEF Ensure
  <2> QED BY <2>2, <2>3
<1> QED BY <1>1, <1>2

LEMMA PrepareMarks ==
  ASSUME CommandsInv, MarksInv, NEW r \in Runs, Prepare(r)
  PROVE  MarksInv'
<1> DEFINE source == call[r].request.source
<1>1. PICK c \in Clients :
        /\ Ensure(source, c)
        /\ call' = [call EXCEPT ![r].at = "holding", ![r].client = c]
        /\ client' = IF pool[source] # Null THEN client
                       ELSE [client EXCEPT ![c] = [client[c] EXCEPT !.source = source, !.isUp = TRUE]]
  BY DEF Prepare
<1>2. UNCHANGED <<runsById, stoppingRuns, stop>> /\ call[r].at = "preparing"
  BY DEF Prepare, serviceVars
<1>3. source \in Sources /\ source # Null
  BY <1>2, SourceOfRun
<1>4. /\ call'[r].request = call[r].request /\ call'[r].client = c /\ call'[r].at = "holding"
      /\ \A x \in Runs : x # r => call'[x] = call[x]
  BY <1>1 DEF CommandsInv, CommandsTypeOK, Calls
<1>5. /\ \A d \in Clients : /\ client'[d].source = IF d = c THEN source ELSE client[d].source
                            /\ client'[d].processes = client[d].processes /\ client'[d].inbox = client[d].inbox
                            /\ client'[d].outbox = client[d].outbox
      /\ client[c].source \in {Null, source}
  <2>1. client[c].source \in {Null, source}
    BY <1>1, <1>3, EnsureAgrees
  <2>2. CASE pool[source] # Null
    <3>1. client' = client /\ client[c].source = source
      BY <1>1, <1>3, <2>2 DEF Ensure, MarksInv, ConnectionsAgree
    <3> QED BY <2>1, <3>1
  <2>3. CASE pool[source] = Null
    BY <1>1, <2>1, <2>3 DEF CommandsInv, CommandsTypeOK, Connections
  <2> QED BY <2>2, <2>3
<1> HIDE DEF source
<1>6. Kept
  BY <1>2, <1>4 DEF Kept, Early
<1>7. /\ r \notin runsById /\ runsById \subseteq Runs /\ stoppingRuns \subseteq Runs
      /\ \A s \in Stops : stop[s].at # "idle" => stop[s].run \in Runs /\ stop[s].run # r /\ call[stop[s].run].at # "none"
  BY <1>2 DEF CommandsInv, CommandsTypeOK, EndsAgree, Early
<1>8. PipesAgree'
  <2>1. NothingSent
    BY <1>5 DEF NothingSent
  <2> QED BY <1>6, <2>1, PipesKept
<1>9. ConnectionsAgree'
  <2>1. \A x \in runsById' : call'[x].client \in Clients
    BY <1>2, <1>4, <1>7 DEF MarksInv, ConnectionsAgree
  <2>2. \A x \in Sources : pool'[x] # Null => client'[pool'[x]].source = x
    <3>1. \A x \in Sources : pool'[x] = (IF x = source THEN c ELSE pool[x]) /\ pool[x] \in Clients \cup {Null} /\ x # Null
      <4>1. \A x \in Sources : pool'[x] = (IF x = source THEN c ELSE pool[x])
        BY <1>1, <1>3, EnsureAgrees
      <4>2. \A x \in Sources : x # Null
        BY RequestsAreContexts DEF Sources
      <4> QED BY <4>1, <4>2 DEF CommandsInv, CommandsTypeOK
    <3> QED BY <1>5, <3>1 DEF MarksInv, ConnectionsAgree
  <2>3. ASSUME NEW x \in Runs, call'[x].at # "none", call'[x].client # Null
        PROVE  client'[call'[x].client].source = call'[x].request.source
    <3>1. CASE x = r
      BY <1>4, <1>5, <3>1 DEF source
    <3>2. CASE x # r
      <4>1. call'[x] = call[x] /\ call[x].client \in Clients /\ call[x].request.source # Null
            /\ client[call[x].client].source = call[x].request.source
        BY <1>4, <2>3, <3>2, SourceOfRun DEF MarksInv, ConnectionsAgree, CommandsInv, CommandsTypeOK, Calls
      <4> QED BY <1>5, <4>1
    <3> QED BY <3>1, <3>2
  <2> QED BY <2>1, <2>2, <2>3 DEF ConnectionsAgree
<1>10. StopsAgree'
  <2> SUFFICES ASSUME NEW s \in Stops, stop[s].at = "ensuring"
               PROVE  /\ call'[stop[s].run].client \in Clients
                      /\ pool'[call'[stop[s].run].request.source] # call'[stop[s].run].client
    BY <1>2 DEF StopsAgree
  <2>1. call'[stop[s].run] = call[stop[s].run] /\ stop[s].run \in Runs /\ call[stop[s].run].at # "none"
    BY <1>4, <1>7
  <2>2. call[stop[s].run].client \in Clients /\ pool[call[stop[s].run].request.source] # call[stop[s].run].client
    BY DEF MarksInv, StopsAgree
  <2>3. pool'[call[stop[s].run].request.source] # call[stop[s].run].client
    BY <1>1, <1>3, <2>1, <2>2, EnsureAgrees
  <2> QED BY <2>1, <2>2, <2>3
<1>11. MarksAgree'
  <2>1. r \notin stoppingRuns
    BY <1>2, <1>7 DEF MarksInv, MarksAgree, LateKill
  <2>2. \A x \in stoppingRuns : call'[x] = call[x]
    BY <1>4, <1>7, <2>1
  <2> QED BY <1>2, <2>2 DEF MarksInv, MarksAgree, LateKill
<1> QED BY <1>8, <1>9, <1>10, <1>11 DEF MarksInv

\* What a request does to the connections.
LEMMA RequestSends ==
  ASSUME CommandsTypeOK, NEW c \in Clients, NEW source \in Sources, NEW m \in ToServer,
         client' = WithRequest(c, source, m)
  PROVE  \A d \in Clients : /\ client'[d].source = IF d = c THEN source ELSE client[d].source
                            /\ client'[d].processes = client[d].processes
                            /\ client'[d].inbox = IF d = c THEN client[c].inbox \cup {m} ELSE client[d].inbox
                            /\ client'[d].outbox = client[d].outbox
BY DEF WithRequest, CommandsTypeOK, Connections

LEMMA RequestAgreed ==
  ASSUME CommandsInv, MarksInv, Kept, NEW c \in Clients, NEW source \in Sources, NEW m \in ToServer,
         client' = WithRequest(c, source, m), RequestAgrees(m, c)'
  PROVE  PipesAgree'
<1> SUFFICES ASSUME NEW d \in Clients
             PROVE  /\ \A r \in client'[d].processes : RunIsOn(r, d)'
                    /\ \A x \in client'[d].inbox : RequestAgrees(x, d)'
                    /\ \A i \in DOMAIN client'[d].outbox : AnswerAgrees(client[d].outbox[i], d)'
  BY DEF PipesAgree
<1>1. /\ client[d].processes \in SUBSET Runs /\ client[d].inbox \in SUBSET ToServer
      /\ \A i \in DOMAIN client[d].outbox : client[d].outbox[i] \in ToService
  BY PipesTyped DEF CommandsInv
<1>2. /\ client'[d].processes = client[d].processes /\ client'[d].outbox = client[d].outbox
      /\ client'[d].inbox = IF d = c THEN client[c].inbox \cup {m} ELSE client[d].inbox
  BY RequestSends DEF CommandsInv
<1>3. /\ \A r \in client[d].processes : RunIsOn(r, d)
      /\ \A x \in client[d].inbox : RequestAgrees(x, d)
      /\ \A i \in DOMAIN client[d].outbox : AnswerAgrees(client[d].outbox[i], d)
  BY DEF MarksInv, PipesAgree
<1>4. \A r \in client'[d].processes : RunIsOn(r, d)'
  BY <1>1, <1>2, <1>3, KeptAgrees
<1>5. \A x \in client'[d].inbox : RequestAgrees(x, d)'
  BY <1>1, <1>2, <1>3, KeptAgrees
<1>6. ASSUME NEW i \in DOMAIN client'[d].outbox
      PROVE  AnswerAgrees(client[d].outbox[i], d)'
  <2>1. i \in DOMAIN client[d].outbox /\ client'[d].outbox[i] = client[d].outbox[i]
    BY <1>2
  <2>2. \A x \in ToService : AnswerAgrees(x, d) => AnswerAgrees(x, d)'
    BY KeptAgrees
  <2> QED BY <1>1, <1>3, <2>1, <2>2 DEF AnswerAgrees, KillIsOn, RunIsOn
<1> QED BY <1>4, <1>5, <1>6

\* The spawn is sent to the connection of the run.
LEMMA LaunchMarks ==
  ASSUME CommandsInv, MarksInv, CommandsTypeOK', NEW r \in Runs, Launch(r)
  PROVE  MarksInv'
<1> DEFINE source == call[r].request.source
           m == [method |-> "spawn", run |-> r]
<1>0. PICK c \in Clients : c = call[r].client
  BY DEF Launch, CommandsInv, AdmittedInOrder
<1>1. /\ call[r].at = "holding" /\ c \in Clients /\ source \in Sources /\ client[c].source = source
      /\ UNCHANGED <<stoppingRuns, stop, pool>> /\ runsById' = runsById \cup {r}
      /\ client' = WithRequest(c, source, m) /\ m \in ToServer
  <2>1. call[r].at = "holding"
    BY DEF Launch
  <2> QED BY <1>0, <2>1, SourceOfRun, NullIsNoClient DEF Launch, MarksInv, ConnectionsAgree, ToServer
<1>2. /\ call'[r].at = "spawning" /\ call'[r].client = c /\ call'[r].request = call[r].request
      /\ \A x \in Runs : x # r => call'[x] = call[x]
  BY <1>0 DEF Launch, CommandsInv, CommandsTypeOK, Calls
<1>3. \A d \in Clients : client'[d].source = client[d].source
  BY <1>1, RequestSends DEF CommandsInv
<1>4. Steady
  <2>1. \A x \in Runs : GoesOn(x)
    BY <1>0, <1>1, <1>2 DEF GoesOn
  <2>2. \A s \in Stops : StopEnds(s)
    BY <1>1 DEF StopEnds
  <2>3. OnlyLost
    BY <1>1, <1>3 DEF OnlyLost
  <2> QED BY <1>0, <1>1, <2>1, <2>2, <2>3, GoingOnIsSteady
<1>5. RequestAgrees(m, c)'
  BY <1>2 DEF RequestAgrees, RunIsOn, Early
<1>6. PipesAgree'
  <2> HIDE DEF source, m
  <2>1. Kept
    BY <1>4 DEF Steady
  <2> QED BY <1>1, <1>5, <2>1, RequestAgreed
<1>7. MarksAgree'
  BY <1>1, <1>4, MarksStay DEF Steady, LateKill
<1> QED BY <1>4, <1>6, <1>7, SteadyAgrees DEF MarksInv

LEMMA RefusedGoesOn ==
  ASSUME NEW refused \in SUBSET Runs, Refuses(refused),
         \A r \in refused : call[r].at \in {"preparing", "holding", "spawning"}
  PROVE  \A r \in Runs : GoesOn(r) /\ (r \in refused => call'[r].at = "refused")
BY DEF Refuses, GoesOn

LEMMA LaunchFailureMarks ==
  ASSUME CommandsInv, MarksInv, CommandsTypeOK', NEW r \in Runs, PrepareFails(r) \/ LaunchFails(r) \/ SpawnTimeout(r)
  PROVE  MarksInv'
<1>1. /\ UNCHANGED <<stop, pool, client>> /\ call[r].at \in {"preparing", "holding", "spawning"}
      /\ call' = [call EXCEPT ![r].at = "refused"] /\ startingRuns' = startingRuns \ {r}
      /\ runsById' \subseteq runsById /\ runsById \subseteq runsById' \cup {r} /\ stoppingRuns' \subseteq stoppingRuns
  BY DEF PrepareFails, LaunchFails, SpawnTimeout, SpawnFails, Finish
<1>2. \A x \in Runs : GoesOn(x) /\ (x = r => call'[x].at = "refused")
  <2>1. Refuses({r})
    BY <1>1, OneRefused DEF CommandsInv
  <2> QED BY <1>1, <2>1, RefusedGoesOn
<1>3. (\A s \in Stops : StopEnds(s)) /\ OnlyLost /\ NothingSent
  BY <1>1, NothingIsSent DEF StopEnds, OnlyLost
<1>4. r \notin runsById \/ r \notin stoppingRuns'
  <2>1. CASE PrepareFails(r) \/ LaunchFails(r)
    <3>1. call[r].at \in Early  BY <2>1 DEF PrepareFails, LaunchFails, Early
    <3> QED BY <3>1 DEF CommandsInv, EndsAgree
  <2>2. CASE SpawnTimeout(r)
    BY <2>2 DEF SpawnTimeout, SpawnFails
  <2> QED BY <2>1, <2>2
<1> QED BY <1>1, <1>2, <1>3, <1>4, QuietMarks DEF LateKill

\* A kill goes to the connection of the source, and to that of the run while
\* the run is tracked.
LEMMA KillMarks ==
  ASSUME CommandsInv, MarksInv, NEW s \in Stops, NEW r \in Runs, NEW c \in Clients, Kill(s, r, c),
         stop[s].at \in {"idle", "ensuring"}, call[r].at \notin Early,
         client[c].source \in {Null, call[r].request.source},
         r \in runsById \/ c # call[r].client,
         \A x \in Sources : pool'[x] = (IF x = call[r].request.source THEN c ELSE pool[x]),
         \A x \in Runs : /\ call[x].at # "none" /\ call[x].client \in Clients
                         /\ pool[call[x].request.source] # call[x].client
                         => pool'[call[x].request.source] # call[x].client
  PROVE  MarksInv'
<1> DEFINE source == call[r].request.source
           m == [method |-> "kill", stop |-> s]
<1>1. /\ UNCHANGED <<call, runsById>> /\ stoppingRuns' = stoppingRuns \cup {r}
      /\ client' = WithRequest(c, source, m) /\ m \in ToServer
      /\ stop'[s].at = "killing" /\ stop'[s].run = r /\ stop'[s].client = c
      /\ \A x \in Stops : x # s => stop'[x] = stop[x]
  BY DEF Kill, ToServer, CommandsInv, CommandsTypeOK
<1>2. source \in Sources /\ source # Null
  BY SourceOfRun DEF Early
<1>3. Kept
  BY <1>1 DEF Kept
<1>4. RequestAgrees(m, c)'
  BY <1>1 DEF RequestAgrees, KillIsOn
<1> HIDE DEF m
<1>5. PipesAgree'
  BY <1>1, <1>2, <1>3, <1>4, RequestAgreed
<1>6. \A d \in Clients : client'[d].source = IF d = c THEN source ELSE client[d].source
  <2> HIDE DEF source
  <2>1. CommandsTypeOK
    BY DEF CommandsInv
  <2> QED BY <1>1, <1>2, <2>1, RequestSends
<1>7. ConnectionsAgree'
  <2>1. \A x \in Sources : pool'[x] # Null => client'[pool'[x]].source = x
    <3>1. \A x \in Sources : pool[x] \in Clients \cup {Null} /\ x # Null
      BY RequestsAreContexts DEF CommandsInv, CommandsTypeOK, Sources
    <3> QED BY <1>6, <3>1 DEF MarksInv, ConnectionsAgree
  <2>2. ASSUME NEW x \in Runs, call[x].at # "none", call[x].client # Null
        PROVE  client'[call[x].client].source = call[x].request.source
    <3>1. call[x].client \in Clients /\ call[x].request.source # Null
          /\ client[call[x].client].source = call[x].request.source
      BY <2>2, SourceOfRun DEF MarksInv, ConnectionsAgree, CommandsInv, CommandsTypeOK, Calls
    <3> QED BY <1>6, <3>1
  <2> QED BY <1>1, <2>1, <2>2 DEF MarksInv, ConnectionsAgree
<1>8. StopsAgree'
  <2> SUFFICES ASSUME NEW x \in Stops, stop'[x].at = "ensuring"
               PROVE  /\ call[stop'[x].run].client \in Clients
                      /\ pool'[call[stop'[x].run].request.source] # call[stop'[x].run].client
    BY <1>1 DEF StopsAgree
  <2>1. stop'[x] = stop[x] /\ stop[x].run \in Runs /\ call[stop[x].run].at # "none"
    BY <1>1 DEF CommandsInv, EndsAgree, Early
  <2>2. call[stop[x].run].client \in Clients /\ pool[call[stop[x].run].request.source] # call[stop[x].run].client
    BY <2>1 DEF MarksInv, StopsAgree
  <2> QED BY <2>1, <2>2
<1>9. MarksAgree'
  <2> SUFFICES ASSUME NEW x \in stoppingRuns \cup {r}
               PROVE  x \in runsById \/ \E y \in Stops : LateKill(y, x)'
    BY <1>1 DEF MarksAgree
  <2>1. CASE x = r
    BY <1>1, <2>1 DEF LateKill
  <2>2. CASE x # r
    BY <1>1, <2>2 DEF MarksInv, MarksAgree, LateKill
  <2> QED BY <2>1, <2>2
<1> QED BY <1>5, <1>7, <1>8, <1>9 DEF MarksInv

LEMMA StopMarks ==
  ASSUME CommandsInv, MarksInv, CommandsTypeOK', NEW s \in Stops, StopBegin(s) \/ StopKill(s) \/ StopFails(s) \/ KillTimeout(s)
  PROVE  MarksInv'
<1>1. CASE StopBegin(s)
  <2>1. PICK r \in RunningRuns :
          LET c == pool[call[r].request.source] IN
          \/ c # Null /\ Kill(s, r, c) /\ UNCHANGED pool
          \/ /\ c = Null
             /\ stop' = [stop EXCEPT ![s] = [at |-> "ensuring", run |-> r, client |-> Null]]
             /\ UNCHANGED <<call, serviceVars, pool, client>>
    BY <1>1 DEF StopBegin
  <2>2. /\ r \in Runs /\ r \in runsById /\ call[r].at \notin Early /\ call[r].client \in Clients
        /\ stop[s].at = "idle"
    BY <1>1 DEF StopBegin, RunningRuns, CommandsInv, CommandsTypeOK, EndsAgree, MarksInv, ConnectionsAgree
  <2>3. call[r].request.source \in Sources /\ call[r].request.source # Null
    BY <2>2, SourceOfRun DEF Early
  <2>4. CASE pool[call[r].request.source] # Null
    <3>1. PICK c \in Clients : c = pool[call[r].request.source]
      BY <2>3, <2>4 DEF CommandsInv, CommandsTypeOK
    <3>2. Kill(s, r, c) /\ UNCHANGED pool /\ client[c].source = call[r].request.source
      BY <2>1, <2>3, <2>4, <3>1 DEF MarksInv, ConnectionsAgree
    <3> QED BY <2>2, <2>3, <3>1, <3>2, KillMarks
  <2>5. CASE pool[call[r].request.source] = Null
    <3>1. /\ UNCHANGED <<call, serviceVars, pool, client>>
          /\ stop' = [stop EXCEPT ![s] = [at |-> "ensuring", run |-> r, client |-> Null]]
      BY <2>1, <2>5
    <3>2. stop'[s].at = "ensuring" /\ stop'[s].run = r /\ \A x \in Stops : x # s => stop'[x] = stop[x]
      BY <3>1 DEF CommandsInv, CommandsTypeOK
    <3>3. Kept
      BY <2>2, <3>1, <3>2 DEF Kept
    <3>4. PipesAgree'
      BY <3>1, <3>3, NothingIsSent, PipesKept
    <3>5. ConnectionsAgree'
      BY <3>1 DEF serviceVars, MarksInv, ConnectionsAgree
    <3>6. StopsAgree'
      BY <2>2, <2>5, <3>1, <3>2, NullIsNoClient DEF MarksInv, StopsAgree
    <3>7. MarksAgree'
      BY <2>2, <3>1, <3>2 DEF serviceVars, MarksInv, MarksAgree, LateKill
    <3> QED BY <3>4, <3>5, <3>6, <3>7 DEF MarksInv
  <2> QED BY <2>4, <2>5
<1>2. CASE StopKill(s)
  <2>1. PICK r \in Runs : r = stop[s].run
    BY <1>2 DEF StopKill, CommandsInv, EndsAgree
  <2>2. stop[s].at = "ensuring" /\ call[r].at \notin Early
    BY <1>2, <2>1 DEF StopKill, CommandsInv, EndsAgree
  <2>3. PICK c \in Clients : Ensure(call[r].request.source, c) /\ Kill(s, r, c)
    BY <1>2, <2>1 DEF StopKill
  <2>4. call[r].request.source \in Sources /\ call[r].at # "none"
    BY <2>2, SourceOfRun DEF Early
  <2>5. call[r].client \in Clients /\ pool[call[r].request.source] # call[r].client
    BY <2>1, <2>2 DEF MarksInv, StopsAgree
  <2>6. c # call[r].client
    BY <2>3, <2>4, <2>5, EnsureAgrees
  <2> QED BY <2>2, <2>3, <2>4, <2>6, EnsureAgrees, KillMarks
<1>3. CASE StopFails(s) \/ KillTimeout(s)
  <2>1. /\ UNCHANGED <<call, runsById, pool, client>>
        /\ stop' = [stop EXCEPT ![s].at = "done"] /\ stoppingRuns' \subseteq stoppingRuns
        /\ stop[s].at = "killing" => stop[s].run \notin stoppingRuns'
    BY <1>3 DEF StopFails, KillTimeout, serviceVars
  <2>2. \A x \in Stops : StopEnds(x) /\ (x # s => stop'[x] = stop[x])
    BY <2>1 DEF StopEnds, CommandsInv, CommandsTypeOK, StopCalls
  <2>3. (\A r \in Runs : GoesOn(r)) /\ OnlyLost /\ NothingSent
    BY <2>1, NothingIsSent DEF GoesOn, OnlyLost
  <2> QED BY <2>1, <2>2, <2>3, QuietMarks DEF LateKill
<1> QED BY <1>1, <1>2, <1>3

\* What the app-server takes from a connection and sends on it.
LEMMA ServedAgrees ==
  ASSUME CommandsInv, MarksInv, NEW c \in Clients, NEW m \in ToService,
         UNCHANGED <<call, runsById, stoppingRuns, stop, pool>>,
         \A d \in Clients : client'[d].source = client[d].source /\ (d # c => client'[d] = client[d]),
         client'[c].inbox \subseteq client[c].inbox,
         \A r \in client'[c].processes : RunIsOn(r, c),
         client'[c].outbox = Append(client[c].outbox, m), AnswerAgrees(m, c)
  PROVE  MarksInv'
<1>1. ConnectionsAgree' /\ StopsAgree' /\ MarksAgree'
  <2>1. \A r \in Runs : call[r].client \in Clients \cup {Null}
    BY DEF CommandsInv, CommandsTypeOK, Calls
  <2>2. \A x \in Sources : pool[x] \in Clients \cup {Null}
    BY DEF CommandsInv, CommandsTypeOK
  <2>3. ConnectionsAgree'
    BY <2>1, <2>2 DEF MarksInv, ConnectionsAgree
  <2>4. StopsAgree' /\ MarksAgree'
    BY DEF MarksInv, StopsAgree, MarksAgree, LateKill
  <2> QED BY <2>3, <2>4
<1>2. PipesAgree'
  <2> SUFFICES ASSUME NEW d \in Clients
               PROVE  /\ \A r \in client'[d].processes : RunIsOn(r, d)
                      /\ \A x \in client'[d].inbox : RequestAgrees(x, d)
                      /\ \A i \in DOMAIN client'[d].outbox : AnswerAgrees(client'[d].outbox[i], d)
    BY DEF PipesAgree, RunIsOn, RequestAgrees, KillIsOn, AnswerAgrees
  <2>1. /\ \A r \in client[d].processes : RunIsOn(r, d)
        /\ \A x \in client[d].inbox : RequestAgrees(x, d)
        /\ \A i \in DOMAIN client[d].outbox : AnswerAgrees(client[d].outbox[i], d)
    BY DEF MarksInv, PipesAgree
  <2>2. CASE d = c
    <3>1. client[c].outbox \in Seq(ToService)
      BY PipesTyped DEF CommandsInv
    <3>2. \A i \in DOMAIN client'[c].outbox :
            client'[c].outbox[i] = m \/ (i \in DOMAIN client[c].outbox /\ client'[c].outbox[i] = client[c].outbox[i])
      BY <3>1
    <3> QED BY <2>1, <2>2, <3>2
  <2>3. CASE d # c
    <3>1. client'[d] = client[d]
      BY <2>3
    <3> QED BY <2>1, <3>1
  <2> QED BY <2>2, <2>3
<1> QED BY <1>1, <1>2 DEF MarksInv

LEMMA ServeMarks ==
  ASSUME CommandsInv, MarksInv, NEW c \in Clients, ServeSpawn(c) \/ ServeKill(c) \/ \E r \in Runs : ProcessExit(c, r)
  PROVE  MarksInv'
<1>1. /\ UNCHANGED <<call, runsById, stoppingRuns, stop, pool>>
      /\ client[c] \in Connections /\ client[c].inbox \in SUBSET ToServer
      /\ \A r \in client[c].processes : RunIsOn(r, c)
      /\ \A x \in client[c].inbox : RequestAgrees(x, c)
  BY DEF ServeSpawn, ServeKill, ProcessExit, serviceVars, CommandsInv, CommandsTypeOK, Connections, MarksInv, PipesAgree
<1>2. CASE ServeSpawn(c)
  <2>1. PICK x \in client[c].inbox, isSpawned \in BOOLEAN :
          /\ x.method = "spawn"
          /\ client' = [client EXCEPT ![c] = [client[c] EXCEPT
               !.inbox = @ \ {x},
               !.processes = IF isSpawned THEN @ \cup {x.run} ELSE @,
               !.outbox = Append(@, [type |-> IF isSpawned THEN "spawned" ELSE "refused", run |-> x.run])]]
    BY <1>2 DEF ServeSpawn
  <2>2. PICK m : m = [type |-> IF isSpawned THEN "spawned" ELSE "refused", run |-> x.run]
    OBVIOUS
  <2>3. x.run \in Runs /\ RunIsOn(x.run, c)
    BY <1>1, <2>1 DEF ToServer, RequestAgrees
  <2>4. m \in ToService /\ AnswerAgrees(m, c)
    BY <2>2, <2>3 DEF ToService, AnswerAgrees
  <2>5. /\ \A d \in Clients : client'[d].source = client[d].source /\ (d # c => client'[d] = client[d])
        /\ client'[c].inbox \subseteq client[c].inbox
        /\ client'[c].processes \subseteq client[c].processes \cup {x.run}
        /\ client'[c].outbox = Append(client[c].outbox, m)
    BY <1>1, <2>1, <2>2 DEF CommandsInv, CommandsTypeOK, Connections
  <2>6. \A r \in client'[c].processes : RunIsOn(r, c)
    BY <1>1, <2>3, <2>5
  <2> QED BY <1>1, <2>4, <2>5, <2>6, ServedAgrees
<1>3. CASE ServeKill(c)
  <2>1. PICK x \in client[c].inbox :
          /\ x.method = "kill"
          /\ client' = [client EXCEPT ![c] = [client[c] EXCEPT
               !.inbox = @ \ {x},
               !.outbox = Append(@,
                 [type |-> IF stop[x.stop].run \in client[c].processes THEN "killed" ELSE "missing", stop |-> x.stop])]]
    BY <1>3 DEF ServeKill
  <2>2. PICK m : m = [type |-> IF stop[x.stop].run \in client[c].processes THEN "killed" ELSE "missing", stop |-> x.stop]
    OBVIOUS
  <2>3. x.stop \in Stops /\ KillIsOn(x.stop, c)
    BY <1>1, <2>1 DEF ToServer, RequestAgrees
  <2>4. m \in ToService
    BY <2>2, <2>3 DEF ToService
  <2>5. AnswerAgrees(m, c)
    BY <1>1, <2>2, <2>3 DEF AnswerAgrees
  <2>6. /\ \A d \in Clients : client'[d].source = client[d].source /\ (d # c => client'[d] = client[d])
        /\ client'[c].inbox \subseteq client[c].inbox /\ client'[c].processes = client[c].processes
        /\ client'[c].outbox = Append(client[c].outbox, m)
    BY <1>1, <2>1, <2>2 DEF CommandsInv, CommandsTypeOK, Connections
  <2> QED BY <1>1, <2>4, <2>5, <2>6, ServedAgrees
<1>4. ASSUME NEW r \in Runs, ProcessExit(c, r)  PROVE MarksInv'
  <2>1. PICK m : m = [type |-> "exited", run |-> r]
    OBVIOUS
  <2>2. m \in ToService /\ AnswerAgrees(m, c)
    BY <2>1 DEF ToService, AnswerAgrees
  <2>3. /\ \A d \in Clients : client'[d].source = client[d].source /\ (d # c => client'[d] = client[d])
        /\ client'[c].inbox \subseteq client[c].inbox /\ client'[c].processes \subseteq client[c].processes
        /\ client'[c].outbox = Append(client[c].outbox, m)
    BY <1>1, <1>4, <2>1 DEF ProcessExit, CommandsInv, CommandsTypeOK, Connections
  <2> QED BY <1>1, <2>2, <2>3, ServedAgrees
<1> QED BY <1>2, <1>3, <1>4

\* An end that a message tells takes the mark back.
LEMMA HandleRunMarks ==
  ASSUME CommandsInv, MarksInv, CommandsTypeOK', NEW c \in Clients, HandleSpawned(c) \/ HandleRefused(c) \/ HandleExited(c)
  PROVE  MarksInv'
<1> DEFINE m == Head(client[c].outbox)
<1>1. PICK r \in Runs : r = m.run
  BY ReceivedType, MessageOfRun DEF HandleSpawned, HandleRefused, HandleExited, CommandsInv
<1>2. NothingSent /\ OnlyLost /\ UNCHANGED stop
  BY ReceivingSendsNothing DEF HandleSpawned, HandleRefused, HandleExited, CommandsInv
<1>3. \A s \in Stops : StopEnds(s) /\ stop'[s].at = stop[s].at
  BY <1>2 DEF StopEnds
<1>4. (\A x \in Runs : GoesOn(x)) /\ runsById' \subseteq runsById /\ runsById \subseteq runsById' \cup {r}
      /\ stoppingRuns' \subseteq stoppingRuns /\ (r \in stoppingRuns' => r \notin runsById \/ r \in runsById')
  <2>1. CASE HandleSpawned(c)
    BY <1>1, <2>1 DEF HandleSpawned, GoesOn, CommandsInv, CommandsTypeOK, Calls
  <2>2. CASE HandleRefused(c)
    <3>1. CASE call[r].at = "spawning"
      <4>1. SpawnFails(r)
        BY <1>1, <2>2, <3>1 DEF HandleRefused
      <4>2. Refuses({r})
        BY <4>1, OneRefused DEF SpawnFails, CommandsInv
      <4>3. \A x \in Runs : GoesOn(x)
        BY <3>1, <4>2, RefusedGoesOn
      <4> QED BY <4>1, <4>3 DEF SpawnFails, Finish
    <3>2. CASE call[r].at # "spawning"
      <4>1. UNCHANGED <<call, serviceVars>>
        BY <1>1, <2>2, <3>2 DEF HandleRefused
      <4> QED BY <4>1 DEF serviceVars, GoesOn
    <3> QED BY <3>1, <3>2
  <2>3. CASE HandleExited(c)
    BY <1>1, <2>3 DEF HandleExited, Finish, GoesOn
  <2> QED BY <2>1, <2>2, <2>3 DEF HandleSpawned, HandleRefused, HandleExited
<1> HIDE DEF m
<1> QED BY <1>2, <1>3, <1>4, QuietMarks DEF LateKill

\* A kill that was obeyed was sent to the connection of its run; one that was
\* not ends the run and takes the mark back.
LEMMA HandleKillMarks ==
  ASSUME CommandsInv, MarksInv, CommandsTypeOK', NEW c \in Clients, HandleKilled(c) \/ HandleMissing(c)
  PROVE  MarksInv'
<1> DEFINE m == Head(client[c].outbox)
<1>1. PICK s \in Stops : s = m.stop
  BY ReceivedType, MessageOfStop DEF HandleKilled, HandleMissing, CommandsInv
<1>2. NothingSent /\ OnlyLost /\ UNCHANGED call /\ AnswerAgrees(m, c)
  <2>1. PICK type \in {"killed", "missing"} : Receive(c, type)
    BY DEF HandleKilled, HandleMissing
  <2>2. NothingSent /\ OnlyLost /\ 1 \in DOMAIN client[c].outbox /\ m = client[c].outbox[1]
    BY <2>1, ReceivingSendsNothing DEF CommandsInv
  <2>3. UNCHANGED call
    BY DEF HandleKilled, HandleMissing, serviceVars
  <2> QED BY <2>2, <2>3 DEF MarksInv, PipesAgree
<1>3. /\ stop' = (IF stop[s].at = "killing" THEN [stop EXCEPT ![s].at = "done"] ELSE stop)
      /\ runsById' \subseteq runsById /\ stoppingRuns' \subseteq stoppingRuns
      /\ \A r \in stoppingRuns' : r \in runsById => r \in runsById'
      /\ stop[s].at = "killing" => stop[s].run \notin stoppingRuns' \/ (RunIsOn(stop[s].run, c) /\ KillIsOn(s, c))
  <2>1. CASE HandleKilled(c)
    <3>1. m.type = "killed"
      BY <2>1 DEF HandleKilled, Receive
    <3> QED BY <1>1, <1>2, <2>1, <3>1 DEF HandleKilled, serviceVars, AnswerAgrees
  <2>2. CASE HandleMissing(c)
    <3>1. CASE stop[s].at = "killing"
      <4>1. /\ stop' = [stop EXCEPT ![s].at = "done"]
            /\ Finish({stop[s].run}, {}, "failed") /\ stoppingRuns' = stoppingRuns \ {stop[s].run}
        BY <1>1, <2>2, <3>1 DEF HandleMissing
      <4>2. runsById' = runsById \ {stop[s].run}
        BY <4>1 DEF Finish
      <4>3. stop[s].run \notin stoppingRuns' /\ stoppingRuns' \subseteq stoppingRuns
        BY <4>1
      <4>4. runsById' \subseteq runsById /\ \A r \in stoppingRuns' : r \in runsById => r \in runsById'
        BY <4>2, <4>3
      <4> QED BY ONLY <3>1, <4>1, <4>3, <4>4
    <3>2. CASE stop[s].at # "killing"
      BY <1>1, <2>2, <3>2 DEF HandleMissing
    <3> QED BY <3>1, <3>2
  <2> QED BY <2>1, <2>2
<1> HIDE DEF m
<1>4. \A x \in Stops : StopEnds(x) /\ (x # s => stop'[x] = stop[x])
  BY <1>3 DEF StopEnds, CommandsInv, CommandsTypeOK, StopCalls
<1>5. \A r \in Runs : GoesOn(r)
  BY <1>2 DEF GoesOn
<1>6. \A x \in Stops : LateKill(x, stop[x].run) /\ stop[x].run \in stoppingRuns' => stop'[x].at = "killing"
  BY <1>3, <1>4 DEF LateKill, RunIsOn, KillIsOn
<1> QED BY <1>2, <1>3, <1>4, <1>5, <1>6, QuietMarks

LEMMA DisconnectMarks ==
  ASSUME CommandsInv, MarksInv, CommandsTypeOK', NEW c \in Clients, NEW orphans \in SUBSET RunningRuns, Disconnect(c, orphans)
  PROVE  MarksInv'
<1>1. /\ runsById' = runsById \ (orphans \cup SpawnsOn(c))
      /\ stoppingRuns' = stoppingRuns \ (orphans \cup SpawnsOn(c) \cup {stop[s].run : s \in KillsOn(c)})
      /\ pool' = [pool EXCEPT ![client[c].source] = Null]
  BY DEF Disconnect, Finish
<1>2. \A r \in Runs : GoesOn(r)
  BY DEF Disconnect, SpawnsOn, GoesOn, CommandsInv, CommandsTypeOK, Calls
<1>3. \A s \in Stops : StopEnds(s) /\ (s \notin KillsOn(c) => stop'[s] = stop[s])
  BY DEF Disconnect, StopEnds, CommandsInv, CommandsTypeOK, StopCalls
<1>4. \A d \in Clients : /\ client'[d].source = client[d].source
                         /\ d # c => client'[d] = client[d]
                         /\ d = c => client'[d].processes = {} /\ client'[d].inbox = {} /\ client'[d].outbox = <<>>
  BY DEF Disconnect, CommandsInv, CommandsTypeOK, Connections
<1>5. NothingSent
  <2> SUFFICES ASSUME NEW d \in Clients
               PROVE  /\ client'[d].processes \subseteq client[d].processes /\ client'[d].inbox \subseteq client[d].inbox
                      /\ \A i \in DOMAIN client'[d].outbox :
                           \E j \in DOMAIN client[d].outbox : client'[d].outbox[i] = client[d].outbox[j]
    BY DEF NothingSent
  <2>1. CASE d = c
    <3>1. DOMAIN client'[d].outbox = {}
      BY <1>4, <2>1
    <3> QED BY <1>4, <2>1, <3>1
  <2>2. CASE d # c
    <3>1. client'[d] = client[d]
      BY <1>4, <2>2
    <3> QED BY <3>1
  <2> QED BY <2>1, <2>2
<1>6. OnlyLost
  BY <1>1, <1>4 DEF OnlyLost, CommandsInv, CommandsTypeOK
<1>7. \A s \in Stops : stop[s].run \in stoppingRuns' => s \notin KillsOn(c)
  BY <1>1
<1> QED BY <1>1, <1>2, <1>3, <1>5, <1>6, <1>7, QuietMarks DEF LateKill

LEMMA MarksStep ==
  ASSUME CommandsInv, MarksInv, [Next]_vars
  PROVE  MarksInv'
<1>1. CommandsTypeOK'
  BY CommandsStep DEF CommandsInv
<1>2. CASE UNCHANGED vars
  <2>1. UNCHANGED <<call, runsById, stoppingRuns, stop, pool, client>>
    BY <1>2 DEF vars, serviceVars
  <2>2. /\ \A r \in Runs : GoesOn(r)
        /\ \A s \in Stops : StopEnds(s) /\ stop'[s].at = stop[s].at
        /\ OnlyLost /\ NothingSent
    BY <2>1, NothingIsSent DEF GoesOn, StopEnds, OnlyLost
  <2> QED BY <1>1, <2>1, <2>2, QuietMarks DEF LateKill
<1>3. ASSUME NEW r \in Runs,
             Admit(r) \/ Prepare(r) \/ PrepareFails(r) \/ Launch(r) \/ LaunchFails(r) \/ SpawnTimeout(r)
      PROVE  MarksInv'
  BY <1>1, <1>3, AdmitMarks, PrepareMarks, LaunchMarks, LaunchFailureMarks
<1>4. ASSUME NEW c \in Clients, Handle(c)  PROVE MarksInv'
  BY <1>1, <1>4, HandleRunMarks, HandleKillMarks DEF Handle
<1>5. ASSUME NEW c \in Clients, Close(c)  PROVE MarksInv'
  <2>1. SourceRuns(client[c].source) \in SUBSET RunningRuns  BY DEF SourceRuns
  <2> QED BY <1>1, <1>5, <2>1, DisconnectMarks DEF Close
<1>6. ASSUME NEW source \in Sources, Restart(source)  PROVE MarksInv'
  <2>1. pool[source] \in Clients /\ {} \in SUBSET RunningRuns
    BY <1>6 DEF Restart, CommandsInv, CommandsTypeOK
  <2>2. PICK c \in Clients : c = pool[source]
    BY <2>1
  <2> QED BY <1>1, <1>6, <2>1, <2>2, DisconnectMarks DEF Restart
<1> QED BY <1>1, <1>2, <1>3, <1>4, <1>5, <1>6, StopMarks, ServeMarks DEF Next

\* Whatever ends a run and however long a stop waits for its connection, no
\* mark of stoppingRunIds is left behind that nothing will take back.
THEOREM MarksAreTakenBack == Spec => []NoStopMarkLeft
<1>1. Init => MarksInv
  <2> SUFFICES ASSUME Init  PROVE MarksInv
    OBVIOUS
  <2>1. ConnectionsAgree /\ StopsAgree /\ MarksAgree
    BY DEF Init, ConnectionsAgree, StopsAgree, MarksAgree
  <2>2. PipesAgree
    <3>1. \A c \in Clients : client[c].processes = {} /\ client[c].inbox = {} /\ DOMAIN client[c].outbox = {}
      BY DEF Init
    <3> QED BY <3>1 DEF PipesAgree
  <2> QED BY <2>1, <2>2 DEF MarksInv
<1>2. CommandsInv /\ MarksInv /\ [Next]_vars => MarksInv'
  BY MarksStep
<1>3. MarksInv => NoStopMarkLeft
  BY DEF MarksInv, MarksAgree, LateKill, NoStopMarkLeft
<1> QED BY <1>1, <1>2, <1>3, CommandsInvariant, PTL DEF Spec
=============================================================================
