------------------------- MODULE WorkspaceExecution -------------------------
(***************************************************************************)
(* The calls of WorkspaceExecutionService and of its callers over the      *)
(* durable tables of WorkspaceStore and one CodexSource: turn starts,      *)
(* conversation creation, maintenance, catalogue mutations, selection and  *)
(* the two recoveries, interleaved at every await, and the thread lists    *)
(* that index what the source reports.                                     *)
(*                                                                         *)
(* A call is one invocation and runs once.  Its id is also the id of the   *)
(* reservation it writes (a fresh UUID in the code) and of the turn the    *)
(* source starts for it.  An action is the code between two awaits; which  *)
(* action may run next is the event loop, below.  A rejection and the      *)
(* catch block it reaches are the same action.                             *)
(***************************************************************************)
EXTENDS WorkspaceStore, CodexSource, FiniteSets, Naturals

CONSTANTS
  Kinds,            \* the operations a model exercises
  MaxCrashes,       \* bound on crashes of the application
  MaxExits          \* bound on exits of the source process alone

MaintenanceKinds == {"review", "compact", "rollback"}
CatalogKinds     == {"archive", "unarchive", "delete"}
RunKinds         == {"turn", "implicit", "create"} \cup MaintenanceKinds
RecoveryKinds    == {"reconcile", "reconcileWorkspace"}
AllKinds         == RunKinds \cup CatalogKinds \cup RecoveryKinds \cup {"select"}

\* What a thread list says of a thread.
Listing == [thread : Threads, workspace : Workspaces, archived : BOOLEAN]

ASSUME CallsAssumption ==
  /\ Reservations = Calls
  /\ Turns = Calls \cup ForeignTurns
  /\ Calls \cap ForeignTurns = {}
  /\ Null \notin Calls
  /\ Kinds \subseteq AllKinds \cup {"list"}   \* "list": thread lists are read and indexed
  /\ MaxCrashes \in Nat /\ MaxExits \in Nat

\* Where a call is: before its next piece of code, or in an RPC.
Waiting == {"recoverRead", "checkRead", "newThread", "resume", "await", "evidence", "idleRead",
            "selectIdle", "selectRead", "switch"}
Labels == Waiting \cup
  {"idle", "done", "reserve", "prepare", "bind", "confirm", "submit", "after", "release", "forget",
   "reconcile", "items", "selectBegin", "selectPrepare"}

\* What reconcileWorkspace still has to treat: rows as they were when listed.
Item == [id : Calls \cup {Null}, thread : Threads \cup {Null}, state : ReservationStates]
Work == [stage : {"transitions", "reservations"}, items : SUBSET Item]
NoWork == [stage |-> "transitions", items |-> {}]

VARIABLES
  pc, kind,    \* control state and operation of each call
  thread,      \* the thread the call works on; Null before an implicit creation
  workspace,   \* the workspace the call resolved, or was asked to select
  gate,        \* the thread gate the call holds
  reply,       \* the answer that has resolved the call's request
  held,        \* the reservation a recovery read before its status request
  contract,    \* the resume expectation a selection prepared
  work,        \* the rows reconcileWorkspace listed
  listed,      \* what lists said of threads since the application started
  misfiled,    \* ghost: threads whose last index write was not what the source has
  crashes, exits

callVars == <<pc, kind, thread, workspace, gate, reply, held, contract, work>>
vars == <<storeVars, sourceVars, callVars, listed, misfiled, crashes, exits>>

TypeOK ==
  /\ StoreTypeOK
  /\ SourceTypeOK
  /\ pc \in [Calls -> Labels]
  /\ kind \in [Calls -> AllKinds \cup {Null}]
  /\ thread \in [Calls -> Threads \cup {Null}]
  /\ workspace \in [Calls -> Workspaces \cup {Null}]
  /\ gate \in [Calls -> Threads \cup {Null}]
  /\ reply \in [Calls -> Answer \cup {Null}]
  /\ held \in [Calls -> Calls \cup {Null}]
  /\ contract \in [Calls -> Contracts \cup {Null}]
  /\ work \in [Calls -> Work]
  /\ listed \subseteq Listing
  /\ misfiled \subseteq Threads \cup {Null}
  /\ crashes \in 0..MaxCrashes
  /\ exits \in 0..MaxExits

Init ==
  /\ StoreInit
  /\ SourceInit(association)
  /\ pc = [c \in Calls |-> "idle"]
  /\ kind = [c \in Calls |-> Null]
  /\ thread = [c \in Calls |-> Null]
  /\ workspace = [c \in Calls |-> Null]
  /\ gate = [c \in Calls |-> Null]
  /\ reply = [c \in Calls |-> Null]
  /\ held = [c \in Calls |-> Null]
  /\ contract = [c \in Calls |-> Null]
  /\ work = [c \in Calls |-> NoWork]
  /\ listed = {}
  /\ misfiled = {}
  /\ crashes = 0
  /\ exits = 0

busyThreads == {gate[c] : c \in Calls} \ {Null}

\* Calls between the increment and the finally block of run. The first try to
\* reserve and the increment are one piece of code; the second comes later.
workspaceUsers(w) ==
  {c \in Calls : /\ kind[c] \in RunKinds /\ workspace[c] = w
                 /\ pc[c] \notin {"idle", "done"}
                 /\ pc[c] = "reserve" => held[c] # Null}

----------------------------------------------------------------------------
(* Steps of a call. *)

Goto(c, label) == pc' = [pc EXCEPT ![c] = label]

\* Defect: an exception skips the release of the gate.
FinishHolding(c) ==
  /\ Goto(c, "done")
  /\ reply' = [reply EXCEPT ![c] = Null]
  /\ held' = [held EXCEPT ![c] = Null]
  /\ contract' = [contract EXCEPT ![c] = Null]
  /\ work' = [work EXCEPT ![c] = NoWork]
  /\ UNCHANGED <<kind, thread, workspace, gate>>

\* The call returns or throws: finally blocks release what it holds.
Finish(c) ==
  /\ Goto(c, "done")
  /\ gate' = [gate EXCEPT ![c] = Null]
  /\ reply' = [reply EXCEPT ![c] = Null]
  /\ held' = [held EXCEPT ![c] = Null]
  /\ contract' = [contract EXCEPT ![c] = Null]
  /\ work' = [work EXCEPT ![c] = NoWork]
  /\ UNCHANGED <<kind, thread, workspace>>

\* A nested reconcile returns to the loop of reconcileWorkspace.
Return(c) ==
  IF kind[c] = "reconcileWorkspace"
  THEN /\ Goto(c, "items")
       /\ gate' = [gate EXCEPT ![c] = Null]
       /\ thread' = [thread EXCEPT ![c] = Null]
       /\ held' = [held EXCEPT ![c] = Null]
       /\ contract' = [contract EXCEPT ![c] = Null]
       /\ reply' = [reply EXCEPT ![c] = Null]
       /\ UNCHANGED <<kind, workspace, work>>
  ELSE Finish(c)

\* A step that moves the call and leaves its other registers alone.
Continue(c, label) ==
  /\ Goto(c, label)
  /\ UNCHANGED <<kind, thread, workspace, gate, reply, held, contract, work>>

\* Writing a request; the registers of the call but reply stay.
Send(c, method, cwd, k, isArchived) ==
  /\ requests' = Append(requests, [call |-> c, method |-> method, thread |-> thread[c], cwd |-> cwd,
                                   contract |-> k, archived |-> isArchived])
  /\ reply' = [reply EXCEPT ![c] = Null]
  /\ UNCHANGED <<known, running, started, sourceArchived, sourceCwd, reported, events>>

Ask(c, method, label) ==
  /\ Send(c, method, workspace[c], contract[c], kind[c] = "archive")
  /\ Goto(c, label)

Answered(c, label, results) == pc[c] = label /\ reply[c] # Null /\ reply[c].result \in results

Uneventful == UNCHANGED <<listed, crashes, exits>>
Still == Uneventful /\ UNCHANGED misfiled
Registers == <<kind, thread, workspace, gate, held, contract, work>>

\* An index write and the catalogue of the source.
Misfile(t, isArchived) ==
  misfiled' = IF t \in known /\ sourceArchived[t] = isArchived THEN misfiled \ {t} ELSE misfiled \cup {t}

----------------------------------------------------------------------------
(* run: turn starts, conversation creation and maintenance. *)

\* withThread and resolve: the gate is taken, and the association read, before
\* the first await.  A call for no thread takes no gate.
StartRun(c, k, t, w) ==
  /\ pc[c] = "idle"
  /\ IF k \in {"implicit", "create"} THEN t = Null
     ELSE t # Null /\ t \notin busyThreads /\ association[t] = w
  /\ pc' = [pc EXCEPT ![c] = "reserve"]
  /\ kind' = [kind EXCEPT ![c] = k]
  /\ thread' = [thread EXCEPT ![c] = t]
  /\ workspace' = [workspace EXCEPT ![c] = w]
  /\ gate' = [gate EXCEPT ![c] = t]
  /\ UNCHANGED <<storeVars, sourceVars, reply, held, contract, work>> /\ Still

Operation(k) == IF k \in {"implicit", "create"} THEN "turn" ELSE k

\* After the reservation the source's status is read, unless no thread exists yet.
Reserved(c) ==
  IF thread[c] = Null
  THEN Continue(c, "prepare") /\ UNCHANGED sourceVars
  ELSE Ask(c, "read", "checkRead") /\ UNCHANGED Registers

ReserveRun(c) ==
  /\ pc[c] = "reserve" /\ kind[c] \in RunKinds
  /\ Reserve(c, workspace[c], thread[c], Operation(kind[c]))
  /\ Reserved(c)
  /\ Still

\* Only the guard of a rollback of the same thread and workspace is retried.
StaleRollback(c) ==
  {id \in ReservedBy(thread[c]) : Row(id).operation = "rollback" /\ Row(id).workspace = workspace[c]}

ReserveRefused(c) ==
  /\ pc[c] = "reserve" /\ kind[c] \in RunKinds
  /\ ~CanReserve(workspace[c], thread[c])
  /\ IF thread[c] # Null /\ held[c] = Null /\ StaleRollback(c) # {}
     THEN \E id \in StaleRollback(c) :
            /\ held' = [held EXCEPT ![c] = id]
            /\ Ask(c, "read", "recoverRead")
            /\ UNCHANGED <<kind, thread, workspace, gate, contract, work>>
     ELSE Finish(c) /\ UNCHANGED sourceVars
  /\ UNCHANGED storeVars /\ Still

\* Positive idleness releases the stale guard; the second and last try to
\* reserve is the next step.
RecoverRollback(c) ==
  /\ pc[c] = "recoverRead" /\ reply[c] # Null
  /\ IF reply[c].result = "idle"
     THEN Release(held[c]) /\ Continue(c, "reserve")
     ELSE Finish(c) /\ UNCHANGED storeVars
  /\ UNCHANGED sourceVars /\ Still

\* requireIdle; maintenance persists its dispatch next, a turn binds.
CheckIdle(c) ==
  /\ Answered(c, "checkRead", {"idle"})
  /\ Continue(c, IF kind[c] = "turn" THEN "bind" ELSE "submit")
  /\ UNCHANGED <<storeVars, sourceVars>> /\ Still

\* A rejection inside run's action: a lost or negative answer, an answer that
\* fails a local check, or an exception of the code before the next await.
FailRun(c) ==
  /\ kind[c] \in RunKinds
  /\ \/ pc[c] \in {"checkRead", "newThread", "resume", "await"} /\ reply[c] # Null
     \/ pc[c] \in {"prepare", "bind", "confirm", "submit", "after"}
  /\ Fail(c)
  /\ Finish(c)
  /\ UNCHANGED sourceVars /\ Still

\* thread/start; createThread persists the dispatch first, startTurn does not.
CreateThread(c) ==
  /\ pc[c] = "prepare"
  /\ IF kind[c] = "create" THEN SubmittingCreation(c) ELSE UNCHANGED storeVars
  /\ Ask(c, "newThread", "newThread")
  /\ UNCHANGED Registers /\ Still

\* The new thread is indexed under the workspace it was created in, and announced.
IndexThread(c) ==
  /\ Answered(c, "newThread", {"ok"})
  /\ WriteIndex(reply[c].thread, workspace[c], FALSE)
  /\ Misfile(reply[c].thread, FALSE)
  /\ thread' = [thread EXCEPT ![c] = reply[c].thread]
  /\ Goto(c, IF kind[c] = "create" THEN "confirm" ELSE "bind")
  /\ UNCHANGED <<kind, workspace, gate, reply, held, contract, work, sourceVars>> /\ Uneventful

ConfirmThread(c) ==
  /\ pc[c] = "confirm"
  /\ ConfirmCreation(c, thread[c])
  /\ Finish(c)
  /\ UNCHANGED sourceVars /\ Still

Bind(c) ==
  /\ pc[c] = "bind"
  /\ BindThread(c, thread[c])
  /\ Continue(c, "submit")
  /\ UNCHANGED sourceVars /\ Still

\* Defect: the request goes out first, and the dispatch is never recorded.
SubmitLate(c) ==
  /\ pc[c] = "submit" /\ kind[c] \in RunKinds
  /\ IF kind[c] \in MaintenanceKinds THEN Ask(c, "resume", "resume") ELSE Ask(c, "turn", "await")
  /\ UNCHANGED <<storeVars, Registers>> /\ Still

\* The dispatch is durable before the first request with an effect: the start
\* of a turn, or the resume that precedes maintenance.
Submit(c) ==
  /\ pc[c] = "submit" /\ kind[c] \in RunKinds
  /\ Submitting(c)
  /\ IF kind[c] \in MaintenanceKinds THEN Ask(c, "resume", "resume") ELSE Ask(c, "turn", "await")
  /\ UNCHANGED Registers /\ Still

\* The thread was resumed idle in its reserved workspace.
Maintain(c) ==
  /\ Answered(c, "resume", {"ok"})
  /\ Ask(c, kind[c], "await")
  /\ UNCHANGED <<storeVars, Registers>> /\ Still

AcknowledgeTurn(c) ==
  /\ Answered(c, "await", {"ok"}) /\ kind[c] \in {"turn", "implicit"}
  /\ Acknowledge(c, c)
  /\ Continue(c, "after")
  /\ UNCHANGED sourceVars /\ Still

FinishTurn(c) ==
  /\ pc[c] = "after"
  /\ Finish(c)
  /\ UNCHANGED <<storeVars, sourceVars>> /\ Still

AcknowledgeMaintained(c) ==
  /\ Answered(c, "await", {"ok"}) /\ kind[c] \in MaintenanceKinds
  /\ AcknowledgeMaintenance(c, c)
  /\ Finish(c)
  /\ UNCHANGED sourceVars /\ Still

Run(c) ==
  \/ \E k \in Kinds \cap RunKinds, t \in Threads \cup {Null}, w \in Workspaces : StartRun(c, k, t, w)
  \/ ReserveRun(c) \/ ReserveRefused(c) \/ RecoverRollback(c) \/ CheckIdle(c) \/ FailRun(c)
  \/ CreateThread(c) \/ IndexThread(c) \/ ConfirmThread(c)
  \/ Bind(c) \/ Submit(c) \/ Maintain(c)
  \/ AcknowledgeTurn(c) \/ FinishTurn(c) \/ AcknowledgeMaintained(c)

----------------------------------------------------------------------------
(* runCatalogMutation: archive, unarchive and delete. *)

StartCatalog(c, k, t) ==
  /\ pc[c] = "idle"
  /\ t \notin busyThreads /\ transitions[t] = Null /\ association[t] # Null
  /\ pc' = [pc EXCEPT ![c] = "reserve"]
  /\ kind' = [kind EXCEPT ![c] = k]
  /\ thread' = [thread EXCEPT ![c] = t]
  /\ workspace' = [workspace EXCEPT ![c] = association[t]]
  /\ gate' = [gate EXCEPT ![c] = t]
  /\ UNCHANGED <<storeVars, sourceVars, reply, held, contract, work>> /\ Still

ReserveCatalog(c) ==
  /\ pc[c] = "reserve" /\ kind[c] \in CatalogKinds
  /\ \/ Reserve(c, workspace[c], thread[c], kind[c]) /\ Continue(c, "submit")
     \/ ~CanReserve(workspace[c], thread[c]) /\ Finish(c) /\ UNCHANGED storeVars
  /\ UNCHANGED sourceVars /\ Still

SubmitCatalog(c) ==
  /\ pc[c] = "submit" /\ kind[c] \in CatalogKinds
  /\ Submitting(c)
  /\ Ask(c, kind[c], "await")
  /\ UNCHANGED Registers /\ Still

\* The archive flag is written on evidence of the source's.
File(t, isArchived) ==
  /\ WriteArchiveState(t, isArchived)
  /\ misfiled' = misfiled \ {t}

\* The positive answer is made durable before any local cleanup.
CatalogAnswered(c) ==
  /\ Answered(c, "await", {"ok"}) /\ kind[c] \in CatalogKinds
  /\ IF kind[c] = "delete"
     THEN ConfirmDeletion(c) /\ Continue(c, "forget") /\ UNCHANGED misfiled
     ELSE File(thread[c], kind[c] = "archive") /\ Continue(c, "release")
  /\ UNCHANGED sourceVars /\ Uneventful

FailCatalog(c) ==
  /\ kind[c] \in CatalogKinds
  /\ \/ pc[c] = "await" /\ reply[c] # Null
     \/ pc[c] \in {"submit", "forget", "release"}
  /\ Fail(c)
  /\ Finish(c)
  /\ UNCHANGED sourceVars /\ Still

\* Local cleanup and release, of a mutation and of its recovery.
Recovered(c) == IF kind[c] \in CatalogKinds THEN c ELSE held[c]

Forget(c) ==
  /\ pc[c] = "forget"
  /\ ForgetThread(thread[c])
  /\ Continue(c, "release")
  /\ UNCHANGED sourceVars /\ Still

ReleaseCatalog(c) ==
  /\ pc[c] = "release"
  /\ Release(Recovered(c))
  /\ Return(c)
  /\ UNCHANGED sourceVars /\ Still

Catalog(c) ==
  \/ \E k \in Kinds \cap CatalogKinds, t \in Threads : StartCatalog(c, k, t)
  \/ ReserveCatalog(c) \/ SubmitCatalog(c) \/ CatalogAnswered(c) \/ FailCatalog(c)
  \/ Forget(c) \/ ReleaseCatalog(c)

----------------------------------------------------------------------------
(* select, and the transition that both select and reconcile apply. *)

StartSelect(c, t, w) ==
  /\ pc[c] = "idle"
  /\ t \notin busyThreads /\ association[t] # Null
  /\ kind' = [kind EXCEPT ![c] = "select"]
  /\ thread' = [thread EXCEPT ![c] = t]
  /\ workspace' = [workspace EXCEPT ![c] = w]
  /\ gate' = [gate EXCEPT ![c] = t]
  /\ requests' = Append(requests, [call |-> c, method |-> "read", thread |-> t, cwd |-> Null,
                                   contract |-> Null, archived |-> FALSE])
  /\ pc' = [pc EXCEPT ![c] = "selectIdle"]
  /\ UNCHANGED <<storeVars, known, running, started, sourceArchived, sourceCwd, reported, events,
                 reply, held, contract, work>> /\ Still

SelectIdle(c) ==
  /\ pc[c] = "selectIdle" /\ reply[c] # Null
  /\ IF reply[c].result = "idle" THEN Continue(c, "selectBegin") ELSE Finish(c)
  /\ UNCHANGED <<storeVars, sourceVars>> /\ Still

\* Nothing is written for a pending transition, for the current workspace, or
\* when either location is taken.
SelectBegin(c) ==
  /\ pc[c] = "selectBegin"
  /\ IF association[thread[c]] = workspace[c] \/ ~CanBegin(thread[c], workspace[c])
     THEN Finish(c) /\ UNCHANGED storeVars
     ELSE BeginTransition(thread[c], workspace[c]) /\ Continue(c, "selectPrepare")
  /\ UNCHANGED sourceVars /\ Still

\* The destination is prepared, and the idleness of the thread read once more.
SelectPrepare(c) ==
  /\ pc[c] = "selectPrepare"
  /\ \E k \in Contracts : contract' = [contract EXCEPT ![c] = k]
  /\ Send(c, "read", Null, Null, FALSE)
  /\ Goto(c, "selectRead")
  /\ UNCHANGED <<storeVars, kind, thread, workspace, gate, held, work>> /\ Still

\* beforeDispatch, then unsubscribe and resume in the destination.
SubmitSwitch(c) ==
  /\ Answered(c, "selectRead", {"idle"})
  /\ SubmittingTransition(thread[c], contract[c])
  /\ Send(c, "switch", transitions[thread[c]].to, contract[c], FALSE)
  /\ Goto(c, "switch")
  /\ UNCHANGED Registers /\ Still

\* Defect: the projection the resume returned is not compared.
CommitAnswered(c) ==
  /\ Answered(c, "switch", {"ok", "error"})
  /\ CommitTransition(thread[c])
  /\ Return(c)
  /\ UNCHANGED sourceVars /\ Still

CommitSwitch(c) ==
  /\ Answered(c, "switch", {"ok"})
  /\ CommitTransition(thread[c])
  /\ Return(c)
  /\ UNCHANGED sourceVars /\ Still

FailSwitch(c) ==
  /\ \/ pc[c] = "selectPrepare"
     \/ pc[c] \in {"selectRead", "switch"} /\ reply[c] # Null
  /\ FailTransition(thread[c])
  /\ Finish(c)
  /\ UNCHANGED sourceVars /\ Still

Select(c) ==
  \/ "select" \in Kinds /\ \E t \in Threads, w \in Workspaces : StartSelect(c, t, w)
  \/ SelectIdle(c) \/ SelectBegin(c) \/ SelectPrepare(c)
  \/ SubmitSwitch(c) \/ CommitSwitch(c) \/ FailSwitch(c)

----------------------------------------------------------------------------
(* reconcile and reconcileWorkspace. *)

StartReconcile(c, t) ==
  /\ pc[c] = "idle"
  /\ t \notin busyThreads
  /\ pc' = [pc EXCEPT ![c] = "reconcile"]
  /\ kind' = [kind EXCEPT ![c] = "reconcile"]
  /\ thread' = [thread EXCEPT ![c] = t]
  /\ gate' = [gate EXCEPT ![c] = t]
  /\ UNCHANGED <<storeVars, sourceVars, workspace, reply, held, contract, work>> /\ Still

\* An undispatched transition is dropped. A dispatched one is applied again
\* under the contract it was frozen with, or stays blocked.
ReconcileTransition(c) ==
  LET t == thread[c] IN
  /\ pc[c] = "reconcile" /\ transitions[t] # Null
  /\ \/ transitions[t].state = "preparing" /\ FailTransition(t) /\ Return(c) /\ UNCHANGED sourceVars
     \/ transitions[t].state # "preparing" /\ FailTransition(t) /\ Finish(c) /\ UNCHANGED sourceVars
     \/ /\ transitions[t].state # "preparing"
        /\ contract' = [contract EXCEPT ![c] = transitions[t].contract]
        /\ Send(c, "read", Null, Null, FALSE)
        /\ Goto(c, "selectRead")
        /\ UNCHANGED <<storeVars, kind, thread, workspace, gate, held, work>>
  /\ Still

\* WorkspaceCatalogRecovery.recover up to its first request.
ReconcileCatalog(c) ==
  /\ pc[c] = "reconcile" /\ transitions[thread[c]] = Null
  /\ \E id \in ReservedBy(thread[c]) :
       /\ Row(id).operation \in CatalogKinds
       /\ \/ Row(id).state = "preparing" /\ Release(id) /\ Return(c) /\ UNCHANGED sourceVars
          \/ /\ Row(id).state # "preparing" /\ Row(id).operation = "delete"
             /\ IF IsDeletionConfirmed(id)
                THEN /\ held' = [held EXCEPT ![c] = id] /\ Goto(c, "forget")
                     /\ UNCHANGED <<kind, thread, workspace, gate, reply, contract, work>>
                ELSE Finish(c)
             /\ UNCHANGED <<storeVars, sourceVars>>
          \/ /\ Row(id).state # "preparing" /\ Row(id).operation # "delete"
             /\ held' = [held EXCEPT ![c] = id]
             /\ Send(c, "evidence", Row(id).workspace, Null, Row(id).operation = "archive")
             /\ Goto(c, "evidence")
             /\ UNCHANGED <<storeVars, kind, thread, workspace, gate, contract, work>>
  /\ Still

\* Defect: the outcome is taken for granted.
ArchiveAssumed(c) ==
  /\ pc[c] = "evidence" /\ reply[c] # Null
  /\ File(thread[c], Row(held[c]).operation = "archive")
  /\ Continue(c, "release")
  /\ UNCHANGED sourceVars /\ Uneventful

ArchiveVerified(c) ==
  /\ pc[c] = "evidence" /\ reply[c] # Null
  /\ IF reply[c].result = "ok"
     THEN File(thread[c], Row(held[c]).operation = "archive") /\ Continue(c, "release")
     ELSE Finish(c) /\ UNCHANGED <<storeVars, misfiled>>
  /\ UNCHANGED sourceVars /\ Uneventful

\* An execution reservation is listed, and then the status of the thread read.
ReconcileExecution(c) ==
  LET t == thread[c]
      local == {id \in ReservedBy(t) : Row(id).workspace = association[t]}
  IN
  /\ pc[c] = "reconcile" /\ transitions[t] = Null
  /\ \A id \in ReservedBy(t) : Row(id).operation \notin CatalogKinds
  /\ IF association[t] = Null
     THEN Finish(c) /\ UNCHANGED sourceVars
     ELSE /\ \/ local = {} /\ UNCHANGED held
             \/ \E id \in local : held' = [held EXCEPT ![c] = id]
          /\ Send(c, "read", Null, Null, FALSE)
          /\ Goto(c, "idleRead")
          /\ UNCHANGED <<kind, thread, workspace, gate, contract, work>>
  /\ UNCHANGED storeVars /\ Still

\* Idleness releases the reservation that was listed, by its id.
ReleaseIdle(c) ==
  /\ pc[c] = "idleRead" /\ reply[c] # Null
  /\ IF reply[c].result = "idle"
     THEN /\ IF held[c] = Null THEN UNCHANGED storeVars ELSE Release(held[c])
          /\ Return(c)
     ELSE Finish(c) /\ UNCHANGED storeVars
  /\ UNCHANGED sourceVars /\ Still

TransitionItems(w) ==
  {[id |-> Null, thread |-> t, state |-> transitions[t].state] :
     t \in {u \in Threads : transitions[u] # Null /\ w \in Ends(u)}}

ReservationItems(w) ==
  {[id |-> i, thread |-> Row(i).thread, state |-> Row(i).state] : i \in ReservedOn(w)}

\* Defect: local executions are not looked for.
StartUnguarded(c, w) ==
  /\ pc[c] = "idle"
  /\ pc' = [pc EXCEPT ![c] = "items"]
  /\ kind' = [kind EXCEPT ![c] = "reconcileWorkspace"]
  /\ workspace' = [workspace EXCEPT ![c] = w]
  /\ work' = [work EXCEPT ![c] = [stage |-> "transitions", items |-> TransitionItems(w)]]
  /\ UNCHANGED <<storeVars, sourceVars, thread, gate, reply, held, contract>> /\ Still

\* Local executions of the workspace are looked for once, before the first await.
StartReconcileWorkspace(c, w) ==
  /\ pc[c] = "idle"
  /\ workspaceUsers(w) = {}
  /\ pc' = [pc EXCEPT ![c] = "items"]
  /\ kind' = [kind EXCEPT ![c] = "reconcileWorkspace"]
  /\ workspace' = [workspace EXCEPT ![c] = w]
  /\ work' = [work EXCEPT ![c] = [stage |-> "transitions", items |-> TransitionItems(w)]]
  /\ UNCHANGED <<storeVars, sourceVars, thread, gate, reply, held, contract>> /\ Still

\* The rows still to be treated: once the transitions are through, the
\* reservations are listed.
Remaining(c) ==
  IF work[c] = NoWork THEN [stage |-> "reservations", items |-> ReservationItems(workspace[c])]
  ELSE work[c]

\* The loop up to its next request: undispatched creations are released as they
\* come, by the state they were listed with; then the end, a nested reconcile,
\* or an exception.
TreatItems(c) ==
  LET rest == Remaining(c) IN
  /\ pc[c] = "items"
  /\ \E undispatched \in SUBSET {i \in rest.items : i.thread = Null /\ i.state = "preparing"} :
       /\ ChangeReservations([id \in Reservations |->
            IF \E i \in undispatched : i.id = id THEN Null ELSE Row(id)])
       /\ \/ undispatched = rest.items /\ Finish(c)
          \/ \E i \in rest.items \ undispatched :
               \/ /\ i.thread # Null /\ i.thread \notin busyThreads
                  /\ thread' = [thread EXCEPT ![c] = i.thread]
                  /\ gate' = [gate EXCEPT ![c] = i.thread]
                  /\ work' = [work EXCEPT ![c] = [rest EXCEPT !.items = @ \ (undispatched \cup {i})]]
                  /\ Goto(c, "reconcile")
                  /\ UNCHANGED <<kind, workspace, reply, held, contract>>
               \/ /\ IF i.thread = Null THEN i.state # "preparing" ELSE i.thread \in busyThreads
                  /\ Finish(c)
  /\ UNCHANGED sourceVars /\ Still

Recover(c) ==
  \/ "reconcile" \in Kinds /\ \E t \in Threads : StartReconcile(c, t)
  \/ "reconcileWorkspace" \in Kinds /\ \E w \in Workspaces : StartReconcileWorkspace(c, w)
  \/ ReconcileTransition(c) \/ ReconcileCatalog(c) \/ ArchiveVerified(c)
  \/ ReconcileExecution(c) \/ ReleaseIdle(c)
  \/ TreatItems(c)

----------------------------------------------------------------------------
(* Thread lists: ThreadCacheService.writeIndex and SourceThreadSyncService. *)

\* The source answers a list.  It is behind what the source wrote before, the
\* answer to the start of the thread included.
ListThread(t) ==
  /\ t \in known /\ sourceCwd[t] # Null
  /\ \A i \in 1..Len(events) : events[i].type = "answer" => events[i].thread # t
  /\ listed' = listed \cup {[thread |-> t, workspace |-> sourceCwd[t], archived |-> sourceArchived[t]]}
  /\ UNCHANGED <<storeVars, misfiled>>

\* What a list said is indexed, after awaits of any length.
IndexListed(entry) ==
  /\ WriteIndex(entry.thread, entry.workspace, entry.archived)
  /\ Misfile(entry.thread, entry.archived)
  /\ UNCHANGED listed

\* A reader is told that the source has no such thread.
RemoveMissing(t) ==
  /\ t \notin known /\ association[t] # Null
  /\ ForgetThread(t)
  /\ UNCHANGED <<listed, misfiled>>

Lists ==
  /\ "list" \in Kinds
  /\ \/ \E t \in Threads : ListThread(t) \/ RemoveMissing(t)
     \/ \E entry \in listed : IndexListed(entry)
  /\ UNCHANGED <<sourceVars, callVars, crashes, exits>>

----------------------------------------------------------------------------
(* The transport and the source. *)

Awaiting(c) == pc[c] \in Waiting /\ reply[c] = Null

\* A notification runs observe, or the cleanup that a deletion by anyone triggers.
Notice(message) ==
  IF message.type = "deleted"
  THEN IF transitions[message.thread] = Null THEN ForgetThread(message.thread) ELSE UNCHANGED storeVars
  ELSE ObserveTurn(message.thread, message.turn, message.type = "completed")

\* The next message of the source; an answer resolves the request that still
\* waits for it.
Deliver ==
  /\ events # <<>>
  /\ events' = Tail(events)
  /\ LET message == Head(events) IN
       \/ /\ message.type = "answer"
          /\ reply' = [reply EXCEPT ![message.call] = IF Awaiting(message.call) THEN message ELSE @]
          /\ UNCHANGED storeVars
       \/ message.type # "answer" /\ Notice(message) /\ UNCHANGED reply
  /\ UNCHANGED <<known, running, started, sourceArchived, sourceCwd, reported, requests>>
  /\ UNCHANGED <<pc, kind, thread, workspace, gate, held, contract, work>> /\ Still

Rejection(c) == [type |-> "answer", call |-> c, result |-> "error", thread |-> Null]

\* Defect: what a recovery asks may take as long as it takes.
TimeoutOfOperations(c) ==
  /\ Awaiting(c) /\ kind[c] \notin RecoveryKinds
  /\ reply' = [reply EXCEPT ![c] = Rejection(c)]
  /\ UNCHANGED <<storeVars, sourceVars, pc, kind, thread, workspace, gate, held, contract, work>> /\ Still

\* The request timer fires; the source may still act on the request.
Timeout(c) ==
  /\ Awaiting(c)
  /\ reply' = [reply EXCEPT ![c] = Rejection(c)]
  /\ UNCHANGED <<storeVars, sourceVars, pc, kind, thread, workspace, gate, held, contract, work>> /\ Still

Source ==
  /\ \/ Serve
     \/ \E t \in Threads : CompleteTurn(t) \/ \E u \in ForeignTurns : StartForeignTurn(t, u)
  /\ UNCHANGED <<storeVars, callVars>> /\ Still

\* The source process exits: the transport rejects what it has in flight.
SourceExit ==
  /\ exits < MaxExits
  /\ exits' = exits + 1
  /\ Exit
  /\ reply' = [c \in Calls |-> IF Awaiting(c) THEN Rejection(c) ELSE reply[c]]
  /\ UNCHANGED <<storeVars, pc, kind, thread, workspace, gate, held, contract, work, listed, misfiled, crashes>>

\* The application dies, and with it the source it had spawned. Only the
\* tables remain; calls that have not begun belong to the next run.
Crash ==
  /\ crashes < MaxCrashes
  /\ crashes' = crashes + 1
  /\ Exit
  /\ pc' = [c \in Calls |-> IF pc[c] = "idle" THEN "idle" ELSE "done"]
  /\ gate' = [c \in Calls |-> Null]
  /\ reply' = [c \in Calls |-> Null]
  /\ held' = [c \in Calls |-> Null]
  /\ contract' = [c \in Calls |-> Null]
  /\ work' = [c \in Calls |-> NoWork]
  /\ listed' = {}
  /\ UNCHANGED <<storeVars, kind, thread, workspace, misfiled, exits>>

Step(c) == Run(c) \/ Catalog(c) \/ Select(c) \/ Recover(c)

\* The event loop.  Repository calls are synchronous SQLite behind an await, so
\* what follows an answer, up to the next request, runs before the next message
\* of the user, timer or end of the source is looked at; the pieces of several
\* calls that were answered in the same read of the pipe may alternate.
Between == {"reserve", "confirm", "after", "forget", "release", "selectBegin", "reconcile", "items"}

Queued(c) ==
  \/ pc[c] \in Between
  \/ pc[c] = "bind" /\ kind[c] = "implicit"
  \/ pc[c] = "submit" /\ kind[c] \in {"implicit"} \cup MaintenanceKinds

Runnable(c) == Queued(c) \/ (pc[c] \in Waiting /\ reply[c] # Null)

LoopIsIdle == \A c \in Calls : ~Runnable(c)
MayRun(c) == Runnable(c) \/ LoopIsIdle

Next ==
  \/ \E c \in Calls : MayRun(c) /\ Step(c)
  \/ \E c \in Calls : LoopIsIdle /\ Timeout(c)
  \/ (\A c \in Calls : ~Queued(c)) /\ Deliver
  \/ LoopIsIdle /\ SourceExit
  \/ Source
  \/ Lists
  \/ Crash

Spec == Init /\ [][Next]_vars

\* Beginning a call is the user's choice. What has begun goes on, because the
\* event loop runs every continuation that is due and the transport gives each
\* request a timer. Nothing is expected of the source: it may hang for ever.
Begins(c) == pc[c] = "idle" /\ pc'[c] # "idle"

Fairness ==
  \A c \in Calls :
    /\ WF_vars(MayRun(c) /\ Step(c) /\ ~Begins(c))
    /\ WF_vars(LoopIsIdle /\ Timeout(c))

FairSpec == Spec /\ Fairness

----------------------------------------------------------------------------
(* Safety. *)

\* Requests that may change the source and have not been served yet.
Effects == StartMethods \cup {"rollback", "switch", "archive", "unarchive", "delete"}

\* Whatever is still on its way to the source is guarded by a durable row of
\* its thread, also after the call that sent it gave up: the row is written
\* before the request and cleared on evidence that is younger than it.
PendingIsGuarded ==
  \A i \in 1..Len(requests) : requests[i].method \in Effects =>
    LET t == requests[i].thread IN
    \/ \E id \in ReservedBy(t) : id = requests[i].call /\ Row(id).state # "preparing"
    \/ requests[i].method = "switch" /\ transitions[t] # Null /\ transitions[t].state # "preparing"

\* An execution this application started and that the source still runs is
\* covered by its reservation.
RunningIsReserved ==
  \A t \in Threads : running[t] \in Calls =>
    Live(running[t]) /\ Row(running[t]).thread = t

\* The loaded thread and the cache disagree on the location only under a
\* transition that has been dispatched.
LocationAgrees ==
  \A t \in known : association[t] # Null /\ sourceCwd[t] # association[t] =>
    transitions[t] # Null /\ transitions[t].state # "preparing"

\* The evidence stored for a turn that runs, whoever started it, names the
\* location in which it really runs.
ContextIsTrue ==
  \A t \in Threads :
    LET u == running[t] IN
    u # Null => contexts[t][u] \in {Null, sourceCwd[t]}

\* Cache and source disagree on the catalogue only while a mutation that has
\* been dispatched blocks the thread, or because the last index write of the
\* thread was older than the source: an index write takes the archive flag of
\* whatever list it comes from (threadIndexWriter, line 89).
CatalogAgrees ==
  \A t \in Threads : association[t] # Null /\ (t \notin known \/ archivedRow[t] # sourceArchived[t]) =>
    \/ \E id \in ReservedBy(t) : Row(id).operation \in CatalogKinds /\ Row(id).state # "preparing"
    \/ t \in misfiled

\* Every resume that is still on its way to the source is the one its thread's
\* transition was dispatched with, whichever selection or recovery sent it: to
\* the same place, under the same permission contract.
SwitchIsRecorded ==
  \A i \in 1..Len(requests) : requests[i].method = "switch" =>
    LET move == transitions[requests[i].thread] IN
    /\ move # Null /\ move.state # "preparing"
    /\ move.to = requests[i].cwd /\ move.contract = requests[i].contract

\* A selection is committed only when the source has the thread loaded in the
\* place, and reports for it the permission contract, that the transition was
\* dispatched with, never on what was merely asked for.  What the source
\* enforces is another matter: the report is no proof of it
\* (WorkspaceThreadTransition, lines 32-36).
CommittedIsReported ==
  [][\A t \in Threads :
       transitions[t] # Null /\ transitions'[t] = Null /\ association'[t] = transitions[t].to
         /\ transitions[t].from # transitions[t].to
       => sourceCwd[t] = transitions[t].to /\ reported[t] = transitions[t].contract]_vars

\* A conversation creation that was dispatched and never answered stays blocked
\* until its own call confirms it: nothing can tell whether the source created it.
UnknownCreationStays ==
  [][\A c \in Calls :
       Live(c) /\ Row(c).thread = Null /\ Row(c).state # "preparing"
         => Row(c)' # Null \/ pc[c] = "confirm"]_vars

\* The local row of a thread goes only once the source has deleted the thread.
\* (Rows of threads without title, turns or reservation, which a list clears
\* away as empty shells, are not in the model.)
ForgottenIsDeleted ==
  [][\A t \in Threads : association[t] # Null /\ association'[t] = Null => t \notin known]_vars

----------------------------------------------------------------------------
(* Liveness. *)

\* A thread gate is a lock in memory that nothing but the call that took it
\* releases: every one is released, however the source behaves.
GateReleased == \A t \in Threads : t \in busyThreads ~> t \notin busyThreads

\* Every call that has begun returns or throws.
CallsReturn == \A c \in Calls : pc[c] # "idle" ~> pc[c] = "done"
=============================================================================
