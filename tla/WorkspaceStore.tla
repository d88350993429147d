--------------------------- MODULE WorkspaceStore ---------------------------
(***************************************************************************)
(* The tables of the SQLite cache that guard workspace execution, and the  *)
(* transactions of SqliteWorkspaceCacheRepository and                      *)
(* SqliteWorkspaceTransitionRepository on them.  One project and one       *)
(* source are modelled, so a workspace stands for its id and its path.     *)
(*                                                                         *)
(* A transaction is an action.  It is enabled when it commits; CanX is the *)
(* condition under which X commits where the caller has to react to the    *)
(* exception the repository raises instead.                                *)
(***************************************************************************)

EXTENDS WorkspaceIdentities

CONSTANTS
  Reservations,   \* primary keys of workspace_execution_reservations
  Turns           \* turn ids

Operations == {"turn", "review", "compact", "rollback", "archive", "unarchive", "delete"}
Lifecycle  == {"turn", "review", "compact"}  \* operations that turn events may correlate with
ReservationStates == {"preparing", "submitting", "running", "uncertain", "completed"}
TransitionStates  == {"preparing", "submitting", "uncertain"}

Reservation ==
  [workspace : Workspaces, thread : Threads \cup {Null}, turn : Turns \cup {Null},
   state : ReservationStates, operation : Operations, acknowledged : BOOLEAN]

Transition ==
  [from : Workspaces, to : Workspaces, state : TransitionStates, contract : Contracts \cup {Null}]

\* Null is no value of any column, and no row.
ASSUME NullAssumption ==
  /\ Null \notin Threads \cup Workspaces \cup Turns \cup Contracts
  /\ Null \notin Reservation \cup Transition

VARIABLES
  association,    \* threads.current_workspace_id; Null when the thread has no row
  archivedRow,    \* threads.is_archived
  reservations,   \* workspace_execution_reservations by id
  transitions,    \* workspace_transitions by thread (thread_id is UNIQUE)
  contexts        \* turn_workspace_contexts by (thread, turn)

storeVars == <<association, archivedRow, reservations, transitions, contexts>>

StoreTypeOK ==
  /\ association \in [Threads -> Workspaces \cup {Null}]
  /\ archivedRow \in [Threads -> BOOLEAN]
  /\ reservations \in [Reservations -> Reservation \cup {Null}]
  /\ transitions \in [Threads -> Transition \cup {Null}]
  /\ contexts \in [Threads -> [Turns -> Workspaces \cup {Null}]]

StoreInit ==
  /\ association \in [Threads -> Workspaces \cup {Null}]
  /\ archivedRow = [t \in Threads |-> FALSE]
  /\ reservations = [id \in Reservations |-> Null]
  /\ transitions = [t \in Threads |-> Null]
  /\ contexts = [t \in Threads |-> [u \in Turns |-> Null]]

Row(id) == reservations[id]
Live(id) == Row(id) # Null

\* The reservations bound to a thread, and those that hold a location.
ReservedBy(t) == {id \in Reservations : Live(id) /\ Row(id).thread = t}
ReservedOn(w) == {id \in Reservations : Live(id) /\ Row(id).workspace = w}

Ends(t) == {transitions[t].from, transitions[t].to}
InTransition(w) == \E t \in Threads : transitions[t] # Null /\ w \in Ends(t)

----------------------------------------------------------------------------
(* Immutable turn contexts, written inside other transactions. *)

HasContext(row) == row.operation = "turn" /\ row.thread # Null /\ row.turn # Null

\* Defect: a stored context is replaced.
CanOverwrite(row) == TRUE

\* A context already stored for the turn must agree, or the transaction aborts.
CanCapture(row) == HasContext(row) => contexts[row.thread][row.turn] \in {Null, row.workspace}

CaptureContext(row) ==
  contexts' = IF HasContext(row)
              THEN [contexts EXCEPT ![row.thread][row.turn] = row.workspace]
              ELSE contexts

----------------------------------------------------------------------------
(* Threads. *)

\* The index write of a thread that somebody reports in workspace w.  A known
\* thread keeps its association and takes the archive flag; a thread without a
\* row is inserted, whatever reservations name it.
WriteIndex(t, w, isArchived) ==
  /\ association' = [association EXCEPT ![t] = IF @ = Null THEN w ELSE @]
  /\ archivedRow' = [archivedRow EXCEPT ![t] = isArchived]
  /\ UNCHANGED <<reservations, transitions, contexts>>

WriteArchiveState(t, isArchived) ==
  /\ archivedRow' = [archivedRow EXCEPT ![t] = IF association[t] = Null THEN @ ELSE isArchived]
  /\ UNCHANGED <<association, reservations, transitions, contexts>>

\* Deleting the row also deletes its contexts, and is refused while a
\* transition references it.
ForgetThread(t) ==
  /\ transitions[t] = Null
  /\ association' = [association EXCEPT ![t] = Null]
  /\ contexts' = [contexts EXCEPT ![t] = [u \in Turns |-> Null]]
  /\ UNCHANGED <<archivedRow, reservations, transitions>>

\* Defect: the selection looks at transitions only.
SelectReserved(t, w) ==
  /\ association[t] # Null
  /\ transitions[t] = Null
  /\ association' = [association EXCEPT ![t] = w]
  /\ UNCHANGED <<archivedRow, reservations, transitions, contexts>>

\* The repository's direct selection, which no backend service calls.
SelectRow(t, w) ==
  /\ association[t] # Null
  /\ transitions[t] = Null
  /\ ReservedBy(t) = {}
  /\ association' = [association EXCEPT ![t] = w]
  /\ UNCHANGED <<archivedRow, reservations, transitions, contexts>>

----------------------------------------------------------------------------
(* Execution reservations. *)

ChangeReservations(new) ==
  /\ reservations' = new
  /\ UNCHANGED <<association, archivedRow, transitions, contexts>>

\* Defect: without the trigger protect_transition_execution.
CanReserveUntriggered(w, t) == t # Null => association[t] = w /\ ReservedBy(t) = {}

\* The explicit checks of reserve, the UNIQUE(source, thread) constraint and
\* the trigger protect_transition_execution.
CanReserve(w, t) ==
  /\ t # Null => /\ association[t] = w
                 /\ ReservedBy(t) = {}
                 /\ transitions[t] = Null
  /\ ~InTransition(w)

Reserve(id, w, t, operation) ==
  /\ ~Live(id)
  /\ CanReserve(w, t)
  /\ ChangeReservations([reservations EXCEPT ![id] =
       [workspace |-> w, thread |-> t, turn |-> Null, state |-> "preparing",
        operation |-> operation, acknowledged |-> FALSE]])

\* Defects: without the UNIQUE constraint, without protect_transition_thread.
CanBindTwice(id, t) ==
  /\ Live(id)
  /\ Row(id).state = "preparing"
  /\ association[t] # Null
  /\ association[t] = Row(id).workspace \/ transitions[t] = Null

CanBindMoving(id, t) ==
  /\ Live(id)
  /\ Row(id).state = "preparing"
  /\ association[t] # Null
  /\ ReservedBy(t) \subseteq {id}

\* Binding moves the thread to the reserved workspace, which the trigger
\* protect_transition_thread forbids during a transition of the thread.
CanBind(id, t) ==
  /\ Live(id)
  /\ Row(id).state = "preparing"
  /\ association[t] # Null
  /\ ReservedBy(t) \subseteq {id}
  /\ association[t] = Row(id).workspace \/ transitions[t] = Null

BindThread(id, t) ==
  /\ CanBind(id, t)
  /\ reservations' = [reservations EXCEPT ![id].thread = t]
  /\ association' = [association EXCEPT ![t] = Row(id).workspace]
  /\ UNCHANGED <<archivedRow, transitions, contexts>>

CanSubmitCreation(id) ==
  Live(id) /\ Row(id).state = "preparing" /\ Row(id).thread = Null /\ Row(id).operation = "turn"

SubmittingCreation(id) ==
  /\ CanSubmitCreation(id)
  /\ ChangeReservations([reservations EXCEPT ![id].state = "submitting"])

CanConfirmCreation(id, t) ==
  /\ Live(id)
  /\ Row(id).state = "submitting" /\ Row(id).thread = Null /\ Row(id).operation = "turn"
  /\ association[t] = Row(id).workspace

ConfirmCreation(id, t) ==
  /\ CanConfirmCreation(id, t)
  /\ ChangeReservations([reservations EXCEPT ![id] = Null])

CanSubmit(id) == Live(id) /\ Row(id).state = "preparing" /\ Row(id).thread # Null

Submitting(id) ==
  /\ CanSubmit(id)
  /\ ChangeReservations([reservations EXCEPT ![id].state = "submitting"])

\* The row once the response of its own start request is joined.
Acknowledged(id, u) ==
  [Row(id) EXCEPT !.turn = u, !.acknowledged = TRUE,
                  !.state = IF @ = "completed" THEN @ ELSE "running"]

CanAcknowledge(id, u) ==
  /\ Live(id)
  /\ Row(id).operation \in Lifecycle
  /\ Row(id).turn \in {Null, u}
  /\ CanCapture(Acknowledged(id, u))

Acknowledge(id, u) ==
  /\ CanAcknowledge(id, u)
  /\ reservations' = [reservations EXCEPT ![id] =
       IF Row(id).state = "completed" THEN Null ELSE Acknowledged(id, u)]
  /\ CaptureContext(Acknowledged(id, u))
  /\ UNCHANGED <<association, archivedRow, transitions>>

CanAcknowledgeMaintenance(id, u) ==
  /\ Live(id)
  /\ Row(id).operation \in {"review", "compact", "rollback"}
  /\ Row(id).state # "preparing"
  /\ Row(id).operation = "review" => CanAcknowledge(id, u)

AcknowledgeMaintenance(id, u) ==
  /\ CanAcknowledgeMaintenance(id, u)
  /\ \/ Row(id).operation = "review" /\ Acknowledge(id, u)
     \/ /\ Row(id).operation = "rollback"
        /\ ChangeReservations([reservations EXCEPT ![id] = Null])
     \/ /\ Row(id).operation = "compact"
        /\ ChangeReservations([reservations EXCEPT ![id] =
             IF Row(id).state = "completed" THEN Null ELSE [@ EXCEPT !.acknowledged = TRUE]])

\* The row of a thread after a lifecycle event of turn u.
Correlates(row) ==
  row.turn = Null /\ row.operation \in Lifecycle /\ row.state \in {"submitting", "uncertain"}

\* Defect: the event's own status word is stored.
ObservedRaw(row, u, isCompleted) ==
  IF Correlates(row) THEN [row EXCEPT !.turn = u, !.state = IF isCompleted THEN "completed" ELSE "inProgress"]
  ELSE row

Observed(row, u, isCompleted) ==
  IF isCompleted
  THEN IF row.turn = u THEN [row EXCEPT !.state = "completed"] ELSE row
  ELSE IF Correlates(row) THEN [row EXCEPT !.turn = u, !.state = "running"] ELSE row

\* The transaction leaves the tables alone when no reservation of the thread
\* has the turn, and aborts when the stored context conflicts.
ObserveTurn(t, u, isCompleted) ==
  \/ /\ \A id \in ReservedBy(t) :
          LET row == Observed(Row(id), u, isCompleted)
          IN  row.turn # u \/ ~CanCapture(row)
     /\ UNCHANGED storeVars
  \/ \E id \in ReservedBy(t) :
       LET row == Observed(Row(id), u, isCompleted)
       IN  /\ row.turn = u
           /\ CanCapture(row)
           /\ reservations' = [reservations EXCEPT ![id] =
                IF isCompleted /\ row.acknowledged THEN Null ELSE row]
           /\ CaptureContext(row)
           /\ UNCHANGED <<association, archivedRow, transitions>>

\* Defect: every failure is a safe one.
FailAlways(id) == ChangeReservations([reservations EXCEPT ![id] = Null])

\* Safe failures disappear, ambiguous ones stay.
Fail(id) ==
  ChangeReservations([reservations EXCEPT ![id] =
    IF @ = Null \/ @.state \in {"preparing", "completed"} THEN Null
    ELSE [@ EXCEPT !.state = "uncertain"]])

CanConfirmDeletion(id) ==
  Live(id) /\ Row(id).operation = "delete" /\ Row(id).state \in {"submitting", "uncertain"}

ConfirmDeletion(id) ==
  /\ CanConfirmDeletion(id)
  /\ ChangeReservations([reservations EXCEPT ![id].acknowledged = TRUE])

\* Defect: the intention is taken for the confirmation.
IsDeletionPending(id) == Live(id) /\ Row(id).operation = "delete"

IsDeletionConfirmed(id) == Live(id) /\ Row(id).operation = "delete" /\ Row(id).acknowledged

Release(id) == ChangeReservations([reservations EXCEPT ![id] = Null])

----------------------------------------------------------------------------
(* Workspace transitions. *)

ChangeTransitions(new) ==
  /\ transitions' = new
  /\ UNCHANGED <<association, archivedRow, reservations, contexts>>

CanBegin(t, w) ==
  /\ association[t] # Null
  /\ ReservedBy(t) = {}
  /\ transitions[t] = Null
  /\ \A e \in {association[t], w} : ReservedOn(e) = {} /\ ~InTransition(e)

BeginTransition(t, w) ==
  /\ CanBegin(t, w)
  /\ ChangeTransitions([transitions EXCEPT ![t] =
       [from |-> association[t], to |-> w, state |-> "preparing", contract |-> Null]])

CanSubmitTransition(t, k) == transitions[t] # Null /\ transitions[t].contract \in {Null, k}

SubmittingTransition(t, k) ==
  /\ CanSubmitTransition(t, k)
  /\ ChangeTransitions([transitions EXCEPT ![t].state = "submitting", ![t].contract = k])

\* Defect: a failure after dispatch unblocks.
FailTransitionAlways(t) == ChangeTransitions([transitions EXCEPT ![t] = Null])

FailTransition(t) ==
  ChangeTransitions([transitions EXCEPT ![t] =
    IF @ = Null \/ @.state = "preparing" THEN Null ELSE [@ EXCEPT !.state = "uncertain"]])

CanCommit(t) ==
  transitions[t] # Null /\ transitions[t].state = "submitting" /\ association[t] = transitions[t].from

CommitTransition(t) ==
  /\ CanCommit(t)
  /\ association' = [association EXCEPT ![t] = transitions[t].to]
  /\ transitions' = [transitions EXCEPT ![t] = Null]
  /\ UNCHANGED <<archivedRow, reservations, contexts>>

----------------------------------------------------------------------------
(* Any transaction, with any arguments, at any time. *)

ThreadTransaction ==
  \E t \in Threads :
    \/ \E w \in Workspaces, b \in BOOLEAN : WriteIndex(t, w, b)
    \/ \E w \in Workspaces : SelectRow(t, w) \/ BeginTransition(t, w)
    \/ \E b \in BOOLEAN : WriteArchiveState(t, b)
    \/ \E k \in Contracts : SubmittingTransition(t, k)
    \/ \E u \in Turns, b \in BOOLEAN : ObserveTurn(t, u, b)
    \/ ForgetThread(t)
    \/ FailTransition(t)
    \/ CommitTransition(t)

ReservationTransaction ==
  \E id \in Reservations :
    \/ \E w \in Workspaces, t \in Threads \cup {Null}, o \in Operations : Reserve(id, w, t, o)
    \/ \E t \in Threads : BindThread(id, t) \/ ConfirmCreation(id, t)
    \/ \E u \in Turns : Acknowledge(id, u) \/ AcknowledgeMaintenance(id, u)
    \/ SubmittingCreation(id)
    \/ Submitting(id)
    \/ Fail(id)
    \/ ConfirmDeletion(id)
    \/ Release(id)

StoreNext == ThreadTransaction \/ ReservationTransaction

StoreSpec == StoreInit /\ [][StoreNext]_storeVars

----------------------------------------------------------------------------
(* What the tables promise whatever the order of the transactions. *)

\* A thread has at most one reservation: the duplicate check of reserve and
\* the UNIQUE constraint that bindThread runs into.
OneReservationPerThread ==
  \A t \in Threads : \A a, b \in ReservedBy(t) : a = b

\* A transition has both of its locations and its thread for itself, from
\* begin to commit: no reservation and no other transition touches them.
TransitionExclusive ==
  \A t \in Threads : transitions[t] # Null =>
    /\ association[t] = transitions[t].from
    /\ ReservedBy(t) = {}
    /\ \A e \in Ends(t) : ReservedOn(e) = {}
    /\ \A u \in Threads \ {t} : transitions[u] # Null => Ends(u) \cap Ends(t) = {}

StoreInv == OneReservationPerThread /\ TransitionExclusive

\* Whatever rows there are, the tables own threads and workspaces the way
\* WorkspaceOwnership says.
modeOf == [t \in Threads |->
  IF transitions[t] # Null THEN "moving" ELSE IF ReservedBy(t) # {} THEN "executing" ELSE "free"]
targetOf == [t \in Threads |-> IF transitions[t] = Null THEN Null ELSE transitions[t].to]
captureOf == [t \in Threads |->
  IF ReservedBy(t) = {} THEN Null ELSE Row(CHOOSE id \in ReservedBy(t) : TRUE).workspace]

Ownership == INSTANCE WorkspaceOwnership
  WITH location <- association, mode <- modeOf, target <- targetOf, capture <- captureOf

\* The tables implement that ownership: no order of transactions lets a thread
\* be in two executions, execute and move, or be moved while it executes.
ImplementsOwnership == Ownership!OwnershipSpec

\* A thread with a reservation is not moved: neither a selection nor a committed
\* transition nor an index write nor the binding of another reservation takes it
\* elsewhere.  It may be forgotten, and is then indexed where Codex reports it;
\* from there only its own binding brings it back.
ReservedThreadStays ==
  [][\A id \in Reservations :
       LET t == Row(id).thread IN
       Live(id) /\ t # Null /\ association[t] # Null
         => association'[t] \in {association[t], Row(id).workspace, Null}]_storeVars

\* The evidence of a turn is never replaced; it disappears with its thread.
ContextsImmutable ==
  [][\A t \in Threads, u \in Turns :
       contexts[t][u] # Null => \/ contexts'[t][u] = contexts[t][u]
                                \/ association'[t] = Null]_storeVars
=============================================================================
